------------------------ MODULE BlockingReceptionProofs ------------------------
(***************************************************************************)
(* What TLAPS proves of BlockingReception: for every number of readers and *)
(* receivers, and for every way the environment calls reset.               *)
(***************************************************************************)
EXTENDS BlockingReception, FiniteSetTheorems, TLAPS

(* The callback is owed until it was invoked, and paid when the call is over. *)
CallbackAccounting ==
  /\ armed => withCallback /\ rpc # "idle" /\ callbacks = 0
  /\ withCallback /\ ~armed => callbacks = 1
  /\ ~withCallback => callbacks = 0

(* A call belongs to an owner, and a stop with a callback comes after it. *)
OwnerAccounting ==
  /\ rpc # "idle" => owner # "off"
  /\ owner \in {"stopping", "stopped"} /\ withCallback => callbacks = 1

(* From the reset of the guard condition on, until somebody stops. *)
GuardIsReset ==
  owner \in {"on", "stopping"}
    /\ (rpc \in {"notify", "record", "wait", "dispatch"}
         \/ (rpc \in {"loop", "compare"} /\ waitset # {}))
    => ~guard

ReceivingUntilStopped ==
  owner = "on" /\ rpc \notin {"idle", "enter"} => receiving

IInv ==
  /\ TypeOK
  /\ CallbackAccounting
  /\ OwnerAccounting
  /\ GuardIsReset
  /\ ReceivingUntilStopped

--------------------------------------------------------------------------------

LEMMA EntriesFinite ==
  ASSUME entries \subseteq Accesses
  PROVE  Size \in Nat
<1>1. IsFiniteSet(Accesses)
  BY ReceptionAssumption, FS_Product DEF Accesses
<1>2. IsFiniteSet(entries)
  BY <1>1, FS_Subset
<1> QED
  BY <1>2, FS_CardinalityType DEF Size

(* Whatever ends the life of the unique_ptr, the callback is paid after it. *)
LEMMA FireCallbackPays ==
  ASSUME TypeOK, CallbackAccounting, FireCallback
  PROVE  /\ armed' = FALSE
         /\ callbacks' \in 0..1
         /\ withCallback => callbacks' = 1
         /\ ~withCallback => callbacks' = 0
<1>1. CASE armed
  <2>1. withCallback /\ callbacks = 0
    BY <1>1 DEF CallbackAccounting
  <2>2. callbacks' = callbacks + 1 /\ armed' = FALSE
    BY <1>1 DEF FireCallback
  <2>3. callbacks' = 1
    BY <2>1, <2>2
  <2> QED
    BY <2>1, <2>2, <2>3
<1>2. CASE ~armed
  <2>1. callbacks' = callbacks /\ armed' = FALSE
    BY <1>2 DEF FireCallback
  <2>2. /\ withCallback => callbacks = 1
        /\ ~withCallback => callbacks = 0
    BY <1>2 DEF CallbackAccounting
  <2> QED
    BY <2>1, <2>2 DEF TypeOK
<1> QED
  BY <1>1, <1>2

LEMMA InitIInv == Init => IInv
<1> SUFFICES ASSUME Init
             PROVE  IInv
  OBVIOUS
<1>1. callbacks \in 0..1 /\ lastSize \in Nat
  BY SMT DEF Init
<1>2. TypeOK
  BY <1>1, Zenon DEF Init, TypeOK
<1>3. CallbackAccounting /\ OwnerAccounting
  BY Zenon DEF Init, CallbackAccounting, OwnerAccounting
<1>4. GuardIsReset /\ ReceivingUntilStopped
  BY Zenon DEF Init, GuardIsReset, ReceivingUntilStopped
<1> QED
  BY <1>2, <1>3, <1>4 DEF IInv

(* One step per action: the owner, the reception thread, the resets, DDS. *)
LEMMA NextIInv == IInv /\ [Next]_vars => IInv'
<1> SUFFICES ASSUME IInv, [Next]_vars
             PROVE  IInv'
  OBVIOUS
<1> USE DEF IInv, TypeOK, CallbackAccounting, OwnerAccounting, GuardIsReset,
            ReceivingUntilStopped, busVars, loopVars, envVars, ownerVars,
            readerVars
<1>0. Size \in Nat
  BY EntriesFinite
<1>a. None \notin Accesses /\ GuardCondition \notin Accesses
  BY ReceptionAssumption
<1>1. CASE CreateDataAccessCollection
  BY <1>1 DEF CreateDataAccessCollection
<1>2. CASE ReleaseDataAccessCollection
  BY <1>2 DEF ReleaseDataAccessCollection
<1>3. ASSUME NEW cb \in BOOLEAN, CallStart(cb)
      PROVE  IInv'
  <2>1. {pending[1] : pending \in resets} \subseteq Readers
    OBVIOUS
  <2> QED
    BY <1>3, <2>1 DEF CallStart
<1>4. CASE StopClearsReceiving
  <2>1. withCallback => callbacks = 1
    <3>1. withCallback => callbacks > 0
      BY <1>4 DEF StopClearsReceiving
    <3>2. callbacks > 0 => callbacks = 1
      OBVIOUS
    <3> QED
      BY <3>1, <3>2
  <2> QED
    BY <1>4, <2>1 DEF StopClearsReceiving
<1>5. CASE StopTriggersGuard
  BY <1>5 DEF StopTriggersGuard
<1>6. CASE Join
  BY <1>6 DEF Join
<1>7. CASE NoCollection
  <2>1. /\ armed' = FALSE /\ callbacks' \in 0..1
        /\ withCallback => callbacks' = 1
        /\ ~withCallback => callbacks' = 0
    BY <1>7, FireCallbackPays DEF NoCollection, Leave
  <2> QED
    BY <1>7, <2>1 DEF NoCollection, Leave
<1>8. CASE Enter
  BY <1>8 DEF Enter
<1>9. CASE LoopContinues
  BY <1>9 DEF LoopContinues
<1>10. CASE LoopEnds
  <2>1. /\ armed' = FALSE /\ callbacks' \in 0..1
        /\ withCallback => callbacks' = 1
        /\ ~withCallback => callbacks' = 0
    BY <1>10, FireCallbackPays DEF LoopEnds, Leave
  <2> QED
    BY <1>10, <2>1 DEF LoopEnds, Leave
<1>11. CASE CompareSize
  BY <1>11 DEF CompareSize, NeedsRebuild
<1>12. CASE AttachConditions
  BY <1>12 DEF AttachConditions, Conditions
<1>13. CASE AttachThrows
  <2>1. /\ armed' = FALSE /\ callbacks' \in 0..1
        /\ withCallback => callbacks' = 1
        /\ ~withCallback => callbacks' = 0
    BY <1>13, FireCallbackPays DEF AttachThrows, Leave
  <2> QED
    BY <1>13, <2>1 DEF AttachThrows, Leave
<1>14. CASE ResetGuard
  BY <1>14 DEF ResetGuard
<1>15. CASE NotifyPrepared
  <2>1. /\ armed' = FALSE /\ callbacks' \in 0..1
        /\ withCallback => callbacks' = 1
        /\ ~withCallback => callbacks' = 0
    BY <1>15, FireCallbackPays DEF NotifyPrepared
  <2> QED
    BY <1>15, <2>1 DEF NotifyPrepared
<1>16. CASE RecordSize
  BY <1>16, <1>0 DEF RecordSize
<1>17. CASE WaitReturns
  <2>1. todo' \subseteq Accesses
    BY <1>17 DEF WaitReturns, TriggeredConditions, Conditions
  <2> QED
    BY <1>17, <2>1 DEF WaitReturns
<1>18. CASE WaitTimesOut
  BY <1>18 DEF WaitTimesOut
<1>19. CASE DispatchNext
  BY <1>19 DEF DispatchNext
<1>20. CASE PopFromDelivers
  BY <1>20 DEF PopFromDelivers, TakeSamples, Takeable
<1>21. CASE PopFromThrows
  BY <1>21 DEF PopFromThrows, TakeSamples, Takeable
<1>22. CASE PopFromEmpty
  BY <1>22 DEF PopFromEmpty
<1>23. CASE RoundDone
  BY <1>23 DEF RoundDone
<1>24. ASSUME NEW r \in Readers, NEW receiver \in Receivers \cup {None},
              ResetRemove(r, receiver)
       PROVE  IInv'
  BY <1>24 DEF ResetRemove, AccessesOf
<1>25. ASSUME NEW r \in Readers, NEW receiver \in Receivers \cup {None},
              ResetAdd(r, receiver)
       PROVE  IInv'
  <2>1. entries' \subseteq Accesses
    BY <1>25 DEF ResetAdd, Accesses
  <2> QED
    BY <1>25, <2>1 DEF ResetAdd
<1>26. ASSUME NEW r \in Readers,
              DestroyReader(r) \/ Pop(r) \/ Arrive(r) \/ WriterGone(r)
       PROVE  IInv'
  <2>1. gone' \subseteq Readers /\ unread' \subseteq Readers
    BY <1>26 DEF DestroyReader, Pop, Arrive, WriterGone, TakeSamples
  <2>2. orphaned' \subseteq unread'
    BY <1>26 DEF DestroyReader, Pop, Arrive, WriterGone, TakeSamples, Takeable
  <2> QED
    BY <1>26, <2>1, <2>2 DEF DestroyReader, Pop, Arrive, WriterGone
<1>27. CASE UNCHANGED vars
  BY <1>27 DEF vars
<1> QED
  BY <1>1, <1>2, <1>3, <1>4, <1>5, <1>6, <1>7, <1>8, <1>9, <1>10, <1>11, <1>12,
     <1>13, <1>14, <1>15, <1>16, <1>17, <1>18, <1>19, <1>20, <1>21, <1>22,
     <1>23, <1>24, <1>25, <1>26, <1>27
  DEF Next, OwnerStep, ReceptionStep, ReaderStep

LEMMA InductiveInvariant == Spec => []IInv
  BY InitIInv, NextIInv, PTL DEF Spec

--------------------------------------------------------------------------------

(* Every variable keeps its type, and no call invokes its callback twice. *)
THEOREM TypeCorrect == Spec => []TypeOK
<1>1. IInv => TypeOK
  BY DEF IInv
<1> QED
  BY <1>1, InductiveInvariant, PTL

(* A session that nobody stops waits for data only: the trigger a stop of an  *)
(* earlier session left in the guard condition is gone before the first wait. *)
THEOREM NoSpuriousWakeUpHolds == Spec => []NoSpuriousWakeUp
<1>1. IInv => NoSpuriousWakeUp
  BY DEF IInv, GuardIsReset, NoSpuriousWakeUp
<1> QED
  BY <1>1, InductiveInvariant, PTL

(* Three actions end a call, and LoopEnds needs _receiving to be false.       *)
LEMMA ReturnStep ==
  ASSUME IInv, [Next]_vars, rpc # "idle", rpc' = "idle"
  PROVE  \/ owner \in {"stopping", "stopped"}
         \/ rpc = "enter" /\ ~collection
         \/ rpc = "attach"
<1>1. CASE NoCollection
  BY <1>1 DEF NoCollection
<1>2. CASE AttachThrows
  BY <1>2 DEF AttachThrows
<1>3. CASE LoopEnds
  <2>1. ~receiving /\ rpc = "loop"
    BY <1>3 DEF LoopEnds
  <2>2. owner \in {"on", "stopping", "stopped"}
    BY DEF IInv, TypeOK, OwnerAccounting
  <2> QED
    BY <2>1, <2>2 DEF IInv, ReceivingUntilStopped
<1>4. CASE OwnerStep
  BY <1>4 DEF OwnerStep, CreateDataAccessCollection, ReleaseDataAccessCollection,
              CallStart, StopClearsReceiving, StopTriggersGuard, Join, loopVars
<1>5. ASSUME ReceptionStep, ~NoCollection, ~AttachThrows, ~LoopEnds
      PROVE  FALSE
  <2>1. CASE Enter
    BY <2>1 DEF Enter
  <2>2. CASE LoopContinues \/ CompareSize
    BY <2>2 DEF LoopContinues, CompareSize
  <2>3. CASE AttachConditions \/ ResetGuard \/ NotifyPrepared \/ RecordSize
    BY <2>3 DEF AttachConditions, ResetGuard, NotifyPrepared, RecordSize
  <2>4. CASE WaitReturns \/ WaitTimesOut
    BY <2>4 DEF WaitReturns, WaitTimesOut
  <2>5. CASE DispatchNext \/ PopFromDelivers \/ PopFromThrows \/ PopFromEmpty
    BY <2>5 DEF DispatchNext, PopFromDelivers, PopFromThrows, PopFromEmpty, loopVars
  <2>6. CASE RoundDone
    BY <2>6 DEF RoundDone
  <2> QED
    BY <1>5, <2>1, <2>2, <2>3, <2>4, <2>5, <2>6 DEF ReceptionStep
<1>6. ASSUME NEW r \in Readers, ReaderStep(r)
      PROVE  FALSE
  BY <1>6 DEF ReaderStep, ResetRemove, ResetAdd, DestroyReader, Pop, Arrive, WriterGone,
              loopVars
<1>7. CASE UNCHANGED vars
  BY <1>7 DEF vars, loopVars
<1> QED
  BY <1>1, <1>2, <1>3, <1>4, <1>5, <1>6, <1>7 DEF Next

(* The call returns only when it was stopped, has nothing to serve or could   *)
(* not be prepared, whatever an earlier session left behind.                  *)
THEOREM ReturnsOnlyWhenStoppedHolds == Spec => ReturnsOnlyWhenStopped
<1>1. IInv /\ [Next]_vars
        => [rpc # "idle" /\ rpc' = "idle"
              => \/ owner \in {"stopping", "stopped"}
                 \/ rpc = "enter" /\ ~collection
                 \/ rpc = "attach"]_vars
  BY ReturnStep
<1> QED
  BY <1>1, InductiveInvariant, PTL DEF Spec, ReturnsOnlyWhenStopped

(* Enter is the one step that sets _receiving: it still owes the callback the *)
(* stop comes after.                                                          *)
EnterOwesCallback == rpc = "enter" /\ withCallback => armed

LEMMA StopNotUndoneStep ==
  ASSUME IInv, EnterOwesCallback, StopNotUndone, [Next]_vars
  PROVE  EnterOwesCallback' /\ StopNotUndone'
<1> USE DEF EnterOwesCallback, StopNotUndone, busVars, loopVars, envVars,
            ownerVars, readerVars
<1>1. CASE OwnerStep
  BY <1>1 DEF OwnerStep, CreateDataAccessCollection, ReleaseDataAccessCollection,
              CallStart, StopClearsReceiving, StopTriggersGuard, Join
<1>2. CASE Enter
  <2>1. withCallback => callbacks = 0
    BY <1>2 DEF Enter, IInv, CallbackAccounting
  <2>2. ~(owner \in {"stopping", "stopped"} /\ withCallback)
    BY <2>1 DEF IInv, OwnerAccounting
  <2> QED
    BY <1>2, <2>2 DEF Enter
<1>3. CASE NoCollection \/ LoopEnds \/ AttachThrows
  BY <1>3 DEF NoCollection, LoopEnds, AttachThrows, Leave
<1>4. CASE LoopContinues \/ CompareSize \/ AttachConditions \/ ResetGuard
  BY <1>4 DEF LoopContinues, CompareSize, AttachConditions, ResetGuard
<1>5. CASE NotifyPrepared \/ RecordSize \/ WaitReturns \/ WaitTimesOut
  BY <1>5 DEF NotifyPrepared, RecordSize, WaitReturns, WaitTimesOut
<1>6. CASE DispatchNext \/ PopFromDelivers \/ PopFromThrows \/ PopFromEmpty
  BY <1>6 DEF DispatchNext, PopFromDelivers, PopFromThrows, PopFromEmpty
<1>7. CASE RoundDone
  BY <1>7 DEF RoundDone
<1>8. ASSUME NEW r \in Readers, ReaderStep(r)
      PROVE  EnterOwesCallback' /\ StopNotUndone'
  <2>1. UNCHANGED <<receiving, rpc, armed, owner, withCallback>>
    BY <1>8 DEF ReaderStep, ResetRemove, ResetAdd, DestroyReader, Pop, Arrive,
                WriterGone
  <2> QED
    BY <2>1
<1>9. CASE UNCHANGED vars
  BY <1>9 DEF vars
<1> QED
  BY <1>1, <1>2, <1>3, <1>4, <1>5, <1>6, <1>7, <1>8, <1>9 DEF Next, ReceptionStep

(* However often the WaitSet is built anew, and whoever resets readers        *)
(* meanwhile, the stop that followed the callback stays in force.             *)
THEOREM StopNotUndoneHolds == Spec => []StopNotUndone
<1>1. Init => EnterOwesCallback /\ StopNotUndone
  BY DEF Init, EnterOwesCallback, StopNotUndone
<1>2. IInv /\ EnterOwesCallback /\ StopNotUndone /\ [Next]_vars
        => EnterOwesCallback' /\ StopNotUndone'
  BY StopNotUndoneStep
<1> QED
  BY <1>1, <1>2, InductiveInvariant, PTL DEF Spec

--------------------------------------------------------------------------------
(* What a call can rely on while no reader is reset.  The WaitSet is then      *)
(* built once: after the callback the recorded size stays the size of the     *)
(* collection, so nothing leads back to the reset of the guard condition.  A  *)
(* reader that is not reset keeps its entry, and every WaitSet is built from  *)
(* the entries.                                                               *)

Prepared == {"record", "loop", "compare", "wait", "dispatch"}

ResetsDisturb == owner # "off" => \A pending \in resets : pending[1] \in disturbed

GuardAttached ==
  /\ waitset # {} => GuardCondition \in waitset
  /\ rpc \in {"resetGuard", "notify", "record", "wait", "dispatch"} => waitset # {}

BuiltOnce ==
  rpc # "idle" /\ callbacks = 1 /\ disturbed = {} =>
    /\ rpc \in Prepared
    /\ GuardCondition \in waitset
    /\ rpc # "record" => lastSize = Size

TriggerSurvives ==
  owner = "stopped" /\ withCallback /\ rpc # "idle" /\ disturbed = {} => guard

NothingAttached ==
  rpc \in {"idle", "enter"} => waitset = {} /\ todo = {} /\ current = None

InUse == (waitset \cup todo \cup {current}) \ {GuardCondition, None}

UsedIsRegistered ==
  \A c \in Accesses : c \in InUse /\ c[1] \notin disturbed => c \in entries

RegisteredIsAttached ==
  waitset # {} =>
    \A a \in entries : a[1] \notin disturbed => a \in waitset

QInv ==
  /\ ResetsDisturb
  /\ GuardAttached
  /\ BuiltOnce
  /\ TriggerSurvives
  /\ NothingAttached
  /\ UsedIsRegistered
  /\ RegisteredIsAttached

LEMMA InitQInv == Init => QInv
  BY DEF Init, QInv, ResetsDisturb, GuardAttached, BuiltOnce, TriggerSurvives,
         NothingAttached, UsedIsRegistered, RegisteredIsAttached, InUse

LEMMA NextQInv ==
  ASSUME IInv, QInv, [Next]_vars
  PROVE  QInv'
<1> USE DEF QInv, ResetsDisturb, GuardAttached, BuiltOnce, TriggerSurvives,
            NothingAttached, UsedIsRegistered, RegisteredIsAttached, InUse,
            Prepared, busVars, loopVars, envVars, ownerVars, readerVars
<1>a. TypeOK /\ CallbackAccounting /\ OwnerAccounting
  BY DEF IInv
<1>b. /\ callbacks \in {0, 1}
      /\ owner \in {"off", "on", "stopping", "stopped"}
      /\ rpc # "idle" => owner # "off"
      /\ armed => callbacks = 0
      /\ withCallback /\ ~armed => callbacks = 1
      /\ ~withCallback => callbacks = 0
      /\ entries \subseteq Accesses
  BY <1>a DEF TypeOK, CallbackAccounting, OwnerAccounting
<1>c. None \notin Accesses /\ GuardCondition \notin Accesses
  BY ReceptionAssumption
<1>1. CASE CreateDataAccessCollection
  BY <1>1, <1>b DEF CreateDataAccessCollection, Size
<1>2. CASE ReleaseDataAccessCollection
  BY <1>2, <1>b DEF ReleaseDataAccessCollection
<1>3. ASSUME NEW cb \in BOOLEAN, CallStart(cb)
      PROVE  QInv'
  BY <1>3, <1>b DEF CallStart
<1>4. CASE StopClearsReceiving
  BY <1>4, <1>b DEF StopClearsReceiving, Size
<1>5. CASE StopTriggersGuard
  BY <1>5, <1>b DEF StopTriggersGuard, Size
<1>6. CASE Join
  BY <1>6, <1>b DEF Join
<1>7. CASE NoCollection \/ LoopEnds \/ AttachThrows
  BY <1>7, <1>b DEF NoCollection, LoopEnds, AttachThrows, Leave
<1>8. CASE Enter
  BY <1>8, <1>b DEF Enter
<1>9. CASE LoopContinues
  BY <1>9, <1>b DEF LoopContinues, Size
<1>10. CASE CompareSize
  BY <1>10, <1>b DEF CompareSize, NeedsRebuild, Size
<1>11. CASE AttachConditions
  <2>1. UsedIsRegistered' /\ RegisteredIsAttached'
    BY <1>11, <1>b, <1>c DEF AttachConditions
  <2>2. ResetsDisturb' /\ GuardAttached' /\ NothingAttached' /\ BuiltOnce'
          /\ TriggerSurvives'
    BY <1>11, <1>b DEF AttachConditions
  <2> QED
    BY <2>1, <2>2
<1>12. CASE ResetGuard
  <2>1. owner = "stopped" /\ disturbed = {} => ~withCallback
    BY <1>12, <1>a DEF ResetGuard, OwnerAccounting
  <2> QED
    BY <1>12, <2>1 DEF ResetGuard
<1>13. CASE NotifyPrepared
  <2>1. disturbed = {} => callbacks # 1
    BY <1>13 DEF NotifyPrepared
  <2>2. owner = "stopped" /\ disturbed = {} => ~withCallback
    BY <2>1, <1>a DEF OwnerAccounting
  <2> QED
    BY <1>13, <2>2 DEF NotifyPrepared
<1>14. CASE RecordSize
  BY <1>14, <1>b DEF RecordSize, Size
<1>15. CASE WaitReturns \/ WaitTimesOut
  BY <1>15, <1>b DEF WaitReturns, WaitTimesOut, TriggeredConditions, Size
<1>16. CASE DispatchNext \/ PopFromDelivers \/ PopFromEmpty
  BY <1>16, <1>b DEF DispatchNext, PopFromDelivers, PopFromEmpty, Size
<1>17. CASE PopFromThrows \/ RoundDone
  BY <1>17, <1>b DEF PopFromThrows, RoundDone, Size
<1>18. ASSUME NEW r \in Readers, NEW receiver \in Receivers \cup {None},
              ResetRemove(r, receiver)
       PROVE  QInv'
  <2>1. CASE owner = "off"
    <3>1. rpc = "idle"
      BY <2>1, <1>b
    <3> QED
      BY <1>18, <2>1, <3>1, <1>c DEF ResetRemove
  <2>2. CASE owner # "off"
    <3>1. disturbed' = disturbed \cup {r}
      BY <1>18, <2>2 DEF ResetRemove
    <3>2. entries' = {a \in entries : a[1] # r}
      BY <1>18 DEF ResetRemove, AccessesOf
    <3>3. UsedIsRegistered' /\ RegisteredIsAttached'
      BY <1>18, <3>1, <3>2 DEF ResetRemove
    <3>4. ResetsDisturb'
      BY <1>18, <3>1 DEF ResetRemove
    <3>5. GuardAttached' /\ NothingAttached' /\ BuiltOnce' /\ TriggerSurvives'
      BY <1>18, <3>1 DEF ResetRemove
    <3> QED
      BY <3>3, <3>4, <3>5
  <2> QED
    BY <2>1, <2>2
<1>19. ASSUME NEW r \in Readers, NEW receiver \in Receivers \cup {None},
              ResetAdd(r, receiver)
       PROVE  QInv'
  <2>1. CASE owner = "off"
    <3>1. rpc = "idle"
      BY <2>1, <1>b
    <3> QED
      BY <1>19, <2>1, <3>1, <1>c DEF ResetAdd
  <2>2. CASE owner # "off"
    <3>1. r \in disturbed /\ disturbed' = disturbed
      BY <1>19, <2>2 DEF ResetAdd
    <3>2. \A a \in entries' : a[1] \notin disturbed => a \in entries
      BY <1>19, <3>1 DEF ResetAdd
    <3>3. entries \subseteq entries'
      BY <1>19 DEF ResetAdd
    <3>4. UsedIsRegistered' /\ RegisteredIsAttached'
      BY <1>19, <3>1, <3>2, <3>3 DEF ResetAdd
    <3>5. ResetsDisturb' /\ GuardAttached' /\ NothingAttached' /\ BuiltOnce'
            /\ TriggerSurvives'
      BY <1>19, <3>1 DEF ResetAdd
    <3> QED
      BY <3>4, <3>5
  <2> QED
    BY <2>1, <2>2
<1>20. ASSUME NEW r \in Readers,
              DestroyReader(r) \/ Pop(r) \/ Arrive(r) \/ WriterGone(r)
       PROVE  QInv'
  BY <1>20, <1>b DEF DestroyReader, Pop, Arrive, WriterGone, Size
<1>21. CASE UNCHANGED vars
  BY <1>21 DEF vars, Size
<1> QED
  BY <1>1, <1>2, <1>3, <1>4, <1>5, <1>6, <1>7, <1>8, <1>9, <1>10, <1>11, <1>12,
     <1>13, <1>14, <1>15, <1>16, <1>17, <1>18, <1>19, <1>20, <1>21
  DEF Next, OwnerStep, ReceptionStep, ReaderStep

LEMMA UndisturbedInvariant == Spec => []QInv
<1>1. IInv /\ QInv /\ [Next]_vars => QInv'
  BY NextQInv
<1> QED
  BY InitQInv, InductiveInvariant, <1>1, PTL DEF Spec

(* The wait that a stop meets after the callback returns at once: the guard   *)
(* condition is attached and its trigger was not erased.                      *)
THEOREM PromptStopHolds == Spec => []PromptStop
<1>1. QInv => PromptStop
  BY DEF QInv, GuardAttached, TriggerSurvives, PromptStop
<1> QED
  BY UndisturbedInvariant, <1>1, PTL

(* However often the other readers are reset, a reader that was not reset     *)
(* since the call of start is attached with its receiver, and no other.       *)
THEOREM UndisturbedAttachedHolds == Spec => []UndisturbedAttached
<1>1. QInv => UndisturbedAttached
  <2> SUFFICES ASSUME QInv, rpc = "wait", NEW a \in Accesses, a[1] \notin disturbed
               PROVE  a \in waitset <=> a \in entries
    BY DEF UndisturbedAttached
  <2>1. waitset # {}
    BY DEF QInv, GuardAttached
  <2>2. a \in entries => a \in waitset
    BY <2>1 DEF QInv, RegisteredIsAttached
  <2>3. a # GuardCondition /\ a # None
    BY ReceptionAssumption
  <2>4. a \in waitset => a \in entries
    BY <2>3 DEF QInv, UsedIsRegistered, InUse
  <2> QED
    BY <2>2, <2>4
<1> QED
  BY UndisturbedInvariant, <1>1, PTL

(* A registered reader that was not reset and holds something unread is among *)
(* what the wait finds triggered.                                             *)
DataWakes ==
  rpc = "wait" =>
    \A r \in unread \ disturbed :
      AccessesOf(r) # {} => AccessesOf(r) \subseteq TriggeredConditions

(* The wait passes over no data of a reader that was not reset: it does not   *)
(* time out while there is some, and all of its readers are in the round that *)
(* follows, however often the others made the loop build its WaitSet anew.    *)
THEOREM DataWakesHolds ==
  Spec => /\ []DataWakes
          /\ [][/\ WaitTimesOut =>
                     \A r \in unread \ disturbed : AccessesOf(r) = {}
                /\ WaitReturns =>
                     \A r \in unread \ disturbed : AccessesOf(r) \subseteq todo']_vars
<1>1. ASSUME IInv, UndisturbedAttached
      PROVE  DataWakes
  <2> SUFFICES ASSUME rpc = "wait", NEW r \in unread \ disturbed, NEW a \in AccessesOf(r)
               PROVE  a \in TriggeredConditions
    BY DEF DataWakes
  <2>1. a \in entries /\ a[1] = r /\ a \in Accesses
    BY <1>1 DEF AccessesOf, IInv, TypeOK
  <2>2. a \in waitset
    BY <1>1, <2>1 DEF UndisturbedAttached
  <2>3. Triggered(a)
    BY <2>1, ReceptionAssumption DEF Triggered
  <2> QED
    BY <2>2, <2>3 DEF TriggeredConditions
<1>2. ASSUME IInv, DataWakes, WaitTimesOut
      PROVE  \A r \in unread \ disturbed : AccessesOf(r) = {}
  BY <1>2 DEF WaitTimesOut, DataWakes
<1>3. ASSUME IInv, DataWakes, WaitReturns
      PROVE  \A r \in unread \ disturbed : AccessesOf(r) \subseteq todo'
  <2> TAKE r \in unread \ disturbed
  <2>1. AccessesOf(r) \subseteq TriggeredConditions
    BY <1>3 DEF WaitReturns, DataWakes
  <2>2. GuardCondition \notin AccessesOf(r)
    BY <1>3, ReceptionAssumption DEF AccessesOf, IInv, TypeOK
  <2> QED
    BY <1>3, <2>1, <2>2 DEF WaitReturns
<1>4. IInv /\ DataWakes =>
        [/\ WaitTimesOut => \A r \in unread \ disturbed : AccessesOf(r) = {}
         /\ WaitReturns => \A r \in unread \ disturbed : AccessesOf(r) \subseteq todo']_vars
  BY <1>2, <1>3
<1>5. IInv /\ UndisturbedAttached => DataWakes
  BY <1>1
<1> QED
  BY <1>4, <1>5, InductiveInvariant, UndisturbedAttachedHolds, PTL DEF Spec

(* What the reception may dispatch refers to a queue that was not destroyed,  *)
(* also when the reader was, as long as the reader is not reset.              *)
THEOREM QueuesInUseAliveHolds == Spec => []QueuesInUseAlive
<1>1. IInv /\ QInv => QueuesInUseAlive
  <2> SUFFICES ASSUME IInv, QInv, NEW c \in InUse, c[1] \notin disturbed
               PROVE  QueueAlive(c[1])
    BY DEF QueuesInUseAlive, InUse
  <2>1. c \in Accesses
    BY DEF IInv, TypeOK, InUse, Conditions
  <2>2. c \in entries
    BY <2>1 DEF QInv, UsedIsRegistered
  <2> QED
    BY <2>2 DEF QueueAlive, AccessesOf
<1> QED
  BY UndisturbedInvariant, InductiveInvariant, <1>1, PTL

--------------------------------------------------------------------------------
(* Refinement of the contract: the steps of the reception thread that neither *)
(* invoke the callback nor return, and all of the resets and of DDS, stutter. *)

LEMMA InitContract == Init => Contract!Init
  BY DEF Init, Contract!Init

LEMMA NextContract ==
  ASSUME IInv, [Next]_vars
  PROVE  [Contract!Next]_(Contract!vars)
<1> USE DEF Contract!vars, busVars, loopVars, envVars, ownerVars, readerVars
<1>a. TypeOK /\ CallbackAccounting /\ OwnerAccounting
  BY DEF IInv
<1>b. /\ callbacks \in {0, 1}
      /\ owner \in {"off", "on", "stopping", "stopped"}
      /\ rpc # "idle" => owner # "off"
      /\ armed => callbacks = 0 /\ withCallback /\ rpc # "idle"
      /\ withCallback /\ ~armed => callbacks = 1
      /\ ~withCallback => callbacks = 0
      /\ armed \in BOOLEAN /\ withCallback \in BOOLEAN
  BY <1>a DEF TypeOK, CallbackAccounting, OwnerAccounting
<1>1. CASE CreateDataAccessCollection \/ ReleaseDataAccessCollection
  BY <1>1 DEF CreateDataAccessCollection, ReleaseDataAccessCollection
<1>2. ASSUME NEW cb \in BOOLEAN, CallStart(cb)
      PROVE  Contract!Begin(cb)
  BY <1>2, <1>b DEF CallStart, Contract!Begin
<1>3. CASE StopClearsReceiving
  <2>1. withCallback => callbacks = 1
    <3>1. withCallback => callbacks > 0
      BY <1>3 DEF StopClearsReceiving
    <3>2. callbacks > 0 => callbacks = 1
      BY <1>b
    <3> QED
      BY <3>1, <3>2
  <2>2. Contract!RequestStop
    BY <1>3, <2>1 DEF StopClearsReceiving, Contract!RequestStop
  <2> QED
    BY <2>2 DEF Contract!Next
<1>4. CASE StopTriggersGuard
  BY <1>4 DEF StopTriggersGuard
<1>5. CASE Join
  <2>1. Contract!Joined
    BY <1>5 DEF Join, Contract!Joined
  <2> QED
    BY <2>1 DEF Contract!Next
<1>6. CASE NoCollection \/ LoopEnds \/ AttachThrows
  <2>1. Leave /\ rpc # "idle" /\ UNCHANGED <<owner, withCallback>>
    BY <1>6 DEF NoCollection, LoopEnds, AttachThrows
  <2>2. /\ withCallback => callbacks' = 1
        /\ ~withCallback => callbacks' = 0
    BY <2>1, <1>a, FireCallbackPays DEF Leave
  <2>3. callbacks' = IF withCallback THEN 1 ELSE 0
    BY <2>2
  <2>4. Contract!End
    BY <2>1, <2>3 DEF Leave, Contract!End
  <2> QED
    BY <2>4 DEF Contract!Next
<1>7. CASE NotifyPrepared /\ armed
  <2>1. callbacks' = 1
    BY <1>7, <1>a, <1>b, FireCallbackPays DEF NotifyPrepared
  <2>2. Contract!Announce
    BY <1>7, <1>b, <2>1 DEF NotifyPrepared, Contract!Announce
  <2> QED
    BY <2>2 DEF Contract!Next
<1>8. CASE NotifyPrepared /\ ~armed
  <2>1. callbacks' = callbacks
    BY <1>8 DEF NotifyPrepared, FireCallback
  <2> QED
    BY <1>8, <2>1 DEF NotifyPrepared
<1>9. CASE Enter \/ LoopContinues \/ CompareSize
  BY <1>9 DEF Enter, LoopContinues, CompareSize
<1>10. CASE AttachConditions \/ ResetGuard \/ RecordSize
  BY <1>10 DEF AttachConditions, ResetGuard, RecordSize
<1>11. CASE WaitReturns \/ WaitTimesOut \/ DispatchNext
  BY <1>11 DEF WaitReturns, WaitTimesOut, DispatchNext
<1>12. CASE PopFromDelivers \/ PopFromThrows \/ PopFromEmpty \/ RoundDone
  BY <1>12 DEF PopFromDelivers, PopFromThrows, PopFromEmpty, RoundDone
<1>13. ASSUME NEW r \in Readers, ReaderStep(r)
       PROVE  UNCHANGED Contract!vars
  BY <1>13 DEF ReaderStep, ResetRemove, ResetAdd, DestroyReader, Pop, Arrive,
               WriterGone
<1>14. CASE UNCHANGED vars
  BY <1>14 DEF vars
<1> QED
  BY <1>1, <1>2, <1>3, <1>4, <1>5, <1>6, <1>7, <1>8, <1>9, <1>10, <1>11, <1>12,
     <1>13, <1>14
  DEF Next, OwnerStep, ReceptionStep, Contract!Next

(* Exactly once, before the call returns, also when an exception unwinds it.  *)
THEOREM ContractRefinement == Spec => ImplementsContract
<1>1. IInv /\ [Next]_vars => [Contract!Next]_(Contract!vars)
  BY NextContract
<1> QED
  BY InitContract, InductiveInvariant, <1>1, PTL
  DEF Spec, ImplementsContract, Contract!Spec

================================================================================
