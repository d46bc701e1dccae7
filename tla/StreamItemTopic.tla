---------------------------- MODULE StreamItemTopic ----------------------------
(***************************************************************************)
(* StreamItemTopic after its construction: updateStreamType, which the     *)
(* threads that write stream types and the receptions that take them call  *)
(* at the same time and without a lock, and the choice of the QoS profile. *)
(*                                                                         *)
(* A size is a property of a stream type, a text: absent, no number, or    *)
(* the number it shows, of any size.  The int of the machine has the       *)
(* largest value IntMax.                                                   *)
(***************************************************************************)
EXTENDS Integers

CONSTANTS
  Threads,          \* threads that call updateStreamType
  StreamTypes,      \* stream types, records [meta, maxByteSize, maxArraySize]
  MetaTypes,        \* names of meta types, with
  PlainArray,       \* meta_type_plain_array
  Absent,           \* a property that is not set
  NoNumber,         \* a text std::stoi throws at
  IntMax,           \* the largest int
  MaxMessageSize,   \* FEP3_TRANSPORT_LAYER_MAX_MESSAGE_SIZE
  DefaultProfile    \* FEP3_DEFAULT_QOS_PROFILE

Size == Int \cup {Absent, NoNumber}

ASSUME TopicAssumption ==
  /\ Absent \notin Int
  /\ NoNumber \notin Int
  /\ StreamTypes \subseteq [meta : MetaTypes, maxByteSize : Size, maxArraySize : Size]
  /\ IntMax \in Nat
  /\ MaxMessageSize \in 0..IntMax

VARIABLES
  streamType,   \* _stream_type
  qosProfile,   \* _qos_profile
  pc,           \* pc[t]: where thread t is in updateStreamType
  arg,          \* arg[t]: the stream type it was called with
  big,          \* big[t]: what isBigStreamType answered
  found         \* found[t]: the local qos_profile

locals == <<pc, arg, big, found>>
vars == <<streamType, qosProfile, locals>>

--------------------------------------------------------------------------------
(* Sizes *)

MachineInt == -(IntMax + 1)..IntMax

(* std::stoi throws invalid_argument or out_of_range. *)
StoiThrows(size) == size \notin MachineInt

Wrapped(n) == ((n + IntMax + 1) % (2 * (IntMax + 1))) - (IntMax + 1)

(* stoi(max_array_size) * 8, in int.  Overflow is undefined: the build wraps, *)
(* or compares as if there were no limit.                                     *)
TimesEight(n) == IF 8 * n \in MachineInt THEN {8 * n} ELSE {8 * n, Wrapped(8 * n)}

BigByByteSize(x) == x.maxByteSize \in MachineInt /\ x.maxByteSize >= MaxMessageSize

(* The array size is looked at only after the byte size did not decide.       *)
LooksAtArraySize(x) ==
  ~BigByByteSize(x) /\ x.meta = PlainArray /\ x.maxArraySize # Absent

Throws(x) ==
  \/ x.maxByteSize # Absent /\ StoiThrows(x.maxByteSize)
  \/ LooksAtArraySize(x) /\ StoiThrows(x.maxArraySize)

(* mutant: the limit itself still counts as small *)
MutIsBigStreamType(x) ==
  IF LooksAtArraySize(x)
  THEN {bytes > MaxMessageSize : bytes \in TimesEight(x.maxArraySize)}
  ELSE {BigByByteSize(x)}

(* What isBigStreamType may answer when it does not throw. *)
IsBigStreamType(x) ==
  IF LooksAtArraySize(x)
  THEN {bytes >= MaxMessageSize : bytes \in TimesEight(x.maxArraySize)}
  ELSE {BigByByteSize(x)}

--------------------------------------------------------------------------------
(* The profile *)

(* mutant: the profiles of USER_QOS_PROFILES.xml are read, and all are there *)
MutContainsProfile(profile) == TRUE

(* "TODO not implemented, can't read from file" *)
ContainsProfile(profile) == FALSE

Profile(meta, isBig) == [meta |-> meta, big |-> isBig]

QosProfile == [meta : MetaTypes, big : BOOLEAN] \cup {DefaultProfile}

FindQosProfile(x, isBig) ==
  IF isBig /\ ContainsProfile(Profile(x.meta, TRUE)) THEN Profile(x.meta, TRUE)
  ELSE IF ContainsProfile(Profile(x.meta, FALSE)) THEN Profile(x.meta, FALSE)
  ELSE DefaultProfile

--------------------------------------------------------------------------------
(* updateStreamType *)

(* mutant: the new stream type is stored before its sizes are read *)
MutCallUpdate(t, x) ==
  /\ pc[t] = "idle"
  /\ x # streamType
  /\ pc' = [pc EXCEPT ![t] = "find"]
  /\ arg' = [arg EXCEPT ![t] = x]
  /\ streamType' = x
  /\ UNCHANGED <<qosProfile, big, found>>

(* A stream type like the one of the topic, which never changes, is no news. *)
CallUpdate(t, x) ==
  /\ pc[t] = "idle"
  /\ x # streamType
  /\ pc' = [pc EXCEPT ![t] = "find"]
  /\ arg' = [arg EXCEPT ![t] = x]
  /\ UNCHANGED <<streamType, qosProfile, big, found>>

(* The end of a call: its locals are gone. *)
Return(t) ==
  /\ pc' = [pc EXCEPT ![t] = "idle"]
  /\ arg' = [arg EXCEPT ![t] = streamType]
  /\ big' = [big EXCEPT ![t] = FALSE]
  /\ found' = [found EXCEPT ![t] = DefaultProfile]

(* stoi throws through findQosProfile and updateStreamType to the caller. *)
UpdateThrows(t) ==
  /\ pc[t] = "find"
  /\ Throws(arg[t])
  /\ Return(t)
  /\ UNCHANGED <<streamType, qosProfile>>

Find(t) ==
  /\ pc[t] = "find"
  /\ ~Throws(arg[t])
  /\ \E isBig \in IsBigStreamType(arg[t]) :
       /\ big' = [big EXCEPT ![t] = isBig]
       /\ found' = [found EXCEPT ![t] = FindQosProfile(arg[t], isBig)]
  /\ pc' = [pc EXCEPT ![t] = "compare"]
  /\ UNCHANGED <<streamType, qosProfile, arg>>

(* The answer: whether the caller has to recreate its DDS reader or writer.   *)
Answer(t) == found[t] # qosProfile

UpdateReturns(t) ==
  /\ pc[t] = "compare"
  /\ qosProfile' = IF Answer(t) THEN found[t] ELSE qosProfile
  /\ Return(t)
  /\ UNCHANGED streamType

--------------------------------------------------------------------------------

(* The constructor; where stoi throws there is no topic. *)
Init ==
  /\ streamType \in {x \in StreamTypes : ~Throws(x)}
  /\ \E isBig \in IsBigStreamType(streamType) :
       qosProfile = FindQosProfile(streamType, isBig)
  /\ pc = [t \in Threads |-> "idle"]
  /\ arg = [t \in Threads |-> streamType]
  /\ big = [t \in Threads |-> FALSE]
  /\ found = [t \in Threads |-> DefaultProfile]

Next ==
  \E t \in Threads :
    \/ \E x \in StreamTypes : CallUpdate(t, x)
    \/ UpdateThrows(t)
    \/ Find(t)
    \/ UpdateReturns(t)

Spec == Init /\ [][Next]_vars

--------------------------------------------------------------------------------
(* Properties *)

(* Every variable keeps its type. *)
TypeOK ==
  /\ streamType \in StreamTypes
  /\ ~Throws(streamType)
  /\ pc \in [Threads -> {"idle", "find", "compare"}]
  /\ arg \in [Threads -> StreamTypes]
  /\ big \in [Threads -> BOOLEAN]
  /\ qosProfile \in QosProfile
  /\ found \in [Threads -> QosProfile]

(* The size of a sample the properties allow, "8 Bytes for the biggest plain  *)
(* type", reaches what the transport layer sends in one message.              *)
NeedsFragmentation(x) ==
  \/ x.maxByteSize \in Int /\ x.maxByteSize >= MaxMessageSize
  \/ x.meta = PlainArray /\ x.maxArraySize \in Int /\ 8 * x.maxArraySize >= MaxMessageSize

Overflows(x) == LooksAtArraySize(x) /\ 8 * x.maxArraySize \notin MachineInt

(* isBigStreamType decides by the sizes, the limits included, and decides     *)
(* nothing from sizes it cannot read; only a product that does not fit into   *)
(* an int may make it answer wrong.                                           *)
SizeDecided ==
  \A t \in Threads :
    pc[t] = "compare" /\ ~Overflows(arg[t])
      => (big[t] <=> NeedsFragmentation(arg[t]))

(* Whatever stream types the threads bring at the same time, the answer is    *)
(* never that a reader or writer must be recreated, and _qos_profile is only  *)
(* read: nobody loses a DDS reader or writer another thread is using, and the *)
(* missing lock does no harm.                                                 *)
NeverRecreated ==
  [][/\ qosProfile' = qosProfile
     /\ \A t \in Threads : pc[t] = "compare" /\ pc'[t] = "idle" => ~Answer(t)]_vars

================================================================================
