--------------------------- MODULE StreamItemChannel ---------------------------
(***************************************************************************)
(* A StreamItemDataWriter, the network and the queue of one reader whose   *)
(* receiver the reception thread serves: from write to the receiver.       *)
(*                                                                         *)
(* The readers are best effort, so that whatever is on its way may be      *)
(* lost; what arrives from one DDS writer arrives in its order.  Between   *)
(* the two DDS writers of a stream item writer DDS promises no order, and  *)
(* it may send a batch before it is flushed.  Both kinds of network are    *)
(* modelled: "ordered", which keeps the order across the writers and sends *)
(* what is flushed only, under a writer that one thread uses, and "any",   *)
(* which does what the other does and more, under a writer that several    *)
(* threads use.                                                            *)
(***************************************************************************)
EXTENDS StreamItemWriter, Converter, FiniteSets, SequencesExt

CONSTANTS
  Reception,   \* the reception thread
  Depth,       \* history depth of the sample reader
  Time,        \* Time[s]: the time of sample s, in nanoseconds
  MaxLost      \* bound: messages the network loses

ASSUME ChannelAssumption ==
  /\ Depth \in Nat \ {0}
  /\ Time \in [1..MaxWritten -> Int]

VARIABLES
  network,      \* "ordered" or "any"
  lost,         \* lost by the first write, on the way, or by a receiver that threw
  origin,       \* origin[i]: the number of the sample that arrived as i-th
  typeOrigin,   \* the same for stream types
  \* ---- ReaderItemQueue ----
  arrived, cache, read, alive, typesArrived, typeCache,
  pc, looping, batch, typeTaken, readSomething,
  delivered, heard, overwritten, dropped, counted

Q == INSTANCE ReaderItemQueue WITH
       Threads <- {Reception}, MaxSamples <- MaxWritten, MaxTypes <- MaxAnnounced,
       Observed <- FALSE, WriterLeaves <- FALSE

netVars == <<network, lost, origin, typeOrigin>>
queueVars == <<arrived, cache, read, alive, typesArrived, typeCache, pc, looping,
               batch, typeTaken, readSomething, delivered, heard, overwritten,
               dropped, counted>>
vars == <<writerVars, wire, netVars, queueVars>>

--------------------------------------------------------------------------------
(* The network *)

(* The k-th message on the wire overtakes none that it must not overtake. *)
InTurn(k) ==
  \A j \in 1..(k - 1) : network = "any" /\ wire[j].kind # wire[k].kind

Arrive ==
  \E k \in DOMAIN wire :
    /\ InTurn(k)
    /\ wire' = RemoveAt(wire, k)
    /\ \/ /\ wire[k].kind = "sample"
          /\ Q!StoreSample
          /\ origin' = Append(origin, wire[k].id)
          /\ UNCHANGED typeOrigin
       \/ /\ wire[k].kind = "type"
          /\ Q!StoreStreamType
          /\ typeOrigin' = Append(typeOrigin, wire[k].id)
          /\ UNCHANGED origin
    /\ UNCHANGED <<writerVars, network, lost>>

Lose ==
  /\ Cardinality(lost) < MaxLost
  /\ \E k \in DOMAIN wire :
       /\ wire' = RemoveAt(wire, k)
       /\ lost' = lost \cup {wire[k]}
  /\ UNCHANGED <<writerVars, network, origin, typeOrigin, queueVars>>

(* DDS sends a batch on its own, when it is full or the reader is local. *)
SendEarly ==
  /\ network = "any"
  /\ \/ /\ wire' = wire \o sampleBatch
        /\ sampleBatch' = <<>>
        /\ UNCHANGED typeBatch
     \/ /\ wire' = wire \o typeBatch
        /\ typeBatch' = <<>>
        /\ UNCHANGED sampleBatch
  /\ UNCHANGED <<users, written, announced, under, flushing, transmitted, netVars, queueVars>>

--------------------------------------------------------------------------------
(* The composition *)

Write == WriterStep /\ UNCHANGED <<netVars, queueVars>>

Dispatch ==
  /\ Q!Dispatch(Reception)
  /\ UNCHANGED <<writerVars, wire, netVars>>

PopFromStep ==
  /\ Q!PopFromStep(Reception)
  /\ LET t == typeTaken[Reception]
     IN  lost' = IF t # 0 /\ typeTaken'[Reception] = 0 /\ UNCHANGED heard
                 THEN lost \cup {TypeMsg(typeOrigin[t])}
                 ELSE lost
  /\ UNCHANGED <<writerVars, wire, network, origin, typeOrigin>>

Init ==
  /\ WriterInit
  /\ Q!Init
  /\ network = IF users = "one" THEN "ordered" ELSE "any"
  /\ lost = IF typeBatch = <<>> THEN {TypeMsg(1)} ELSE {}
  /\ origin = <<>>
  /\ typeOrigin = <<>>

Next == Write \/ Arrive \/ Lose \/ SendEarly \/ Dispatch \/ PopFromStep

(* The network brings or loses what it was given, and the reception thread    *)
(* waits on the condition and goes on with popFrom.  Nobody has to write or   *)
(* to transmit.                                                               *)
Fairness == WF_vars(Arrive) /\ WF_vars(Dispatch) /\ WF_vars(PopFromStep)

Spec == Init /\ [][Next]_vars /\ Fairness

--------------------------------------------------------------------------------
(* Properties *)

(* Every variable keeps its type; what is held back or on its way is so once. *)
TypeOK ==
  /\ flushing \in 0..MaxTransmits
  /\ transmitted \in 0..written
  /\ under \in [1..written -> 1..announced]
  /\ LET pending == sampleBatch \o typeBatch \o wire
     IN  ToSet(pending) \subseteq Message /\ IsInjective(pending)
  /\ network \in {"ordered", "any"}
  /\ lost \subseteq Message
  /\ origin \in [1..arrived -> 1..written]
  /\ typeOrigin \in [1..typesArrived -> 1..announced]
  /\ Q!TypeOK

LastSample ==
  LET got == delivered[Reception]
  IN  IF got = {} THEN 0 ELSE origin[CHOOSE i \in got : \A j \in got : j <= i]

SampleChannel == INSTANCE LossyChannel WITH First <- 0, sent <- written, got <- LastSample

(* From write to the receiver, on any network, with exceptions of the         *)
(* receiver and transmits that fail half way: the samples come in the order   *)
(* of writing, none twice, though some may be missing.                        *)
ImplementsSampleChannel == SampleChannel!Spec

LastType == IF heard[Reception] = 0 THEN 0 ELSE typeOrigin[heard[Reception]]

TypeChannel == INSTANCE LossyChannel WITH First <- 1, sent <- announced, got <- LastType

(* The same for the stream types, of which the first is written before the    *)
(* writer is handed out.                                                      *)
ImplementsTypeChannel == TypeChannel!Spec

(* transmit flushes the stream types first, popFrom hands them out last: on   *)
(* an ordered network a receiver that was given a sample knows its stream     *)
(* type, or a newer one, by the time popFrom returns, unless that was lost.   *)
Known(t) == t <= LastType \/ \E u \in t..announced : TypeMsg(u) \in lost

TypeKnownOnReturn ==
  [][network = "ordered" /\ Q!PopFromReturns(Reception)
       => \A i \in delivered[Reception] : Known(under[origin[i]])]_vars

(* The time createSample gives to the sample that arrived as i-th. *)
SampleTime(i) == FromDds(ToDds(Time[origin[i]]))

(* What the receiver is given has the time it was written with, unless the    *)
(* seconds do not fit into the time stamp.                                    *)
TimesKept ==
  \A i \in delivered[Reception] :
    Representable(Time[origin[i]]) => SampleTime(i) = Time[origin[i]]

(* Where a sample is: held back by the writer, on its way, lost, or arrived   *)
(* at the reader, whose queue accounts for it from then on.                   *)
Places == {"batch", "wire", "lost", "reader"}

IsAt(s, place) ==
  \/ place = "batch" /\ Contains(sampleBatch, SampleMsg(s))
  \/ place = "wire" /\ Contains(wire, SampleMsg(s))
  \/ place = "lost" /\ SampleMsg(s) \in lost
  \/ place = "reader" /\ \E i \in 1..arrived : origin[i] = s

(* Every sample that was written is in one place and in no other, and one for *)
(* which transmit answered success is not held back any more.                 *)
InOnePlace ==
  \A s \in 1..written :
    /\ \E place \in Places : \A other \in Places : IsAt(s, other) <=> other = place
    /\ s <= transmitted => ~IsAt(s, "batch")

(* The cache for stream types keeps one, and popFrom takes one per call, with *)
(* or without samples: older types may be passed over, but the newest that    *)
(* arrived is in the cache, in the hands of popFrom or known to the receiver, *)
(* unless that one threw at it.                                               *)
NewestTypeKept ==
  typesArrived # 0 =>
    \/ typesArrived \in {typeCache, typeTaken[Reception], heard[Reception]}
    \/ TypeMsg(typeOrigin[typesArrived]) \in lost

(* A stream type that reached the reader does not wait behind the samples:    *)
(* once a sample is in the cache too it is taken and handed out, though it    *)
(* does not trigger the condition itself; only a receiver that throws at the  *)
(* samples leaves it waiting for the next one.                                *)
TypeFollowsSample ==
  (typeCache # 0 /\ cache # {}) ~> (typeCache = 0 \/ dropped # {})

(* A sample for which transmit answered success does not get stuck: it is     *)
(* handed to the receiver, lost on the network, pushed out by a newer one or  *)
(* gone with a receiver that threw.  What is settled stays so: again and      *)
(* again there is a moment when all are.                                      *)
Settled(s) ==
  \/ SampleMsg(s) \in lost
  \/ \E i \in 1..arrived :
       origin[i] = s /\ i \in delivered[Reception] \cup overwritten \cup dropped

TransmittedIsSettled == []<>(\A s \in 1..transmitted : Settled(s))

================================================================================
