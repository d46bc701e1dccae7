--------------------------- MODULE StreamItemWriter ----------------------------
(***************************************************************************)
(* StreamItemDataWriter: two DDS writers that hold back what is written to *)
(* them, and transmit, which flushes both.  The DDS writers have locks of  *)
(* their own, the stream item writer has none: if several threads use it,  *)
(* writes and other calls of transmit come between the two flushes of one. *)
(*                                                                         *)
(* Samples and stream types are numbered in the order of writing.  A write *)
(* that fails (the sample cannot be read, DDS throws) answers an error and *)
(* leaves everything as it was; so does a flush of the stream types.  The  *)
(* sample writer is never recreated: updateStreamType answers false.       *)
(***************************************************************************)
EXTENDS Naturals, Sequences

CONSTANTS
  MaxWritten,     \* bound: samples written in all
  MaxAnnounced,   \* bound: stream types written in all
  MaxTransmits    \* bound: calls of transmit that overlap

ASSUME WriterAssumption ==
  /\ MaxWritten \in Nat
  /\ MaxAnnounced \in Nat \ {0}
  /\ MaxTransmits \in Nat

VARIABLES
  users,         \* how many threads use the writer, "one" or "several"
  written,       \* samples written so far
  announced,     \* stream types written so far
  under,         \* under[s]: the stream type written last before sample s
  sampleBatch,   \* written to _sample_writer and not flushed
  typeBatch,     \* written to _stream_type_writer and not flushed
  flushing,      \* calls of transmit that stand between their two flushes
  transmitted,   \* samples for which transmit answered success
  wire           \* flushed and on their way

writerVars == <<users, written, announced, under, sampleBatch, typeBatch, flushing,
                transmitted>>

SampleMsg(s) == [kind |-> "sample", id |-> s]
TypeMsg(t) == [kind |-> "type", id |-> t]
Message == {SampleMsg(s) : s \in 1..written} \cup {TypeMsg(t) : t \in 1..announced}

(* A thread may call: the only one that uses the writer is not in transmit. *)
MayCall == flushing = 0 \/ users = "several"

WriteSample ==
  /\ MayCall
  /\ written < MaxWritten
  /\ written' = written + 1
  /\ under' = Append(under, announced)
  /\ sampleBatch' = Append(sampleBatch, SampleMsg(written + 1))
  /\ UNCHANGED <<users, announced, typeBatch, flushing, transmitted, wire>>

(* mutant: the batch is a stack *)
MutWriteInFront ==
  /\ MayCall
  /\ announced < MaxAnnounced
  /\ announced' = announced + 1
  /\ typeBatch' = <<TypeMsg(announced + 1)>> \o typeBatch
  /\ UNCHANGED <<users, written, under, sampleBatch, flushing, transmitted, wire>>

(* The stream type goes to the DDS writer first; what updateStreamType does   *)
(* with it afterwards, throwing included, leaves the writer as it is.         *)
WriteStreamType ==
  /\ MayCall
  /\ announced < MaxAnnounced
  /\ announced' = announced + 1
  /\ typeBatch' = Append(typeBatch, TypeMsg(announced + 1))
  /\ UNCHANGED <<users, written, under, sampleBatch, flushing, transmitted, wire>>

(* mutant: the samples are flushed, the stream types are not *)
MutFlushSamplesFirst ==
  /\ MayCall
  /\ flushing < MaxTransmits
  /\ wire' = wire \o sampleBatch
  /\ sampleBatch' = <<>>
  /\ flushing' = flushing + 1
  /\ UNCHANGED <<users, written, announced, under, typeBatch, transmitted>>

(* transmit: the flush of the stream types *)
TransmitTypes ==
  /\ MayCall
  /\ flushing < MaxTransmits
  /\ wire' = wire \o typeBatch
  /\ typeBatch' = <<>>
  /\ flushing' = flushing + 1
  /\ UNCHANGED <<users, written, announced, under, sampleBatch, transmitted>>

(* mutant: the stream types are flushed twice, the samples not at all *)
MutFlushTypesOnly ==
  /\ flushing > 0
  /\ wire' = wire \o typeBatch
  /\ typeBatch' = <<>>
  /\ transmitted' = written
  /\ flushing' = flushing - 1
  /\ UNCHANGED <<users, written, announced, under, sampleBatch>>

(* mutant: what was flushed stays *)
MutSamplesStay ==
  /\ flushing > 0
  /\ wire' = wire \o sampleBatch
  /\ transmitted' = written
  /\ flushing' = flushing - 1
  /\ UNCHANGED <<users, written, announced, under, sampleBatch, typeBatch>>

(* transmit: the flush of the samples, and success *)
TransmitSamples ==
  /\ flushing > 0
  /\ wire' = wire \o sampleBatch
  /\ sampleBatch' = <<>>
  /\ transmitted' = written
  /\ flushing' = flushing - 1
  /\ UNCHANGED <<users, written, announced, under, typeBatch>>

(* The second flush throws: the stream types are out, the samples are not. *)
TransmitFails ==
  /\ flushing > 0
  /\ flushing' = flushing - 1
  /\ UNCHANGED <<users, written, announced, under, sampleBatch, typeBatch,
                 transmitted, wire>>

(* The writer as getWriter hands it out: createDataWriter wrote the stream    *)
(* type of the topic and did not flush it.  It does not look at the result of *)
(* the write, so that the stream type may be missing.                         *)
WriterInit ==
  /\ users \in {"one", "several"}
  /\ written = 0
  /\ announced = 1
  /\ under = <<>>
  /\ sampleBatch = <<>>
  /\ typeBatch \in {<<TypeMsg(1)>>, <<>>}
  /\ flushing = 0
  /\ transmitted = 0
  /\ wire = <<>>

WriterStep ==
  \/ WriteSample
  \/ WriteStreamType
  \/ TransmitTypes
  \/ TransmitSamples
  \/ TransmitFails

================================================================================
