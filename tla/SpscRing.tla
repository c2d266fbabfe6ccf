------------------------------ MODULE SpscRing -------------------------------
(***************************************************************************)
(* The single-producer single-consumer ring between the decoder thread and *)
(* the audio callback: SpscPcmRing (audio/graph/spsc_ring.hpp), and, with  *)
(* PushAcquires = FALSE, RingBuffer (audio/graph/ring_buffer.hpp), whose   *)
(* push() has no acquire load of the read index.                           *)
(*                                                                         *)
(* Every access to an atomic, and the copy of every frame, is a step.  A   *)
(* frame is known by its position in the stream, so slots holds positions. *)
(* The indices only grow; they are size_t in the code and never reach      *)
(* 2^64 frames.                                                            *)
(*                                                                         *)
(* A thread that loads the other thread's index may get any value stored   *)
(* since the last one it got (C++ coherence orders the loads of one        *)
(* atomic, and promises no more): seenWrite and seenRead are the values    *)
(* the consumer and the producer may still get.  acquired is the largest   *)
(* read index the producer has loaded with memory_order_acquire: the       *)
(* consumer's copies of the frames below it happened before whatever the   *)
(* producer does next.                                                     *)
(***************************************************************************)
EXTENDS Integers, Sequences

CONSTANTS
    Capacity,      \* capacity_ (Frames in RingBuffer)
    MaxRequest,    \* the most frames a caller offers or asks for in one call
    MaxFrames,     \* bound: no push begins at or beyond this write index
    PushAcquires   \* does push() load read_index_ with acquire before copying?

ASSUME CapacityAssumption == Capacity \in Nat \ {0}
ASSUME MaxRequestAssumption == MaxRequest \in Nat
ASSUME MaxFramesAssumption == MaxFrames \in Nat
ASSUME PushAcquiresAssumption == PushAcquires \in BOOLEAN

VARIABLES
    slots,                 \* samples_: slot -> position of the frame it holds
    writeIndex, readIndex, \* write_index_, read_index_
    seenWrite,             \* write indices the consumer's next load may return
    seenRead,              \* read indices the producer's next load may return
    acquired,              \* read index that synchronises with the producer
    ppc, offered, pushing, copied,    \* push(): pc, source.frames, count, frame
    cpc, wanted, popping, received    \* pop(): pc, destination.frames, count,
                                      \* and the frames copied so far

ringVars == <<slots, writeIndex, readIndex, seenWrite, seenRead, acquired>>
pushVars == <<ppc, offered, pushing, copied>>
popVars  == <<cpc, wanted, popping, received>>
vars     == <<ringVars, pushVars, popVars>>

Silence == -1
Slot    == 0 .. Capacity - 1

Init ==
    /\ slots = [s \in Slot |-> Silence]
    /\ writeIndex = 0 /\ readIndex = 0
    /\ seenWrite = {0} /\ seenRead = {0} /\ acquired = 0
    /\ ppc = "idle" /\ offered = 0 /\ pushing = 0 /\ copied = 0
    /\ cpc = "idle" /\ wanted = 0 /\ popping = 0 /\ received = <<>>

(***************************************************************************)
(* Loads.  available_read() loads the write index, then the read index;    *)
(* the index a thread owns is always current.                              *)
(***************************************************************************)
AvailableWriteOneMore(read)  == Capacity + 1 - (writeIndex - read)
AvailableWrite(read) == Capacity - (writeIndex - read)
AvailableRead(write) == write - readIndex

NotOlder(values, v) == {x \in values : x >= v}

ProducerLoads(read) ==
    /\ read \in seenRead
    /\ seenRead' = NotOlder(seenRead, read)

ConsumerLoads(write) ==
    /\ write \in seenWrite
    /\ seenWrite' = NotOlder(seenWrite, write)

(***************************************************************************)
(* push(source), on the producer thread.  The count is                     *)
(*    source.frames < available_write() ? source.frames : available_write()*)
(* and so asks for the room twice when the source does not fit.            *)
(***************************************************************************)
PushBegin(n) ==
    /\ ppc = "idle"
    /\ writeIndex < MaxFrames
    /\ ppc' = "compare" /\ offered' = n
    /\ UNCHANGED <<ringVars, popVars, pushing, copied>>

(* A source that fits is copied whole ...                                  *)
PushFits ==
    /\ ppc = "compare"
    /\ \E read \in seenRead :
          /\ ProducerLoads(read)
          /\ offered < AvailableWrite(read)
    /\ pushing' = offered
    /\ ppc' = "acquire"
    /\ UNCHANGED <<slots, writeIndex, readIndex, seenWrite, acquired, popVars,
                   offered, copied>>

(* ... and for one that does not, the room is asked for again.             *)
PushDoesNotFit ==
    /\ ppc = "compare"
    /\ \E read \in seenRead :
          /\ ProducerLoads(read)
          /\ offered >= AvailableWrite(read)
    /\ ppc' = "clip"
    /\ UNCHANGED <<slots, writeIndex, readIndex, seenWrite, acquired, popVars,
                   offered, pushing, copied>>

PushClip ==
    /\ ppc = "clip"
    /\ \E read \in seenRead :
          /\ ProducerLoads(read)
          /\ pushing' = AvailableWrite(read)
    /\ ppc' = "acquire"
    /\ UNCHANGED <<slots, writeIndex, readIndex, seenWrite, acquired, popVars,
                   offered, copied>>

(* The acquire load of read_index_, whose value the code discards: it only *)
(* orders the copy below after the consumer's copies.                      *)
PushAcquireDropped ==
    /\ ppc = "acquire"
    /\ UNCHANGED <<seenRead, acquired>>
    /\ ppc' = "copy" /\ copied' = 0
    /\ UNCHANGED <<slots, writeIndex, readIndex, seenWrite, popVars,
                   offered, pushing>>

PushAcquire ==
    /\ ppc = "acquire"
    /\ IF PushAcquires
       THEN \E read \in seenRead :
              /\ ProducerLoads(read)
              /\ acquired' = read
       ELSE UNCHANGED <<seenRead, acquired>>
    /\ ppc' = "copy" /\ copied' = 0
    /\ UNCHANGED <<slots, writeIndex, readIndex, seenWrite, popVars,
                   offered, pushing>>

PushCopy ==
    /\ ppc = "copy"
    /\ copied < pushing
    /\ slots' = [slots EXCEPT ![(writeIndex + copied) % Capacity] =
                                 writeIndex + copied]
    /\ copied' = copied + 1
    /\ UNCHANGED <<writeIndex, readIndex, seenWrite, seenRead, acquired,
                   popVars, ppc, offered, pushing>>

PushPublishBeforeCopy ==
    /\ ppc = "copy"
    /\ writeIndex' = writeIndex + pushing
    /\ seenWrite' = seenWrite \cup {writeIndex'}
    /\ ppc' = "idle"
    /\ UNCHANGED <<slots, readIndex, seenRead, acquired, popVars,
                   offered, pushing, copied>>

PushPublish ==
    /\ ppc = "copy"
    /\ copied = pushing
    /\ writeIndex' = writeIndex + pushing
    /\ seenWrite' = seenWrite \cup {writeIndex'}
    /\ ppc' = "idle"
    /\ UNCHANGED <<slots, readIndex, seenRead, acquired, popVars,
                   offered, pushing, copied>>

PushStep == \/ PushFits \/ PushDoesNotFit \/ PushClip
            \/ PushAcquire \/ PushCopy \/ PushPublish

(***************************************************************************)
(* pop(destination), on the consumer thread, the mirror image; its loads   *)
(* of write_index_ are all acquires.                                       *)
(***************************************************************************)
PopBegin(n) ==
    /\ cpc = "idle"
    /\ cpc' = "compare" /\ wanted' = n
    /\ UNCHANGED <<ringVars, pushVars, popping, received>>

PopFits ==
    /\ cpc = "compare"
    /\ \E write \in seenWrite :
          /\ ConsumerLoads(write)
          /\ wanted < AvailableRead(write)
    /\ popping' = wanted
    /\ cpc' = "copy" /\ received' = <<>>
    /\ UNCHANGED <<slots, writeIndex, readIndex, seenRead, acquired, pushVars,
                   wanted>>

PopDoesNotFit ==
    /\ cpc = "compare"
    /\ \E write \in seenWrite :
          /\ ConsumerLoads(write)
          /\ wanted >= AvailableRead(write)
    /\ cpc' = "clip"
    /\ UNCHANGED <<slots, writeIndex, readIndex, seenRead, acquired, pushVars,
                   wanted, popping, received>>

PopClip ==
    /\ cpc = "clip"
    /\ \E write \in seenWrite :
          /\ ConsumerLoads(write)
          /\ popping' = AvailableRead(write)
    /\ cpc' = "copy" /\ received' = <<>>
    /\ UNCHANGED <<slots, writeIndex, readIndex, seenRead, acquired, pushVars,
                   wanted>>

PopCopySameSlot ==
    /\ cpc = "copy"
    /\ Len(received) < popping
    /\ received' = Append(received, slots[readIndex % Capacity])
    /\ UNCHANGED <<ringVars, pushVars, cpc, wanted, popping>>

PopCopy ==
    /\ cpc = "copy"
    /\ Len(received) < popping
    /\ received' = Append(received,
                          slots[(readIndex + Len(received)) % Capacity])
    /\ UNCHANGED <<ringVars, pushVars, cpc, wanted, popping>>

PopPublishWanted ==
    /\ cpc = "copy"
    /\ Len(received) = popping
    /\ readIndex' = readIndex + wanted
    /\ seenRead' = seenRead \cup {readIndex'}
    /\ cpc' = "idle"
    /\ UNCHANGED <<slots, writeIndex, seenWrite, acquired, pushVars,
                   wanted, popping, received>>

PopPublish ==
    /\ cpc = "copy"
    /\ Len(received) = popping
    /\ readIndex' = readIndex + popping
    /\ seenRead' = seenRead \cup {readIndex'}
    /\ cpc' = "idle"
    /\ UNCHANGED <<slots, writeIndex, seenWrite, acquired, pushVars,
                   wanted, popping, received>>

PopStep == PopFits \/ PopDoesNotFit \/ PopClip \/ PopCopy \/ PopPublish

-----------------------------------------------------------------------------
Next ==
    \/ \E n \in 1..MaxRequest : PushBegin(n) \/ PopBegin(n)
    \/ PushStep
    \/ PopStep

Spec == Init /\ [][Next]_vars

-----------------------------------------------------------------------------
TypeOK ==
    /\ slots \in [Slot -> Nat \cup {Silence}]
    /\ writeIndex \in Nat /\ readIndex \in Nat /\ acquired \in Nat
    /\ seenWrite \in SUBSET Nat /\ seenRead \in SUBSET Nat
    /\ ppc \in {"idle", "compare", "clip", "acquire", "copy"}
    /\ offered \in Nat /\ pushing \in Nat /\ copied \in Nat
    /\ cpc \in {"idle", "compare", "clip", "copy"}
    /\ wanted \in Nat /\ popping \in Nat
    /\ received \in Seq(Nat \cup {Silence})

(* Although each call decides its count from loads that may be stale by    *)
(* the time it copies, a push never laps the reader and a pop never passes *)
(* the writer: no call moves more frames than the ring has room or frames  *)
(* for when the count is used (ring_buffer.hpp:94).                        *)
NeverOverfillsNorOverdraws ==
    /\ readIndex <= writeIndex /\ writeIndex <= readIndex + Capacity
    /\ ppc \in {"acquire", "copy"} => writeIndex + pushing <= readIndex + Capacity
    /\ cpc = "copy" => readIndex + popping <= writeIndex

(* A published frame stays in its slot until it has been popped, whatever  *)
(* push() is copying meanwhile: the slots of a push and those of the       *)
(* queued frames are disjoint modulo the capacity.                         *)
QueuedFramesIntact ==
    \A i \in readIndex .. writeIndex - 1 : slots[i % Capacity] = i

(* pop() delivers the stream: the frames it has copied are the ones at the *)
(* read index, in order, with no gap, repetition or torn copy.             *)
PopDeliversInOrder ==
    cpc = "copy" => \A k \in 1..Len(received) : received[k] = readIndex + k - 1

(* No frame is copied into a slot while the consumer's copy out of it is   *)
(* not known to be over, and none is copied out before its copy in is: the *)
(* non-atomic sample accesses never race (REQ-AUD-014).                    *)
NoSampleRace ==
    /\ ppc = "copy" => writeIndex + pushing <= acquired + Capacity
    /\ cpc = "copy" => \A write \in seenWrite : readIndex + popping <= write

(* push() copies at most the frames of its source and pop() at most those  *)
(* of its destination ("Copies up to source.frames frames",                *)
(* ring_buffer.hpp:93).                                                    *)
WithinCallersBuffer ==
    /\ ppc = "copy" => pushing <= offered
    /\ cpc = "copy" => popping <= wanted

(* The ring implements the bounded FIFO: publishing is putting and taking. *)
Fifo == INSTANCE BoundedFifo WITH put <- writeIndex, taken <- readIndex
ImplementsFifo == Fifo!Spec
==============================================================================
