--------------------------- MODULE SpscRingProofs ----------------------------
(***************************************************************************)
(* Proofs about the ring, for every capacity and every sequence of calls.  *)
(*                                                                         *)
(* The argument is in IndexInv: whatever index a thread may still load, be *)
(* it stale, leaves room (or frames) for the count already decided.        *)
(* SlotsInv adds what the slots hold; its step is that two positions less  *)
(* than Capacity apart never share a slot.                                 *)
(***************************************************************************)
EXTENDS SpscRing, TLAPS

(* How much of the ring the call under way has claimed.                    *)
Pushing == IF ppc \in {"acquire", "copy"} THEN pushing ELSE 0
Popping == IF cpc = "copy" THEN popping ELSE 0

(* A load by the producer may be stale, and every value it may return      *)
(* leaves room for the push under way; likewise for the consumer.          *)
RoomInv ==
    /\ readIndex \in seenRead
    /\ \A read \in seenRead :
          read <= readIndex /\ writeIndex + Pushing <= read + Capacity

FramesInv ==
    /\ writeIndex \in seenWrite
    /\ \A write \in seenWrite :
          write <= writeIndex /\ readIndex + Popping <= write

CopyInv ==
    /\ acquired <= readIndex
    /\ PushAcquires /\ ppc = "copy" =>
          writeIndex + pushing <= acquired + Capacity
    /\ ppc = "copy" => copied <= pushing
    /\ cpc = "copy" => Len(received) <= popping

IndexInv == TypeOK /\ RoomInv /\ FramesInv /\ CopyInv

(* The empty ring satisfies it.                                            *)
LEMMA RingInit == Init => IndexInv
  BY CapacityAssumption
  DEF Init, IndexInv, TypeOK, RoomInv, FramesInv, CopyInv, Slot, Silence,
      Pushing, Popping

(* A position modulo the capacity is a slot.                               *)
LEMMA SlotInRange == \A i \in Nat : i % Capacity \in Slot
  BY CapacityAssumption DEF Slot

(* No step of either thread breaks it, however stale the counts decided on.*)
LEMMA RingStep == IndexInv /\ [Next]_vars => IndexInv'
  <1> SUFFICES ASSUME IndexInv, [Next]_vars PROVE IndexInv'
    OBVIOUS
  <1> USE CapacityAssumption, PushAcquiresAssumption
      DEF IndexInv, TypeOK, Pushing, Popping
  <1>1. ASSUME NEW n \in 1..MaxRequest, PushBegin(n) PROVE IndexInv'
    BY <1>1, MaxRequestAssumption
    DEF PushBegin, RoomInv, FramesInv, CopyInv, ringVars, popVars
  <1>2. ASSUME NEW n \in 1..MaxRequest, PopBegin(n) PROVE IndexInv'
    BY <1>2, MaxRequestAssumption
    DEF PopBegin, RoomInv, FramesInv, CopyInv, ringVars, pushVars
  <1>3. CASE PushFits
    <2>1. PICK read \in seenRead :
             seenRead' = NotOlder(seenRead, read) /\ offered < AvailableWrite(read)
      BY <1>3 DEF PushFits, ProducerLoads
    <2>2. pushing' \in Nat
      BY <1>3, <2>1 DEF PushFits, AvailableWrite, RoomInv, FramesInv
    <2>3. received' = received
      BY <1>3 DEF PushFits, popVars
    <2>4. TypeOK'
      BY <1>3, <2>1, <2>2, <2>3 DEF PushFits, NotOlder, popVars
    <2>5. RoomInv'
      BY <1>3, <2>1, <2>4 DEF PushFits, NotOlder, AvailableWrite, RoomInv, popVars
    <2>6. FramesInv'
      BY <1>3, <2>1, <2>4, <2>3 DEF PushFits, NotOlder, AvailableWrite, FramesInv, popVars
    <2>7. CopyInv'
      BY <1>3, <2>1, <2>4, <2>3 DEF PushFits, NotOlder, AvailableWrite, CopyInv, RoomInv, popVars
    <2> QED
      BY <2>4, <2>5, <2>6, <2>7
  <1>4. CASE PushDoesNotFit
    BY <1>4
    DEF PushDoesNotFit, RoomInv, FramesInv, CopyInv, ProducerLoads, NotOlder, popVars
  <1>5. CASE PushClip
    <2>1. PICK read \in seenRead :
             seenRead' = NotOlder(seenRead, read) /\ pushing' = AvailableWrite(read)
      BY <1>5 DEF PushClip, ProducerLoads
    <2>2. pushing' \in Nat
      BY <1>5, <2>1 DEF PushClip, AvailableWrite, RoomInv, FramesInv
    <2>3. received' = received
      BY <1>5 DEF PushClip, popVars
    <2>4. TypeOK'
      BY <1>5, <2>1, <2>2, <2>3 DEF PushClip, NotOlder, popVars
    <2>5. RoomInv'
      BY <1>5, <2>1, <2>4 DEF PushClip, NotOlder, AvailableWrite, RoomInv, popVars
    <2>6. FramesInv'
      BY <1>5, <2>1, <2>4, <2>3 DEF PushClip, NotOlder, AvailableWrite, FramesInv, popVars
    <2>7. CopyInv'
      BY <1>5, <2>1, <2>4, <2>3 DEF PushClip, NotOlder, AvailableWrite, CopyInv, RoomInv, popVars
    <2> QED
      BY <2>4, <2>5, <2>6, <2>7
  <1>6. CASE PushAcquire
    <2>1. CASE PushAcquires
      <3>1. PICK read \in seenRead :
               seenRead' = NotOlder(seenRead, read) /\ acquired' = read
        BY <1>6, <2>1 DEF PushAcquire, ProducerLoads
      <3>2. TypeOK' /\ FramesInv'
        BY <1>6, <3>1 DEF PushAcquire, NotOlder, FramesInv, popVars
      <3>3. RoomInv'
        BY <1>6, <3>1, <3>2 DEF PushAcquire, NotOlder, RoomInv, popVars
      <3>4. CopyInv'
        BY <1>6, <3>1, <3>2 DEF PushAcquire, RoomInv, CopyInv, popVars
      <3> QED
        BY <3>2, <3>3, <3>4
    <2>2. CASE ~PushAcquires
      <3>1. UNCHANGED <<seenRead, acquired>>
        BY <1>6, <2>2 DEF PushAcquire
      <3> QED
        BY <1>6, <2>2, <3>1
        DEF PushAcquire, RoomInv, FramesInv, CopyInv, popVars
    <2> QED
      BY <2>1, <2>2
  <1>7. CASE PushCopy
    <2>1. (writeIndex + copied) % Capacity \in Slot
      <3>1. writeIndex + copied \in Nat
        OBVIOUS
      <3> QED
        BY <3>1, SlotInRange
    <2>2. TypeOK'
      BY <1>7, <2>1 DEF PushCopy, popVars
    <2>3. RoomInv' /\ FramesInv' /\ CopyInv'
      BY <1>7 DEF PushCopy, RoomInv, FramesInv, CopyInv, popVars
    <2> QED
      BY <2>2, <2>3
  <1>8. CASE PushPublish
    BY <1>8
    DEF PushPublish, RoomInv, FramesInv, CopyInv, popVars
  <1>9. CASE PopFits
    <2>1. PICK write \in seenWrite :
             seenWrite' = NotOlder(seenWrite, write) /\ wanted < AvailableRead(write)
      BY <1>9 DEF PopFits, ConsumerLoads
    <2>2. popping' \in Nat
      BY <1>9, <2>1 DEF PopFits, AvailableRead, RoomInv, FramesInv
    <2>3. received' \in Seq(Nat \cup {Silence}) /\ Len(received') = 0
      BY <1>9 DEF PopFits, pushVars
    <2>4. TypeOK'
      BY <1>9, <2>1, <2>2, <2>3 DEF PopFits, NotOlder, pushVars
    <2>5. RoomInv'
      BY <1>9, <2>1, <2>4 DEF PopFits, NotOlder, AvailableRead, RoomInv, pushVars
    <2>6. FramesInv'
      BY <1>9, <2>1, <2>4, <2>3 DEF PopFits, NotOlder, AvailableRead, FramesInv, pushVars
    <2>7. CopyInv'
      BY <1>9, <2>1, <2>4, <2>3 DEF PopFits, NotOlder, AvailableRead, CopyInv, RoomInv, pushVars
    <2> QED
      BY <2>4, <2>5, <2>6, <2>7
  <1>10. CASE PopDoesNotFit
    BY <1>10
    DEF PopDoesNotFit, RoomInv, FramesInv, CopyInv, ConsumerLoads, NotOlder, pushVars
  <1>11. CASE PopClip
    <2>1. PICK write \in seenWrite :
             seenWrite' = NotOlder(seenWrite, write) /\ popping' = AvailableRead(write)
      BY <1>11 DEF PopClip, ConsumerLoads
    <2>2. popping' \in Nat
      BY <1>11, <2>1 DEF PopClip, AvailableRead, RoomInv, FramesInv
    <2>3. received' \in Seq(Nat \cup {Silence}) /\ Len(received') = 0
      BY <1>11 DEF PopClip, pushVars
    <2>4. TypeOK'
      BY <1>11, <2>1, <2>2, <2>3 DEF PopClip, NotOlder, pushVars
    <2>5. RoomInv'
      BY <1>11, <2>1, <2>4 DEF PopClip, NotOlder, AvailableRead, RoomInv, pushVars
    <2>6. FramesInv'
      BY <1>11, <2>1, <2>4, <2>3 DEF PopClip, NotOlder, AvailableRead, FramesInv, pushVars
    <2>7. CopyInv'
      BY <1>11, <2>1, <2>4, <2>3 DEF PopClip, NotOlder, AvailableRead, CopyInv, RoomInv, pushVars
    <2> QED
      BY <2>4, <2>5, <2>6, <2>7
  <1>12. CASE PopCopy
    <2>1. (readIndex + Len(received)) % Capacity \in Slot
      <3>1. readIndex + Len(received) \in Nat
        OBVIOUS
      <3> QED
        BY <3>1, SlotInRange
    <2>2. /\ received' \in Seq(Nat \cup {Silence})
          /\ Len(received') = Len(received) + 1
      BY <1>12, <2>1 DEF PopCopy, Silence
    <2>3. TypeOK'
      BY <1>12, <2>2 DEF PopCopy, ringVars, pushVars
    <2>4. RoomInv' /\ FramesInv' /\ CopyInv'
      BY <1>12, <2>2
      DEF PopCopy, RoomInv, FramesInv, CopyInv, ringVars, pushVars
    <2> QED
      BY <2>3, <2>4
  <1>13. CASE PopPublish
    BY <1>13
    DEF PopPublish, RoomInv, FramesInv, CopyInv, pushVars
  <1>14. CASE UNCHANGED vars
    BY <1>14 DEF vars, ringVars, pushVars, popVars, RoomInv, FramesInv, CopyInv
  <1> QED
    BY <1>1, <1>2, <1>3, <1>4, <1>5, <1>6, <1>7, <1>8, <1>9, <1>10, <1>11,
       <1>12, <1>13, <1>14 DEF Next, PushStep, PopStep

(* The indices, the rooms each side counts on and the copies in progress   *)
(* stay consistent: the inductive invariant of the ring.                   *)
THEOREM IndexInvariant == Spec => []IndexInv
  BY RingInit, RingStep, PTL DEF Spec

(* Every variable keeps its type: in particular no count a call decides    *)
(* from stale loads is ever negative.                                      *)
THEOREM TypeCorrect == Spec => []TypeOK
  <1>1. IndexInv => TypeOK
    BY DEF IndexInv
  <1> QED
    BY <1>1, IndexInvariant, PTL

(* No push laps the reader and no pop passes the writer.                   *)
THEOREM RingBounds == Spec => []NeverOverfillsNorOverdraws
  <1>1. IndexInv => NeverOverfillsNorOverdraws
    BY CapacityAssumption
    DEF IndexInv, TypeOK, RoomInv, FramesInv, Pushing, Popping,
        NeverOverfillsNorOverdraws
  <1> QED
    BY <1>1, IndexInvariant, PTL

(* The acquire load in push() is what makes the sample accesses race-free. *)
THEOREM RaceFreedom ==
    ASSUME PushAcquires
    PROVE  Spec => []NoSampleRace
  <1>1. IndexInv => NoSampleRace
    BY CapacityAssumption, PushAcquires
    DEF IndexInv, TypeOK, FramesInv, CopyInv, Popping, NoSampleRace
  <1> QED
    BY <1>1, IndexInvariant, PTL

-----------------------------------------------------------------------------
(* Publishing is a step of the bounded FIFO, everything else stutters.     *)
THEOREM RingImplementsFifo == Spec => ImplementsFifo
  <1>1. Init => Fifo!Init
    BY DEF Init, Fifo!Init
  <1>2. IndexInv /\ [Next]_vars => [Fifo!Next]_(Fifo!vars)
    <2> SUFFICES ASSUME IndexInv, [Next]_vars
                 PROVE  [Fifo!Next]_(Fifo!vars)
      OBVIOUS
    <2>1. CASE PushPublish
      <3>1. pushing \in 0..Capacity /\ writeIndex + pushing <= readIndex + Capacity
        BY <2>1, CapacityAssumption
        DEF PushPublish, IndexInv, TypeOK, RoomInv, FramesInv, Pushing, Popping
      <3>2. pushing # 0 => Fifo!Put(pushing)
        BY <2>1, <3>1 DEF PushPublish, Fifo!Put
      <3>3. pushing = 0 => UNCHANGED Fifo!vars
        BY <2>1 DEF PushPublish, Fifo!vars, IndexInv, TypeOK
      <3> QED
        BY <3>1, <3>2, <3>3, CapacityAssumption DEF Fifo!Next
    <2>2. CASE PopPublish
      <3>1. popping \in 0..Capacity /\ readIndex + popping <= writeIndex
        BY <2>2, CapacityAssumption
        DEF PopPublish, IndexInv, TypeOK, RoomInv, FramesInv, Pushing, Popping
      <3>2. popping # 0 => Fifo!Take(popping)
        BY <2>2, <3>1 DEF PopPublish, Fifo!Take
      <3>3. popping = 0 => UNCHANGED Fifo!vars
        BY <2>2 DEF PopPublish, Fifo!vars, IndexInv, TypeOK
      <3> QED
        BY <3>1, <3>2, <3>3, CapacityAssumption DEF Fifo!Next
    <2>3. CASE ~PushPublish /\ ~PopPublish
      <3>1. UNCHANGED <<writeIndex, readIndex>>
        BY <2>3
        DEF Next, PushStep, PopStep, PushBegin, PopBegin, PushFits,
            PushDoesNotFit, PushClip, PushAcquire, PushCopy, PopFits,
            PopDoesNotFit, PopClip, PopCopy, vars, ringVars
      <3> QED
        BY <3>1 DEF Fifo!vars
    <2> QED
      BY <2>1, <2>2, <2>3
  <1> QED
    BY <1>1, <1>2, IndexInvariant, PTL DEF Spec, ImplementsFifo, Fifo!Spec

-----------------------------------------------------------------------------
(* Positions in one slot differ by a multiple of the capacity.             *)
LEMMA Division ==
    \A i \in Nat : /\ i \div Capacity \in Int /\ i % Capacity \in Int
                   /\ i = Capacity * (i \div Capacity) + (i % Capacity)
  <1> TAKE i \in Nat
  <1> USE CapacityAssumption
  <1>1. i \div Capacity \in Int
    OBVIOUS
  <1>2. i % Capacity \in Int
    OBVIOUS
  <1>3. i = Capacity * (i \div Capacity) + (i % Capacity)
    OBVIOUS
  <1> QED
    BY <1>1, <1>2, <1>3

(* Positions less than Capacity apart are in different slots.              *)
LEMMA DistinctSlots ==
    ASSUME NEW i \in Nat, NEW j \in Nat, i < j, j < i + Capacity
    PROVE  i % Capacity # j % Capacity
  <1> USE CapacityAssumption
  <1>1. /\ i = Capacity * (i \div Capacity) + (i % Capacity)
        /\ j = Capacity * (j \div Capacity) + (j % Capacity)
        /\ i \div Capacity \in Int /\ j \div Capacity \in Int
        /\ i % Capacity \in Int /\ j % Capacity \in Int
    BY Division
  <1> DEFINE q == (j \div Capacity) - (i \div Capacity)
  <1>2. SUFFICES ASSUME i % Capacity = j % Capacity PROVE FALSE
    OBVIOUS
  <1>3. q \in Int /\ j - i = Capacity * q
    BY <1>1, <1>2
  <1> HIDE DEF q
  <1>4. \/ q <= 0 /\ Capacity * q <= 0
        \/ q >= 1 /\ Capacity * q >= Capacity
    BY <1>3
  <1> QED
    BY <1>3, <1>4

(* The slots hold every frame from the read index to the last one copied,  *)
(* and what pop() has copied out is the stream from the read index on.     *)
Copying == IF ppc = "copy" THEN copied ELSE 0

SlotsInv ==
    /\ \A i \in Nat : readIndex <= i /\ i < writeIndex + Copying =>
          slots[i % Capacity] = i
    /\ PopDeliversInOrder

(* The empty ring holds no frame to be damaged.                            *)
LEMMA SlotsInit == Init => SlotsInv
  BY DEF Init, SlotsInv, PopDeliversInOrder, Copying

(* No step of either thread damages a queued or a copied frame.            *)
LEMMA SlotsStep == IndexInv /\ SlotsInv /\ [Next]_vars => SlotsInv'
  <1> SUFFICES ASSUME IndexInv, SlotsInv, [Next]_vars PROVE SlotsInv'
    OBVIOUS
  <1> USE CapacityAssumption DEF SlotsInv, PopDeliversInOrder
  <1>0. /\ writeIndex \in Nat /\ readIndex \in Nat /\ copied \in Nat
        /\ pushing \in Nat /\ popping \in Nat
        /\ slots \in [Slot -> Nat \cup {Silence}]
        /\ received \in Seq(Nat \cup {Silence})
    BY DEF IndexInv, TypeOK
  <1>1. ASSUME NEW n \in 1..MaxRequest, PushBegin(n) PROVE SlotsInv'
    BY <1>1, <1>0 DEF PushBegin, ringVars, popVars, Copying
  <1>2. ASSUME NEW n \in 1..MaxRequest, PopBegin(n) PROVE SlotsInv'
    BY <1>2, <1>0 DEF PopBegin, ringVars, pushVars, Copying
  <1>3. CASE PushFits \/ PushDoesNotFit \/ PushClip
    BY <1>3, <1>0 DEF PushFits, PushDoesNotFit, PushClip, popVars, Copying
  <1>4. CASE PushAcquire
    BY <1>4, <1>0 DEF PushAcquire, popVars, Copying
  <1>5. CASE PushCopy
    <2> DEFINE new == writeIndex + copied
    <2>1. /\ new \in Nat /\ new < readIndex + Capacity
          /\ slots' = [slots EXCEPT ![new % Capacity] = new]
          /\ Copying = copied /\ Copying' = copied + 1
          /\ UNCHANGED <<writeIndex, readIndex, cpc, received>>
      BY <1>5, <1>0
      DEF PushCopy, popVars, IndexInv, TypeOK, RoomInv, Pushing, Copying
    <2>2. new % Capacity \in Slot
      BY <2>1, SlotInRange
    <2> HIDE DEF new
    <2>3. ASSUME NEW i \in Nat, readIndex <= i, i < new
          PROVE  slots'[i % Capacity] = i
      <3>1. i % Capacity # new % Capacity
        <4>1. new < i + Capacity
          BY <2>1, <2>3, <1>0
        <4> QED
          BY <4>1, <2>1, <2>3, DistinctSlots
      <3>2. slots[i % Capacity] = i
        BY <2>1, <2>3, <1>0 DEF new
      <3>3. i % Capacity \in Slot
        BY SlotInRange
      <3> QED
        BY <3>1, <3>2, <3>3, <2>1, <2>2, <1>0
    <2>4. slots'[new % Capacity] = new
      BY <2>1, <2>2, <1>0
    <2>5. \A i \in Nat : readIndex' <= i /\ i < writeIndex' + Copying' =>
             slots'[i % Capacity] = i
      <3>1. \A i \in Nat : i < writeIndex' + Copying' => i < new \/ i = new
        BY <2>1, <1>0 DEF new
      <3> QED
        BY <3>1, <2>1, <2>3, <2>4
    <2>6. PopDeliversInOrder'
      BY <2>1
    <2> QED
      BY <2>5, <2>6
  <1>6. CASE PushPublish
    BY <1>6, <1>0 DEF PushPublish, popVars, Copying
  <1>7. CASE PopFits \/ PopDoesNotFit \/ PopClip
    <2>1. UNCHANGED <<slots, readIndex, writeIndex, ppc, copied>>
      BY <1>7 DEF PopFits, PopDoesNotFit, PopClip, pushVars
    <2>2. cpc' # "copy" \/ Len(received') = 0
      BY <1>7 DEF PopFits, PopDoesNotFit, PopClip
    <2> QED
      BY <2>1, <2>2, <1>0 DEF Copying
  <1>8. CASE PopCopy
    <2> DEFINE next == readIndex + Len(received)
    <2>1. /\ received' = Append(received, slots[next % Capacity])
          /\ UNCHANGED <<slots, readIndex, writeIndex, ppc, copied, cpc>>
          /\ cpc = "copy" /\ Len(received) < popping
      BY <1>8 DEF PopCopy, ringVars, pushVars
    <2>2. next \in Nat /\ next < writeIndex /\ readIndex <= next
      <3>1. Len(received) \in Nat
        BY <1>0
      <3>2. readIndex + popping <= writeIndex
        BY <2>1, <1>0 DEF IndexInv, TypeOK, FramesInv, Popping
      <3>3. /\ readIndex \in Nat /\ writeIndex \in Nat /\ popping \in Nat
            /\ Len(received) < popping
        BY <2>1, <1>0
      <3> QED
        BY <3>1, <3>2, <3>3
    <2>3. slots[next % Capacity] = next
      BY <2>2, <1>0 DEF Copying
    <2>4. received' = Append(received, next)
      BY <2>1, <2>3
    <2>5. PopDeliversInOrder'
      BY <2>1, <2>4, <1>0
    <2> QED
      BY <2>1, <2>5, <1>0 DEF Copying
  <1>9. CASE PopPublish
    <2>1. /\ UNCHANGED <<slots, writeIndex>> /\ Copying' = Copying
          /\ readIndex' = readIndex + popping /\ cpc' = "idle"
      BY <1>9 DEF PopPublish, pushVars, Copying
    <2>2. \A i \in Nat : readIndex' <= i => readIndex <= i
      BY <2>1, <1>0
    <2> QED
      BY <2>1, <2>2
  <1>10. CASE UNCHANGED vars
    BY <1>10, <1>0 DEF vars, ringVars, pushVars, popVars, Copying
  <1> QED
    BY <1>1, <1>2, <1>3, <1>4, <1>5, <1>6, <1>7, <1>8, <1>9, <1>10
    DEF Next, PushStep, PopStep

(* The contents of the slots stay those the writer put there.              *)
THEOREM SlotsInvariant == Spec => []SlotsInv
  BY SlotsInit, SlotsStep, IndexInvariant, PTL DEF Spec

(* A published frame is intact in its slot until it is popped.             *)
THEOREM QueueIntact == Spec => []QueuedFramesIntact
  <1>1. IndexInv /\ SlotsInv => QueuedFramesIntact
    BY DEF IndexInv, TypeOK, SlotsInv, Copying, QueuedFramesIntact
  <1> QED
    BY <1>1, IndexInvariant, SlotsInvariant, PTL

(* pop() delivers the stream in order, with no gap and no repetition.      *)
THEOREM InOrder == Spec => []PopDeliversInOrder
  <1>1. SlotsInv => PopDeliversInOrder
    BY DEF SlotsInv
  <1> QED
    BY <1>1, SlotsInvariant, PTL
==============================================================================
