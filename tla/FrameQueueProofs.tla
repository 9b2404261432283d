--------------------------- MODULE FrameQueueProofs ---------------------------
(***************************************************************************)
(* Theorems about FrameQueue, for every number of threads and frames and   *)
(* every capacity.                                                         *)
(***************************************************************************)
EXTENDS FrameQueue, SequenceTheorems, TLAPS

\* Some of the larger steps take SMT longer than it has by default.
USE SMTT(15), Zenon

\* Slot(i), the index arithmetic of enqueue and dequeue_internal: it stays in
\* the array, its first slot is start, and distinct positions of a queue that
\* is not overfull are distinct slots.
LEMMA SlotProperties ==
    ASSUME start \in Slots
    PROVE  /\ \A i \in Nat : Slot(i) \in Slots
           /\ Slot(0) = start
           /\ (start + 1) % Capacity \in Slots
           /\ \A i, j \in Slots : Slot(i) = Slot(j) => i = j
<1>1. \A i \in Nat : Slot(i) \in Slots
  BY QueueAssumption DEF Slot, Slots
<1>2. Slot(0) = start
  BY QueueAssumption DEF Slot, Slots
<1>3. (start + 1) % Capacity \in Slots
  BY QueueAssumption DEF Slots
<1>4. ASSUME NEW i \in Slots
      PROVE  Slot(i) = IF start + i < Capacity THEN start + i
                                               ELSE start + i - Capacity
  BY QueueAssumption DEF Slot, Slots
<1>5. \A i, j \in Slots : Slot(i) = Slot(j) => i = j
  BY <1>4, QueueAssumption DEF Slots
<1> QED BY <1>1, <1>2, <1>3, <1>5

\* After dequeue_internal moved start, position i of the queue is the slot
\* that was position i + 1.
LEMMA SlotShift ==
    ASSUME start \in Slots, NEW i \in Slots, start' = (start + 1) % Capacity
    PROVE  (Slot(i))' = Slot(i + 1)
<1>1. ASSUME NEW a \in 0..(Capacity - 1) PROVE a % Capacity = a
  BY QueueAssumption
<1>2. ASSUME NEW a \in Capacity..(2 * Capacity - 1) PROVE a % Capacity = a - Capacity
  BY QueueAssumption
<1>3. start' = IF start + 1 < Capacity THEN start + 1 ELSE 0
  BY <1>1, <1>2, QueueAssumption DEF Slots
<1>4. start' + i \in 0..(2 * Capacity - 1) /\ start + (i + 1) \in 0..(2 * Capacity - 1)
  BY <1>3, QueueAssumption DEF Slots
<1>5. CASE start + 1 < Capacity
  BY <1>3, <1>5, QueueAssumption DEF Slot, Slots
<1>6. CASE ~(start + 1 < Capacity)
  <2>1. start + (i + 1) = Capacity + i /\ start' + i = i
    BY <1>3, <1>6, QueueAssumption DEF Slots
  <2>2. (Capacity + i) % Capacity = i /\ i % Capacity = i
    BY <1>1, <1>2, QueueAssumption DEF Slots
  <2> QED BY <2>1, <2>2 DEF Slot
<1> QED BY <1>5, <1>6

\* Init establishes the inductive invariant.
LEMMA InitInv == Init => IndInv
<1> SUFFICES ASSUME Init PROVE IndInv
  OBVIOUS
<1> USE QueueAssumption DEF Init, Threads
<1>1. TypeOK
  <2>1. start \in Slots /\ length \in 0..Capacity /\ total_size \in Int
    BY DEF Slots
  <2>2. pc \in [Threads -> ProducerPC \cup ConsumerPC]
    BY DEF ProducerPC
  <2> QED BY <2>1, <2>2, Zenon DEF TypeOK
<1>2. LockDiscipline
  BY DEF LockDiscipline
<1>3. NoMissedWakeup
  BY DEF NoMissedWakeup, WaitingFull, WaitingEmpty
<1> QED
  BY <1>1, <1>2, <1>3 DEF IndInv, ProducerPC, ConsumerPC

\* What dns_frame_queue_dequeue_internal does to a queue that is not empty: it
\* gives out a frame, and the ring it leaves is well formed.
LEMMA DequeueInternalRing ==
    ASSUME IndInv, length # 0, DequeueInternal
    PROVE  /\ queue[start] \in Frames
           /\ start' \in Slots /\ length' \in 0..Capacity /\ length' < Capacity
           /\ total_size' \in Int
           /\ (\A i \in 0..(length - 1) : queue[Slot(i)] \in Frames)'
<1> USE QueueAssumption
<1>1. TypeOK /\ \A i \in 0..(length - 1) : queue[Slot(i)] \in Frames
  BY DEF IndInv
<1>2. queue[start] \in Frames
  <2>1. 0 \in 0..(length - 1) /\ Slot(0) = start
    BY <1>1, SlotProperties DEF TypeOK
  <2> QED BY <1>1, <2>1
<1>3. start' \in Slots /\ length' \in 0..Capacity /\ length' < Capacity
  BY <1>1, SlotProperties DEF TypeOK, DequeueInternal
<1>4. total_size' \in Int
  BY <1>1, <1>2 DEF TypeOK, DequeueInternal
<1>5. ASSUME NEW i \in 0..(length' - 1) PROVE queue'[(Slot(i))'] \in Frames
  <2>1. i \in Slots /\ i + 1 \in 0..(length - 1)
    BY <1>1 DEF TypeOK, DequeueInternal, Slots
  <2>2. (Slot(i))' = Slot(i + 1)
    BY <1>1, <2>1, SlotShift DEF TypeOK, DequeueInternal
  <2> QED BY <1>1, <2>1, <2>2 DEF DequeueInternal
<1> QED BY <1>2, <1>3, <1>4, <1>5

\* Every step preserves it, one case per action.
LEMMA NextInv == IndInv /\ [Next]_vars => IndInv'
<1> SUFFICES ASSUME IndInv, [Next]_vars PROVE IndInv'
  OBVIOUS
<1> USE QueueAssumption
<1> DEFINE PInv == \A p \in Producers :
                     /\ pc[p] \in ProducerPC
                     /\ hold[p] \in Frames <=> pc[p] \in {"enq_lock", "enq_test", "wait_full"}
                     /\ pc[p] = "wait_full" => on_full = "BLOCK"
           CInv == \A c \in Consumers :
                     /\ pc[c] \in ConsumerPC
                     /\ hold[c] \in Frames <=> pc[c] \in {"deq_signal", "use"}
           QInv == \A i \in 0..(length - 1) : queue[Slot(i)] \in Frames
<1>0. TypeOK /\ LockDiscipline /\ NoMissedWakeup /\ PInv /\ CInv /\ QInv
  BY DEF IndInv
<1>1. ASSUME NEW p \in Producers, NEW f \in Frames, CallEnqueue(p, f) PROVE IndInv'
  <2> USE <1>0, <1>1 DEF CallEnqueue, Goto, ring, Threads, TypeOK
  <2>1. TypeOK'
    BY DEF ProducerPC, ConsumerPC
  <2>2. LockDiscipline'
    BY DEF LockDiscipline
  <2>3. NoMissedWakeup'
    BY DEF NoMissedWakeup, WaitingFull, WaitingEmpty
  <2>4. PInv' /\ CInv' /\ QInv'
    BY DEF ProducerPC, ConsumerPC, Slot
  <2> QED BY <2>1, <2>2, <2>3, <2>4 DEF IndInv
<1>2. ASSUME NEW p \in Producers, EnqueueLock(p) PROVE IndInv'
  <2> USE <1>0, <1>2 DEF EnqueueLock, Acquire, Goto, ring, Threads, TypeOK
  <2>1. TypeOK'
    BY DEF ProducerPC, ConsumerPC
  <2>2. LockDiscipline'
    BY DEF LockDiscipline
  <2>3. NoMissedWakeup'
    BY DEF NoMissedWakeup, WaitingFull, WaitingEmpty
  <2>4. PInv' /\ CInv' /\ QInv'
    BY DEF ProducerPC, ConsumerPC, Slot
  <2> QED BY <2>1, <2>2, <2>3, <2>4 DEF IndInv
<1>3. ASSUME NEW p \in Producers, EnqueueBlock(p) PROVE IndInv'
  <2> USE <1>0, <1>3 DEF EnqueueBlock, CondWait, Goto, QueueFull, ring, Threads, TypeOK
  <2>1. TypeOK'
    BY DEF ProducerPC, ConsumerPC
  <2>2. LockDiscipline'
    BY DEF LockDiscipline
  <2>3. NoMissedWakeup'
    BY DEF NoMissedWakeup, WaitingFull, WaitingEmpty
  <2>4. PInv' /\ CInv' /\ QInv'
    BY DEF ProducerPC, ConsumerPC, Slot
  <2> QED BY <2>1, <2>2, <2>3, <2>4 DEF IndInv
<1>4. ASSUME NEW p \in Producers, EnqueueDropOldest(p) PROVE IndInv'
  <2> USE <1>0, <1>4 DEF EnqueueDropOldest, DequeueInternal, QueueFull, ring, Threads, TypeOK
  <2>0. length # 0
    BY DEF Slots
  <2>1. TypeOK'
    BY <2>0, DequeueInternalRing DEF ProducerPC, ConsumerPC
  <2>2. LockDiscipline'
    BY DEF LockDiscipline
  <2>3. NoMissedWakeup'
    BY DEF NoMissedWakeup, WaitingFull, WaitingEmpty
  <2>4. PInv' /\ CInv'
    BY <2>0, DequeueInternalRing DEF ProducerPC, ConsumerPC
  <2>5. QInv'
    BY <2>0, DequeueInternalRing
  <2> QED BY <2>1, <2>2, <2>3, <2>4, <2>5 DEF IndInv
<1>5. ASSUME NEW p \in Producers, EnqueueDropNewest(p) PROVE IndInv'
  <2> USE <1>0, <1>5 DEF EnqueueDropNewest, Goto, ring, Threads, TypeOK
  <2>1. TypeOK'
    BY DEF ProducerPC, ConsumerPC
  <2>2. LockDiscipline'
    BY DEF LockDiscipline
  <2>3. NoMissedWakeup'
    BY DEF NoMissedWakeup, WaitingFull, WaitingEmpty
  <2>4. PInv' /\ CInv' /\ QInv'
    BY DEF ProducerPC, ConsumerPC, Slot
  <2> QED BY <2>1, <2>2, <2>3, <2>4 DEF IndInv
<1>6. ASSUME NEW p \in Producers, EnqueueInsert(p) PROVE IndInv'
  <2> USE <1>0, <1>6 DEF EnqueueInsert, Goto, QueueFull, ring, Threads, TypeOK
  <2>0. /\ length \in Slots /\ hold[p] \in Frames
        /\ Slot(length) \in Slots
        /\ \A i, j \in Slots : Slot(i) = Slot(j) => i = j
    <3>1. length \in Slots /\ length \in Nat
      BY DEF Slots
    <3>2. hold[p] \in Frames
      OBVIOUS
    <3> QED BY <3>1, <3>2, SlotProperties
  <2>1. TypeOK'
    <3>1. length' \in 0..Capacity /\ total_size' \in Int
      BY <2>0 DEF Slots
    <3>2. queue' \in [Slots -> Frames \cup {NoFrame}]
      BY <2>0
    <3>3. pc' \in [Threads -> ProducerPC \cup ConsumerPC]
      BY DEF ProducerPC
    <3>4. hold' \in [Threads -> Frames \cup {NoFrame}]
      OBVIOUS
    <3> QED BY <3>1, <3>2, <3>3, <3>4
  <2>2. LockDiscipline'
    BY DEF LockDiscipline
  <2>3. NoMissedWakeup'
    BY DEF NoMissedWakeup, WaitingFull, WaitingEmpty
  <2>4. PInv' /\ CInv'
    BY DEF ProducerPC, ConsumerPC
  <2>5. ASSUME NEW i \in 0..(length' - 1) PROVE queue'[(Slot(i))'] \in Frames
    <3>1. (Slot(i))' = Slot(i) /\ i \in 0..length /\ i \in Slots
      BY <2>0 DEF Slot, Slots
    <3>2. Slot(i) \in Slots
      BY SlotProperties, <3>1 DEF Slots
    <3>3. CASE i = length
      BY <2>0, <3>1, <3>3
    <3>4. CASE i # length
      <4>1. i \in 0..(length - 1) /\ Slot(i) # Slot(length)
        BY <2>0, <3>1, <3>4
      <4> QED BY <2>0, <3>1, <3>2, <4>1
    <3> QED BY <3>3, <3>4
  <2> QED BY <2>1, <2>2, <2>3, <2>4, <2>5 DEF IndInv
<1>7. ASSUME NEW p \in Producers, EnqueueSignal(p) PROVE IndInv'
  <2> USE <1>0, <1>7 DEF EnqueueSignal, BroadcastAndUnlock, ring, Threads, TypeOK
  <2>1. TypeOK'
    BY DEF ProducerPC, ConsumerPC
  <2>2. LockDiscipline'
    BY DEF LockDiscipline
  <2>3. NoMissedWakeup'
    BY DEF NoMissedWakeup, WaitingFull, WaitingEmpty
  <2>4. PInv' /\ CInv' /\ QInv'
    BY DEF ProducerPC, ConsumerPC, Slot, WaitingFull, WaitingEmpty
  <2> QED BY <2>1, <2>2, <2>3, <2>4 DEF IndInv
<1>8. ASSUME NEW c \in Consumers, CallDequeue(c) PROVE IndInv'
  <2> USE <1>0, <1>8 DEF CallDequeue, Goto, ring, Threads, TypeOK
  <2>1. TypeOK'
    BY DEF ProducerPC, ConsumerPC
  <2>2. LockDiscipline'
    BY DEF LockDiscipline
  <2>3. NoMissedWakeup'
    BY DEF NoMissedWakeup, WaitingFull, WaitingEmpty
  <2>4. PInv' /\ CInv' /\ QInv'
    BY DEF ProducerPC, ConsumerPC, Slot
  <2> QED BY <2>1, <2>2, <2>3, <2>4 DEF IndInv
<1>9. ASSUME NEW c \in Consumers, DequeueLock(c) PROVE IndInv'
  <2> USE <1>0, <1>9 DEF DequeueLock, Acquire, Goto, ring, Threads, TypeOK
  <2>1. TypeOK'
    BY DEF ProducerPC, ConsumerPC
  <2>2. LockDiscipline'
    BY DEF LockDiscipline
  <2>3. NoMissedWakeup'
    BY DEF NoMissedWakeup, WaitingFull, WaitingEmpty
  <2>4. PInv' /\ CInv' /\ QInv'
    BY DEF ProducerPC, ConsumerPC, Slot
  <2> QED BY <2>1, <2>2, <2>3, <2>4 DEF IndInv
<1>10. ASSUME NEW c \in Consumers, DequeueWait(c) PROVE IndInv'
  <2> USE <1>0, <1>10 DEF DequeueWait, CondWait, Goto, ring, Threads, TypeOK
  <2>1. TypeOK'
    BY DEF ProducerPC, ConsumerPC
  <2>2. LockDiscipline'
    BY DEF LockDiscipline
  <2>3. NoMissedWakeup'
    BY DEF NoMissedWakeup, WaitingFull, WaitingEmpty
  <2>4. PInv' /\ CInv' /\ QInv'
    BY DEF ProducerPC, ConsumerPC, Slot
  <2> QED BY <2>1, <2>2, <2>3, <2>4 DEF IndInv
<1>11. ASSUME NEW c \in Consumers, DequeueTake(c) PROVE IndInv'
  <2> USE <1>0, <1>11 DEF DequeueTake, DequeueInternal, Goto, ring, Threads, TypeOK
  <2>0. length # 0
    BY DEF Slots
  <2>1. TypeOK'
    BY <2>0, DequeueInternalRing DEF ProducerPC, ConsumerPC
  <2>2. LockDiscipline'
    BY DEF LockDiscipline
  <2>3. NoMissedWakeup'
    BY DEF NoMissedWakeup, WaitingFull, WaitingEmpty
  <2>4. PInv' /\ CInv'
    BY <2>0, DequeueInternalRing DEF ProducerPC, ConsumerPC
  <2>5. QInv'
    BY <2>0, DequeueInternalRing
  <2> QED BY <2>1, <2>2, <2>3, <2>4, <2>5 DEF IndInv
<1>12. ASSUME NEW c \in Consumers, DequeueSignal(c) PROVE IndInv'
  <2> USE <1>0, <1>12 DEF DequeueSignal, BroadcastAndUnlock, ring, Threads, TypeOK
  <2>1. TypeOK'
    BY DEF ProducerPC, ConsumerPC
  <2>2. LockDiscipline'
    BY DEF LockDiscipline
  <2>3. NoMissedWakeup'
    BY DEF NoMissedWakeup, WaitingFull, WaitingEmpty
  <2>4. PInv' /\ CInv' /\ QInv'
    BY DEF ProducerPC, ConsumerPC, Slot, WaitingFull, WaitingEmpty
  <2> QED BY <2>1, <2>2, <2>3, <2>4 DEF IndInv
<1>13. ASSUME NEW c \in Consumers, DestroyFrame(c) PROVE IndInv'
  <2> USE <1>0, <1>13 DEF DestroyFrame, Goto, ring, Threads, TypeOK
  <2>1. TypeOK'
    BY DEF ProducerPC, ConsumerPC
  <2>2. LockDiscipline'
    BY DEF LockDiscipline
  <2>3. NoMissedWakeup'
    BY DEF NoMissedWakeup, WaitingFull, WaitingEmpty
  <2>4. PInv' /\ CInv' /\ QInv'
    BY DEF ProducerPC, ConsumerPC, Slot
  <2> QED BY <2>1, <2>2, <2>3, <2>4 DEF IndInv
<1>14. ASSUME NEW t \in Threads, SpuriousWakeup(t) PROVE IndInv'
  <2> USE <1>0, <1>14 DEF SpuriousWakeup, Goto, ring, Threads, TypeOK
  <2>1. TypeOK'
    BY DEF ProducerPC, ConsumerPC
  <2>2. LockDiscipline'
    BY DEF LockDiscipline
  <2>3. NoMissedWakeup'
    BY DEF NoMissedWakeup, WaitingFull, WaitingEmpty
  <2>4. PInv' /\ CInv' /\ QInv'
    BY DEF ProducerPC, ConsumerPC, Slot
  <2> QED BY <2>1, <2>2, <2>3, <2>4 DEF IndInv
<1>15. ASSUME Destroy PROVE IndInv'
  <2> USE <1>0, <1>15 DEF Destroy, ring, Threads, TypeOK
  <2>1. TypeOK'
    BY DEF ProducerPC, ConsumerPC
  <2>2. LockDiscipline'
    BY DEF LockDiscipline
  <2>3. NoMissedWakeup'
    BY DEF NoMissedWakeup, WaitingFull, WaitingEmpty
  <2>4. PInv' /\ CInv' /\ QInv'
    BY DEF ProducerPC, ConsumerPC, Slot
  <2> QED BY <2>1, <2>2, <2>3, <2>4 DEF IndInv
<1>16. ASSUME UNCHANGED vars PROVE IndInv'
  <2> USE <1>0, <1>16 DEF vars, ring, Threads, TypeOK
  <2>1. TypeOK'
    BY DEF ProducerPC, ConsumerPC
  <2>2. LockDiscipline'
    BY DEF LockDiscipline
  <2>3. NoMissedWakeup'
    BY DEF NoMissedWakeup, WaitingFull, WaitingEmpty
  <2>4. PInv' /\ CInv' /\ QInv'
    BY DEF ProducerPC, ConsumerPC, Slot
  <2> QED BY <2>1, <2>2, <2>3, <2>4 DEF IndInv
<1> QED
  BY <1>1, <1>2, <1>3, <1>4, <1>5, <1>6, <1>7, <1>8, <1>9, <1>10, <1>11, <1>12,
     <1>13, <1>14, <1>15, <1>16 DEF Next, Enqueue, Dequeue, Finished

\* The variables keep their types on every execution: in particular start and
\* length never leave the array, and total_size is only ever adjusted by the
\* size of a real frame.
THEOREM TypeCorrect == Spec => []TypeOK
<1>1. IndInv => TypeOK
  BY DEF IndInv
<1> QED BY <1>1, InitInv, NextInv, PTL DEF Spec

\* No wakeup is missed, whatever the number of producers and consumers.
THEOREM WakeupsNotMissed == Spec => []NoMissedWakeup
<1>1. IndInv => NoMissedWakeup
  BY DEF IndInv
<1> QED BY <1>1, InitInv, NextInv, PTL DEF Spec

-----------------------------------------------------------------------------
\* The contents of the ring are a sequence of frames of the queue's length.
LEMMA ContentsSeq ==
    ASSUME IndInv
    PROVE  Contents \in Seq(Frames) /\ Len(Contents) = length
<1>1. length \in Nat /\ \A i \in 1..length : queue[Slot(i - 1)] \in Frames
  BY QueueAssumption DEF IndInv, TypeOK
<1> QED BY <1>1 DEF Contents

\* dequeue_internal takes the head of the contents and leaves the tail.
LEMMA ContentsTail ==
    ASSUME IndInv, length # 0, DequeueInternal
    PROVE  /\ Contents # << >> /\ queue[start] = Head(Contents)
           /\ Contents' = Tail(Contents)
<1> USE QueueAssumption, ContentsSeq
<1>1. /\ length \in Nat /\ length <= Capacity /\ start \in Slots
      /\ length' = length - 1 /\ length' \in Nat
  BY DEF IndInv, TypeOK, DequeueInternal
<1>2. Contents # << >>
  BY <1>1
<1>3. queue[start] = Head(Contents)
  BY <1>1, SlotProperties DEF Contents
<1>4. ASSUME NEW i \in 1..length' PROVE Contents'[i] = Tail(Contents)[i]
  <2>1. i - 1 \in Slots /\ i + 1 \in 1..length
    BY <1>1 DEF Slots
  <2>2. (Slot(i - 1))' = Slot((i - 1) + 1)
    BY <1>1, <2>1, SlotShift DEF DequeueInternal
  <2>3. Contents'[i] = queue[Slot(i)]
    BY <2>1, <2>2 DEF Contents, DequeueInternal
  <2>4. Tail(Contents)[i] = Contents[i + 1]
    BY <1>1, <1>2, HeadTailProperties
  <2>5. Contents[i + 1] = queue[Slot(i)]
    <3>1. (i + 1) - 1 = i
      OBVIOUS
    <3> QED BY <2>1, <3>1 DEF Contents
  <2> QED BY <2>3, <2>4, <2>5
<1>5. Contents' = [i \in 1..length' |-> Contents'[i]]
  BY DEF Contents
<1>6. Tail(Contents) = [i \in 1..length' |-> Tail(Contents)[i]]
  <2>1. Tail(Contents) \in Seq(Frames) /\ Len(Tail(Contents)) = length'
    BY <1>1, <1>2, HeadTailProperties
  <2> QED BY <2>1, LenProperties
<1> QED BY <1>2, <1>3, <1>4, <1>5, <1>6

\* enqueue appends the new frame to the contents.
LEMMA ContentsAppend ==
    ASSUME IndInv, NEW p \in Producers, EnqueueInsert(p)
    PROVE  Contents' = Append(Contents, hold[p])
<1> USE QueueAssumption, ContentsSeq
<1>1. /\ length \in Slots /\ length \in Nat /\ start \in Slots /\ hold[p] \in Frames
      /\ length' = length + 1 /\ start' = start
      /\ queue \in [Slots -> Frames \cup {NoFrame}]
  BY DEF IndInv, TypeOK, EnqueueInsert, QueueFull, Slots
<1>2. ASSUME NEW i \in 1..(length + 1)
      PROVE  Contents'[i] = IF i = length + 1 THEN hold[p] ELSE Contents[i]
  <2>1. i - 1 \in Slots /\ i - 1 \in Nat /\ i \in 1..length'
    BY <1>1 DEF Slots
  <2>2. /\ Slot(i - 1) \in Slots /\ Slot(length) \in Slots
        /\ Slot(i - 1) = Slot(length) => i - 1 = length
    BY <1>1, <2>1, SlotProperties
  <2>3. Contents'[i] = queue'[Slot(i - 1)]
    BY <1>1, <2>1 DEF Contents, Slot
  <2>4. queue'[Slot(i - 1)] = IF Slot(i - 1) = Slot(length) THEN hold[p]
                                                          ELSE queue[Slot(i - 1)]
    BY <1>1, <2>2 DEF EnqueueInsert
  <2>5. CASE i = length + 1
    BY <1>1, <2>3, <2>4, <2>5 DEF Slots
  <2>6. CASE i # length + 1
    <3>1. i \in 1..length /\ Slot(i - 1) # Slot(length)
      BY <1>1, <2>1, <2>2, <2>6 DEF Slots
    <3> QED BY <2>3, <2>4, <2>6, <3>1 DEF Contents
  <2> QED BY <2>5, <2>6
<1>3. Contents' = [i \in 1..(length + 1) |-> Contents'[i]]
  BY <1>1 DEF Contents
<1>4. Append(Contents, hold[p]) \in Seq(Frames)
      /\ Len(Append(Contents, hold[p])) = length + 1
  BY <1>1, AppendProperties DEF Slots
<1>5. Append(Contents, hold[p]) = [i \in 1..(length + 1) |-> Append(Contents, hold[p])[i]]
  BY <1>4, LenProperties
<1>6. ASSUME NEW i \in 1..(length + 1)
      PROVE  Append(Contents, hold[p])[i] = IF i = length + 1 THEN hold[p] ELSE Contents[i]
  BY <1>1, AppendProperties DEF Slots
<1> QED BY <1>2, <1>3, <1>5, <1>6

\* The initial states of the queue are initial states of the abstract one.
LEMMA RefineInit == Init => Fifo!FifoInit
BY QueueAssumption DEF Init, Fifo!FifoInit, Contents, Policies, Threads

\* Every step of the queue is a step of the abstract one or leaves it alone.
LEMMA RefineNext == IndInv /\ [Next]_vars => [Fifo!FifoNext]_(Fifo!fifoVars)
<1> SUFFICES ASSUME IndInv, [Next]_vars PROVE [Fifo!FifoNext]_(Fifo!fifoVars)
  OBVIOUS
<1> USE QueueAssumption
<1>0. /\ TypeOK
      /\ \A p \in Producers :
           hold[p] \in Frames <=> pc[p] \in {"enq_lock", "enq_test", "wait_full"}
      /\ \A c \in Consumers : hold[c] \in Frames <=> pc[c] \in {"deq_signal", "use"}
  BY DEF IndInv
<1>s. ASSUME UNCHANGED <<ring, hold, on_full>> PROVE UNCHANGED Fifo!fifoVars
  BY <1>s DEF ring, Fifo!fifoVars, Contents, Slot
<1>1. ASSUME NEW p \in Producers, NEW f \in Frames, CallEnqueue(p, f)
      PROVE  Fifo!FifoNext
  <2>1. Contents' = Contents
    BY <1>1 DEF CallEnqueue, ring, Contents, Slot
  <2>2. Fifo!Offer(p, f)
    BY <1>0, <1>1, <2>1 DEF CallEnqueue, Fifo!Offer, TypeOK, Threads
  <2> QED BY <2>2 DEF Fifo!FifoNext
<1>2. ASSUME NEW p \in Producers, EnqueueDropOldest(p) PROVE Fifo!FifoNext
  <2>1. length # 0 /\ length = Capacity
    BY <1>0, <1>2 DEF EnqueueDropOldest, QueueFull, TypeOK
  <2>2. Contents' = Tail(Contents) /\ Len(Contents) = Capacity
    BY <1>2, <2>1, ContentsTail, ContentsSeq DEF EnqueueDropOldest
  <2>3. Fifo!DropOldest(p)
    BY <1>0, <1>2, <2>2 DEF EnqueueDropOldest, Fifo!DropOldest, Fifo!Full
  <2> QED BY <2>3 DEF Fifo!FifoNext
<1>3. ASSUME NEW p \in Producers, EnqueueDropNewest(p) PROVE Fifo!FifoNext
  <2>1. Contents' = Contents
    BY <1>3 DEF EnqueueDropNewest, ring, Contents, Slot
  <2>2. Len(Contents) = Capacity
    BY <1>0, <1>3, ContentsSeq DEF EnqueueDropNewest, QueueFull, TypeOK
  <2>3. Fifo!DropNewest(p)
    BY <1>0, <1>3, <2>1, <2>2 DEF EnqueueDropNewest, Fifo!DropNewest, Fifo!Full
  <2> QED BY <2>3 DEF Fifo!FifoNext
<1>4. ASSUME NEW p \in Producers, EnqueueInsert(p) PROVE Fifo!FifoNext
  <2>1. Contents' = Append(Contents, hold[p])
    BY <1>4, ContentsAppend
  <2>2. Len(Contents) # Capacity
    BY <1>0, <1>4, ContentsSeq DEF EnqueueInsert, QueueFull, TypeOK
  <2>3. Fifo!Put(p)
    BY <1>0, <1>4, <2>1, <2>2 DEF EnqueueInsert, Fifo!Put, Fifo!Full
  <2> QED BY <2>3 DEF Fifo!FifoNext
<1>5. ASSUME NEW c \in Consumers, DequeueTake(c) PROVE Fifo!FifoNext
  <2>1. /\ Contents # << >> /\ queue[start] = Head(Contents)
        /\ Contents' = Tail(Contents)
    BY <1>5, ContentsTail DEF DequeueTake
  <2>2. Fifo!Take(c)
    BY <1>0, <1>5, <2>1 DEF DequeueTake, Fifo!Take, TypeOK, Threads
  <2> QED BY <2>2 DEF Fifo!FifoNext
<1>6. ASSUME NEW c \in Consumers, DestroyFrame(c) PROVE Fifo!FifoNext
  <2>1. Contents' = Contents
    BY <1>6 DEF DestroyFrame, ring, Contents, Slot
  <2>2. Fifo!Release(c)
    BY <1>0, <1>6, <2>1 DEF DestroyFrame, Fifo!Release
  <2> QED BY <2>2 DEF Fifo!FifoNext
<1>7. ASSUME NEW p \in Producers,
             EnqueueLock(p) \/ EnqueueBlock(p) \/ EnqueueSignal(p)
      PROVE  UNCHANGED Fifo!fifoVars
  BY <1>7, <1>s DEF EnqueueLock, EnqueueBlock, EnqueueSignal, Acquire, CondWait,
                    BroadcastAndUnlock
<1>8. ASSUME NEW c \in Consumers,
             CallDequeue(c) \/ DequeueLock(c) \/ DequeueWait(c) \/ DequeueSignal(c)
      PROVE  UNCHANGED Fifo!fifoVars
  BY <1>8, <1>s DEF CallDequeue, DequeueLock, DequeueWait, DequeueSignal, Acquire,
                    CondWait, BroadcastAndUnlock
<1>9. ASSUME NEW t \in Threads, SpuriousWakeup(t) PROVE UNCHANGED Fifo!fifoVars
  BY <1>9, <1>s DEF SpuriousWakeup
<1>10. ASSUME Destroy \/ UNCHANGED vars PROVE UNCHANGED Fifo!fifoVars
  BY <1>10, <1>s DEF Destroy, vars
<1> QED
  BY <1>1, <1>2, <1>3, <1>4, <1>5, <1>6, <1>7, <1>8, <1>9, <1>10
     DEF Next, Enqueue, Dequeue, Finished

\* The ring buffer implements the bounded FIFO queue, for every capacity and
\* every number of threads: what dequeue returns is what was enqueued first,
\* and only a full queue drops a frame, the one its policy names.
THEOREM QueueImplementsFifo == Spec => ImplementsFifo
BY RefineInit, RefineNext, InitInv, NextInv, PTL
   DEF Spec, ImplementsFifo, Fifo!FifoSpec

-----------------------------------------------------------------------------
\* The frames in the queue, and that none is there twice.
InQueue == {Contents[i] : i \in 1..length}
NoDuplicate == \A i, j \in 1..length : Contents[i] = Contents[j] => i = j

\* dequeue_internal takes the oldest frame out of the set of queued frames.
LEMMA InQueueTail ==
    ASSUME IndInv, length # 0, DequeueInternal, NoDuplicate
    PROVE  /\ queue[start] \in InQueue
           /\ InQueue' = InQueue \ {queue[start]}
           /\ NoDuplicate'
<1>1. /\ Contents \in Seq(Frames) /\ Len(Contents) = length
      /\ Contents # << >> /\ queue[start] = Contents[1] /\ Contents' = Tail(Contents)
      /\ length \in Nat /\ length' = length - 1 /\ 1 \in 1..length
  BY ContentsSeq, ContentsTail DEF DequeueInternal, IndInv, TypeOK
<1>2. \A i \in 1..length' : i + 1 \in 1..length /\ Contents'[i] = Contents[i + 1]
  BY <1>1, HeadTailProperties
<1>3. queue[start] \in InQueue
  BY <1>1 DEF InQueue
<1>4. NoDuplicate'
  <2> SUFFICES ASSUME NEW i \in 1..length', NEW j \in 1..length',
                      Contents'[i] = Contents'[j]
               PROVE  i = j
    BY DEF NoDuplicate
  <2>1. i + 1 = j + 1
    BY <1>2 DEF NoDuplicate
  <2> QED BY <2>1
<1>5. InQueue' \subseteq InQueue \ {queue[start]}
  <2> SUFFICES ASSUME NEW i \in 1..length'
               PROVE  Contents'[i] \in InQueue /\ Contents'[i] # queue[start]
    BY DEF InQueue
  <2>1. i + 1 \in 1..length /\ i + 1 # 1
    BY <1>2
  <2> QED BY <1>1, <1>2, <2>1 DEF InQueue, NoDuplicate
<1>6. InQueue \ {queue[start]} \subseteq InQueue'
  <2> SUFFICES ASSUME NEW i \in 1..length, Contents[i] # queue[start]
               PROVE  Contents[i] \in InQueue'
    BY DEF InQueue
  <2>1. i - 1 \in 1..length' /\ (i - 1) + 1 = i
    BY <1>1
  <2> QED BY <1>2, <2>1 DEF InQueue
<1> QED BY <1>3, <1>4, <1>5, <1>6

\* enqueue adds the new frame to the set of queued frames.
LEMMA InQueueAppend ==
    ASSUME IndInv, NEW p \in Producers, EnqueueInsert(p), NoDuplicate,
           hold[p] \notin InQueue
    PROVE  InQueue' = InQueue \cup {hold[p]} /\ NoDuplicate'
<1>1. /\ Contents \in Seq(Frames) /\ Len(Contents) = length
      /\ Contents' = Append(Contents, hold[p]) /\ hold[p] \in Frames
      /\ length \in Nat /\ length' = length + 1
  <2>1. hold[p] \in Frames /\ length \in Nat /\ length' = length + 1
    BY QueueAssumption DEF EnqueueInsert, IndInv, TypeOK
  <2> QED BY <2>1, ContentsSeq, ContentsAppend
<1>2. \A i \in 1..length : i \in 1..length' /\ Contents'[i] = Contents[i]
  BY <1>1, AppendProperties
<1>3. length' \in 1..length' /\ Contents'[length'] = hold[p]
  BY <1>1, AppendProperties
<1>4. \A i \in 1..length' : i = length' \/ i \in 1..length
  BY <1>1
<1>5. InQueue' = InQueue \cup {hold[p]}
  BY <1>2, <1>3, <1>4 DEF InQueue
<1>6. NoDuplicate'
  <2> SUFFICES ASSUME NEW i \in 1..length', NEW j \in 1..length',
                      Contents'[i] = Contents'[j]
               PROVE  i = j
    BY DEF NoDuplicate
  <2>1. \A k \in 1..length : Contents'[k] # hold[p]
    BY <1>2 DEF InQueue
  <2> QED BY <1>2, <1>3, <1>4, <2>1 DEF NoDuplicate
<1> QED BY <1>5, <1>6

\* The frames held by threads when only thread t's changes.
LEMMA HeldBy ==
    ASSUME TypeOK, NEW t \in Threads, NEW f \in Frames \cup {NoFrame},
           hold' = [hold EXCEPT ![t] = f]
    PROVE  hold'[t] = f /\ \A u \in Threads : u # t => hold'[u] = hold[u]
BY DEF TypeOK

\* Every step preserves the ownership of frames.
LEMMA OwnershipNext == IndInv /\ Ownership /\ [Next]_vars => Ownership'
<1> SUFFICES ASSUME IndInv, Ownership, [Next]_vars, ~destroyed' PROVE Ownership'
  BY DEF Ownership
<1> USE QueueAssumption
<1> DEFINE Held == {hold[t] : t \in Threads} \ {NoFrame}
           One == \A t, u \in Threads : hold[t] = hold[u] /\ t # u => hold[t] = NoFrame
           Own == /\ live = InQueue \cup Held /\ InQueue \cap Held = {}
                  /\ NoDuplicate /\ One
<1>0. ~destroyed
  BY DEF Next, Enqueue, Dequeue, Finished, vars, ring, CallEnqueue, EnqueueLock, EnqueueBlock,
         EnqueueDropOldest, EnqueueDropNewest, EnqueueInsert, EnqueueSignal, CallDequeue,
         DequeueLock, DequeueWait, DequeueTake, DequeueSignal, DestroyFrame,
         SpuriousWakeup, Destroy, Acquire, CondWait, BroadcastAndUnlock
<1>own. Own
  BY <1>0 DEF Ownership, InQueue, NoDuplicate
<1>goal. ASSUME Own' PROVE Ownership'
  BY <1>goal DEF Ownership, InQueue, NoDuplicate
<1>type. /\ TypeOK
         /\ \A p \in Producers :
              hold[p] \in Frames <=> pc[p] \in {"enq_lock", "enq_test", "wait_full"}
         /\ \A c \in Consumers : hold[c] \in Frames <=> pc[c] \in {"deq_signal", "use"}
  BY DEF IndInv
<1>s. ASSUME UNCHANGED <<ring, hold, live>> PROVE Own'
  BY <1>s, <1>own DEF ring, InQueue, NoDuplicate, Contents, Slot
<1>r. ASSUME UNCHANGED ring PROVE InQueue' = InQueue /\ (NoDuplicate' <=> NoDuplicate)
  BY <1>r DEF ring, InQueue, NoDuplicate, Contents, Slot
<1> HIDE DEF Own
<1>1. ASSUME NEW p \in Producers, NEW f \in Frames, CallEnqueue(p, f) PROVE Own'
  <2>1. p \in Threads /\ hold[p] = NoFrame
    BY <1>1, <1>type DEF CallEnqueue, TypeOK, Threads
  <2>2. hold'[p] = f /\ \A u \in Threads : u # p => hold'[u] = hold[u]
    BY <1>1, <1>type, <2>1, HeldBy DEF CallEnqueue
  <2>3. f \notin InQueue /\ f \notin Held /\ f # NoFrame
    BY <1>1, <1>own DEF CallEnqueue, Own
  <2>4. Held' = Held \cup {f}
    BY <2>1, <2>2, <2>3
  <2>5. One'
    BY <2>1, <2>2, <2>3, <1>own DEF Own
  <2> QED BY <1>1, <1>own, <1>r, <2>3, <2>4, <2>5 DEF CallEnqueue, Own
<1>2. ASSUME NEW p \in Producers, EnqueueDropOldest(p) PROVE Own'
  <2>1. length # 0
    BY <1>2, <1>type DEF EnqueueDropOldest, QueueFull, TypeOK
  <2>2. /\ queue[start] \in InQueue /\ InQueue' = InQueue \ {queue[start]}
        /\ NoDuplicate'
    BY <1>2, <1>own, <2>1, InQueueTail DEF EnqueueDropOldest, Own
  <2>3. Held' = Held /\ (One' <=> One)
    BY <1>2 DEF EnqueueDropOldest
  <2> QED BY <1>2, <1>own, <2>2, <2>3 DEF EnqueueDropOldest, Own
<1>3. ASSUME NEW p \in Producers, EnqueueDropNewest(p) PROVE Own'
  <2>1. p \in Threads /\ hold[p] \in Frames
    BY <1>3, <1>type DEF EnqueueDropNewest, Threads
  <2>2. hold'[p] = NoFrame /\ \A u \in Threads : u # p => hold'[u] = hold[u]
    BY <1>3, <1>type, <2>1, HeldBy DEF EnqueueDropNewest
  <2>3. Held' = Held \ {hold[p]} /\ One' /\ hold[p] \in Held
    BY <2>1, <2>2, <1>own DEF Own
  <2> QED BY <1>3, <1>own, <1>r, <2>3 DEF EnqueueDropNewest, Own
<1>4. ASSUME NEW p \in Producers, EnqueueInsert(p) PROVE Own'
  <2>1. p \in Threads /\ hold[p] \in Frames
    BY <1>4, <1>type DEF EnqueueInsert, Threads
  <2>2. hold'[p] = NoFrame /\ \A u \in Threads : u # p => hold'[u] = hold[u]
    BY <1>4, <1>type, <2>1, HeldBy DEF EnqueueInsert
  <2>3. Held' = Held \ {hold[p]} /\ One' /\ hold[p] \in Held
    BY <2>1, <2>2, <1>own DEF Own
  <2>4. InQueue' = InQueue \cup {hold[p]} /\ NoDuplicate'
    BY <1>4, <1>own, <2>3, InQueueAppend DEF Own
  <2> QED BY <1>4, <1>own, <2>3, <2>4 DEF EnqueueInsert, Own
<1>5. ASSUME NEW c \in Consumers, DequeueTake(c) PROVE Own'
  <2>1. c \in Threads /\ hold[c] = NoFrame /\ queue[start] \in Frames
    BY <1>5, <1>type, DequeueInternalRing DEF DequeueTake, TypeOK, Threads
  <2>2. hold'[c] = queue[start] /\ \A u \in Threads : u # c => hold'[u] = hold[u]
    BY <1>5, <1>type, <2>1, HeldBy DEF DequeueTake
  <2>3. /\ queue[start] \in InQueue /\ InQueue' = InQueue \ {queue[start]}
        /\ NoDuplicate'
    BY <1>5, <1>own, InQueueTail DEF DequeueTake, Own
  <2>4. queue[start] \notin Held
    BY <1>own, <2>3 DEF Own
  <2>5. Held' = Held \cup {queue[start]}
    BY <2>1, <2>2, <2>4
  <2>6. One'
    BY <2>1, <2>2, <2>4, <1>own DEF Own
  <2> QED BY <1>5, <1>own, <2>3, <2>4, <2>5, <2>6 DEF DequeueTake, Own
<1>6. ASSUME NEW c \in Consumers, DestroyFrame(c) PROVE Own'
  <2>1. c \in Threads /\ hold[c] \in Frames
    BY <1>6, <1>type DEF DestroyFrame, Threads
  <2>2. hold'[c] = NoFrame /\ \A u \in Threads : u # c => hold'[u] = hold[u]
    BY <1>6, <1>type, <2>1, HeldBy DEF DestroyFrame
  <2>3. Held' = Held \ {hold[c]} /\ One' /\ hold[c] \in Held
    BY <2>1, <2>2, <1>own DEF Own
  <2> QED BY <1>6, <1>own, <1>r, <2>3 DEF DestroyFrame, Own
<1>7. ASSUME NEW p \in Producers,
             EnqueueLock(p) \/ EnqueueBlock(p) \/ EnqueueSignal(p)
      PROVE  Own'
  BY <1>7, <1>s DEF EnqueueLock, EnqueueBlock, EnqueueSignal, Acquire, CondWait,
                    BroadcastAndUnlock
<1>8. ASSUME NEW c \in Consumers,
             CallDequeue(c) \/ DequeueLock(c) \/ DequeueWait(c) \/ DequeueSignal(c)
      PROVE  Own'
  BY <1>8, <1>s DEF CallDequeue, DequeueLock, DequeueWait, DequeueSignal, Acquire,
                    CondWait, BroadcastAndUnlock
<1>9. ASSUME NEW t \in Threads, SpuriousWakeup(t) PROVE Own'
  BY <1>9, <1>s DEF SpuriousWakeup
<1>10. ASSUME UNCHANGED vars PROVE Own'
  BY <1>10, <1>s DEF vars
<1>11. ~Destroy
  BY DEF Destroy
<1> QED
  BY <1>goal, <1>1, <1>2, <1>3, <1>4, <1>5, <1>6, <1>7, <1>8, <1>9, <1>10, <1>11
     DEF Next, Enqueue, Dequeue, Finished

\* Every frame has exactly one owner at all times: the queue, or the thread
\* that is handing it over or was given it.
THEOREM FramesOwnedOnce == Spec => []Ownership
<1>1. Init => Ownership
  BY QueueAssumption DEF Init, Ownership, Contents
<1> QED BY <1>1, InitInv, NextInv, OwnershipNext, PTL DEF Spec
=============================================================================
