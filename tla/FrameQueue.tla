------------------------------ MODULE FrameQueue ------------------------------
(***************************************************************************)
(* The frame queue between two stages of the collector (frame_queue.c):    *)
(* a ring of frame pointers guarded by one mutex and two condition         *)
(* variables.  Producers run dns_frame_queue_enqueue, consumers            *)
(* dns_frame_queue_dequeue, at the granularity of the pthread calls: a     *)
(* step is what a thread does between two of them.                         *)
(*                                                                         *)
(* Frames are identities; live is the set of the allocated ones, and       *)
(* hold[t] the frame pointer in the local variable f of thread t.          *)
(***************************************************************************)
EXTENDS Integers, Sequences, FiniteSetsExt

CONSTANTS Producers, Consumers, \* the threads on either side of the queue
          Frames,               \* identities of frames
          Size,                 \* the size field of each frame
          Capacity,             \* dns_frame_queue.capacity
          NoFrame, NoThread

Threads == Producers \cup Consumers

\* dns_collector_conf_commit refuses max_queue_len < 1; the two sides are different
\* threads; the null values are no frame and no thread.
ASSUME QueueAssumption == /\ Capacity \in Nat \ {0}
                          /\ Size \in [Frames -> Nat]
                          /\ Producers \cap Consumers = {}
                          /\ NoFrame \notin Frames
                          /\ NoThread \notin Threads

VARIABLES queue, start, length, total_size, on_full, \* struct dns_frame_queue
          mutex,   \* the thread holding the mutex
          pc,      \* where each thread is
          hold,    \* each thread's frame
          live,    \* the allocated frames
          destroyed

ring == <<queue, start, length, total_size>>
vars == <<ring, on_full, mutex, pc, hold, live, destroyed>>

Slots == 0..(Capacity - 1)
Policies == {"BLOCK", "DROP_NEWEST", "DROP_OLDEST"}
ProducerPC == {"idle", "enq_lock", "enq_test", "wait_full", "enq_signal"}
ConsumerPC == {"idle", "deq_lock", "deq_test", "wait_empty", "deq_signal", "use"}

WaitingFull == {t \in Producers : pc[t] = "wait_full"}
WaitingEmpty == {t \in Consumers : pc[t] = "wait_empty"}

Slot(i) == (start + i) % Capacity

\* The frames in the queue, oldest first.
Contents == [i \in 1..length |-> queue[Slot(i - 1)]]

Init == /\ queue = [i \in Slots |-> NoFrame]
        /\ start = 0 /\ length = 0 /\ total_size = 0
        /\ on_full \in Policies
        /\ mutex = NoThread
        /\ pc = [t \in Threads |-> "idle"]
        /\ hold = [t \in Threads |-> NoFrame]
        /\ live = {}
        /\ destroyed = FALSE

Goto(t, l) == pc' = [pc EXCEPT ![t] = l]

\* pthread_mutex_lock, also the one inside a pthread_cond_wait that returns.
Acquire(t, from, to) == /\ pc[t] = from /\ mutex = NoThread
                        /\ mutex' = t /\ Goto(t, to)
                        /\ UNCHANGED <<ring, on_full, hold, live, destroyed>>

\* pthread_cond_wait gives up the mutex in the same step it starts to wait.
CondWait(t, at) == /\ mutex' = NoThread /\ Goto(t, at)
                   /\ UNCHANGED <<ring, on_full, hold, live, destroyed>>

\* pthread_cond_broadcast and pthread_mutex_unlock, with which both functions
\* end.
BroadcastAndUnlock(t, to, waiters, wakeTo) ==
    /\ pc' = [u \in Threads |-> IF u = t THEN to
                                ELSE IF u \in waiters THEN wakeTo ELSE pc[u]]
    /\ mutex' = NoThread
    /\ UNCHANGED <<ring, on_full, hold, live, destroyed>>

\* POSIX lets pthread_cond_wait return without a signal.
SpuriousWakeup(t) == /\ \/ pc[t] = "wait_full" /\ Goto(t, "enq_lock")
                        \/ pc[t] = "wait_empty" /\ Goto(t, "deq_lock")
                     /\ UNCHANGED <<ring, on_full, mutex, hold, live, destroyed>>

-----------------------------------------------------------------------------
\* Faulty: the start index does not wrap.
DequeueInternalNoWrap == /\ start' = start + 1
                         /\ length' = length - 1
                         /\ total_size' = total_size - Size[queue[start]]
                         /\ UNCHANGED queue

\* Faulty: the size of the frame is not given back.
DequeueInternalKeepsSize == /\ start' = (start + 1) % Capacity
                            /\ length' = length - 1
                            /\ UNCHANGED <<queue, total_size>>

\* dns_frame_queue_dequeue_internal
DequeueInternal == /\ start' = (start + 1) % Capacity
                   /\ length' = length - 1
                   /\ total_size' = total_size - Size[queue[start]]
                   /\ UNCHANGED queue

\* A producer allocates a frame and calls dns_frame_queue_enqueue with it.
CallEnqueue(p, f) == /\ ~destroyed /\ pc[p] = "idle" /\ f \notin live
                     /\ live' = live \cup {f}
                     /\ hold' = [hold EXCEPT ![p] = f]
                     /\ Goto(p, "enq_lock")
                     /\ UNCHANGED <<ring, on_full, mutex, destroyed>>

EnqueueLock(p) == Acquire(p, "enq_lock", "enq_test")

QueueFull == length + 1 > Capacity

\* The body of the while loop, one action per policy.
EnqueueBlock(p) == /\ pc[p] = "enq_test" /\ QueueFull /\ on_full = "BLOCK"
                   /\ CondWait(p, "wait_full")

\* Faulty: the oldest frame is dropped but not freed.
EnqueueDropOldestLeaks(p) == /\ pc[p] = "enq_test" /\ QueueFull
                             /\ on_full = "DROP_OLDEST"
                             /\ DequeueInternal
                             /\ UNCHANGED <<on_full, mutex, pc, hold, live, destroyed>>

EnqueueDropOldest(p) == /\ pc[p] = "enq_test" /\ QueueFull
                        /\ on_full = "DROP_OLDEST"
                        /\ DequeueInternal
                        /\ live' = live \ {queue[start]}
                        /\ UNCHANGED <<on_full, mutex, pc, hold, destroyed>>

EnqueueDropNewest(p) == /\ pc[p] = "enq_test" /\ QueueFull
                        /\ on_full = "DROP_NEWEST"
                        /\ live' = live \ {hold[p]}
                        /\ hold' = [hold EXCEPT ![p] = NoFrame]
                        /\ Goto(p, "enq_signal")
                        /\ UNCHANGED <<ring, on_full, mutex, destroyed>>

\* Faulty: the slot is counted from the start of the array, not of the ring.
EnqueueInsertUnshifted(p) == /\ pc[p] = "enq_test" /\ ~QueueFull
                             /\ queue' = [queue EXCEPT ![length] = hold[p]]
                             /\ length' = length + 1
                             /\ total_size' = total_size + Size[hold[p]]
                             /\ hold' = [hold EXCEPT ![p] = NoFrame]
                             /\ Goto(p, "enq_signal")
                             /\ UNCHANGED <<start, on_full, mutex, live, destroyed>>

EnqueueInsert(p) == /\ pc[p] = "enq_test" /\ ~QueueFull
                    /\ queue' = [queue EXCEPT ![Slot(length)] = hold[p]]
                    /\ length' = length + 1
                    /\ total_size' = total_size + Size[hold[p]]
                    /\ hold' = [hold EXCEPT ![p] = NoFrame]
                    /\ Goto(p, "enq_signal")
                    /\ UNCHANGED <<start, on_full, mutex, live, destroyed>>

\* Faulty: no broadcast after an insert.
EnqueueUnlockOnly(p) == /\ pc[p] = "enq_signal"
                        /\ BroadcastAndUnlock(p, "idle", {}, "deq_lock")

EnqueueSignal(p) == /\ pc[p] = "enq_signal"
                    /\ BroadcastAndUnlock(p, "idle", WaitingEmpty, "deq_lock")

-----------------------------------------------------------------------------
CallDequeue(c) == /\ ~destroyed /\ pc[c] = "idle"
                  /\ Goto(c, "deq_lock")
                  /\ UNCHANGED <<ring, on_full, mutex, hold, live, destroyed>>

DequeueLock(c) == Acquire(c, "deq_lock", "deq_test")

DequeueWait(c) == /\ pc[c] = "deq_test" /\ length = 0
                  /\ CondWait(c, "wait_empty")

DequeueTake(c) == /\ pc[c] = "deq_test" /\ length # 0
                  /\ DequeueInternal
                  /\ hold' = [hold EXCEPT ![c] = queue[start]]
                  /\ Goto(c, "deq_signal")
                  /\ UNCHANGED <<on_full, mutex, live, destroyed>>

\* Faulty: no broadcast after making room.
DequeueUnlockOnly(c) == /\ pc[c] = "deq_signal"
                        /\ BroadcastAndUnlock(c, "use", {}, "enq_lock")

DequeueSignal(c) == /\ pc[c] = "deq_signal"
                    /\ BroadcastAndUnlock(c, "use", WaitingFull, "enq_lock")

\* The caller of dns_frame_queue_dequeue is done with the frame: both workers
\* hand its packets on and call dns_packet_frame_destroy.
DestroyFrame(c) == /\ pc[c] = "use"
                   /\ live' = live \ {hold[c]}
                   /\ hold' = [hold EXCEPT ![c] = NoFrame]
                   /\ Goto(c, "idle")
                   /\ UNCHANGED <<ring, on_full, mutex, destroyed>>

\* dns_frame_queue_destroy, once no thread uses the queue.  The loop frees the
\* slots 0 .. length - 1, wherever the ring starts.
Destroy == /\ ~destroyed /\ \A t \in Threads : pc[t] = "idle"
           /\ live' = live \ {queue[i] : i \in 0..(length - 1)}
           /\ destroyed' = TRUE
           /\ UNCHANGED <<ring, on_full, mutex, pc, hold>>

Finished == destroyed /\ UNCHANGED vars

Enqueue(p) == \/ EnqueueLock(p) \/ EnqueueBlock(p) \/ EnqueueDropOldest(p)
              \/ EnqueueDropNewest(p) \/ EnqueueInsert(p) \/ EnqueueSignal(p)

Dequeue(c) == \/ DequeueLock(c) \/ DequeueWait(c) \/ DequeueTake(c)
              \/ DequeueSignal(c) \/ DestroyFrame(c)

Next == \/ \E p \in Producers : Enqueue(p) \/ \E f \in Frames : CallEnqueue(p, f)
        \/ \E c \in Consumers : Dequeue(c) \/ CallDequeue(c)
        \/ \E t \in Threads : SpuriousWakeup(t)
        \/ Destroy
        \/ Finished

Spec == Init /\ [][Next]_vars
-----------------------------------------------------------------------------
\* Every variable has the type of the C object it stands for; start and length
\* stay within the ring, although enqueue and dequeue_internal move them around it.
TypeOK == /\ queue \in [Slots -> Frames \cup {NoFrame}]
          /\ start \in Slots /\ length \in 0..Capacity
          /\ total_size \in Int
          /\ on_full \in Policies
          /\ mutex \in Threads \cup {NoThread}
          /\ pc \in [Threads -> ProducerPC \cup ConsumerPC]
          /\ hold \in [Threads -> Frames \cup {NoFrame}]
          /\ live \subseteq Frames
          /\ destroyed \in BOOLEAN

\* Every allocated frame is in exactly one place (a slot of the queue, or the
\* one thread that owns it) and neither holds a freed one: enqueue hands the
\* frame over, dequeue gives it out once, and the two drop policies free
\* exactly the frame they take away.  Nothing leaks, nothing is freed twice.
Ownership ==
    ~destroyed =>
      LET inQueue == {Contents[i] : i \in 1..length}
          held == {hold[t] : t \in Threads} \ {NoFrame}
      IN  /\ live = inQueue \cup held
          /\ inQueue \cap held = {}
          /\ \A i, j \in 1..length : Contents[i] = Contents[j] => i = j
          /\ \A t, u \in Threads : hold[t] = hold[u] /\ t # u => hold[t] = NoFrame

\* total_size, which dequeue_internal and enqueue only adjust by one frame's
\* size, is the sum of the sizes of the frames in the queue.
TotalSizeIsSum ==
    total_size = MapThenSumSet(LAMBDA i : Size[Contents[i]], 1..length)

\* No wakeup is missed.  A producer waits on full_cond only while the queue is
\* full, or a consumer that made room is about to broadcast; a consumer waits
\* on empty_cond only while the queue is empty, or a producer that put a frame
\* is about to broadcast.
NoMissedWakeup ==
    /\ WaitingFull # {} => \/ length = Capacity
                           \/ \E c \in Consumers : pc[c] = "deq_signal"
    /\ WaitingEmpty # {} => \/ length = 0
                            \/ \E p \in Producers : pc[p] = "enq_signal"

\* A thread is between its lock and its unlock or wait exactly while it holds
\* the mutex, so a step on the ring never meets another thread's.
LockDiscipline ==
    \A t \in Threads :
        mutex = t <=> pc[t] \in {"enq_test", "enq_signal", "deq_test", "deq_signal"}

\* Why the properties above hold.  Producers run enqueue and consumers dequeue;
\* where a thread is says whether it owns a frame; the slots in use hold
\* frames; only a blocking queue has producers waiting.
IndInv ==
    /\ TypeOK /\ LockDiscipline /\ NoMissedWakeup
    /\ \A p \in Producers :
         /\ pc[p] \in ProducerPC
         /\ hold[p] \in Frames <=> pc[p] \in {"enq_lock", "enq_test", "wait_full"}
         /\ pc[p] = "wait_full" => on_full = "BLOCK"
    /\ \A c \in Consumers :
         /\ pc[c] \in ConsumerPC
         /\ hold[c] \in Frames <=> pc[c] \in {"deq_signal", "use"}
    /\ \A i \in 0..(length - 1) : queue[Slot(i)] \in Frames

Fifo == INSTANCE FifoQueue WITH items <- Contents, held <- hold

\* The ring buffer with its locking implements the bounded FIFO queue: frames
\* come out in the order they went in, and only a full queue drops one, the
\* one its on_full policy names.
ImplementsFifo == Fifo!FifoSpec

-----------------------------------------------------------------------------
\* A thread that can run does, the consumer always asks for the next frame
\* (the loops of both workers), and pthread_cond_wait does not return
\* spuriously for ever.
Fairness == /\ \A p \in Producers : WF_vars(Enqueue(p))
            /\ \A c \in Consumers : WF_vars(Dequeue(c) \/ CallDequeue(c))
            /\ <>[][\A t \in Threads : ~SpuriousWakeup(t)]_vars

LiveSpec == Spec /\ Fairness

\* Nobody sleeps for ever.  With one producer, as main.c builds it, every enqueue
\* returns, however many consumers compete; and as the collector's queues block
\* when full, a frame does not stay in the queue beside sleeping consumers: one
\* of them takes it, or it is freed with the queue.
FramesFlow ==
    /\ \A p \in Producers : pc[p] = "enq_lock" ~> pc[p] = "idle"
    /\ \A f \in Frames :
         on_full = "BLOCK" /\ (\E i \in 1..length : Contents[i] = f)
             ~> destroyed \/ \E c \in Consumers : hold[c] = f
=============================================================================
