------------------------------ MODULE FifoQueue ------------------------------
(***************************************************************************)
(* What a frame queue promises to its users (frame_queue.h): a bounded     *)
(* first-in first-out queue that owns the frames put into it.  There are   *)
(* no slots, mutexes or condition variables here; FrameQueue implements    *)
(* this specification.                                                     *)
(*                                                                         *)
(* held[t] is the frame thread t owns: the one a producer is handing over, *)
(* or the one a consumer was given.                                        *)
(***************************************************************************)
EXTENDS Integers, Sequences

CONSTANTS Producers, Consumers, Frames, Capacity, NoFrame

VARIABLES items, held, on_full

fifoVars == <<items, held, on_full>>

Full == Len(items) = Capacity

FifoInit == /\ items = << >>
            /\ held = [t \in Producers \cup Consumers |-> NoFrame]
            /\ on_full \in {"BLOCK", "DROP_NEWEST", "DROP_OLDEST"}

Offer(p, f) == /\ held[p] = NoFrame
               /\ held' = [held EXCEPT ![p] = f]
               /\ UNCHANGED <<items, on_full>>

Put(p) == /\ held[p] # NoFrame
          /\ ~Full
          /\ items' = Append(items, held[p])
          /\ held' = [held EXCEPT ![p] = NoFrame]
          /\ UNCHANGED on_full

\* Only a full queue loses a frame, and only the one its policy names.
DropOldest(p) == /\ on_full = "DROP_OLDEST" /\ Full /\ held[p] # NoFrame
                 /\ items' = Tail(items)
                 /\ UNCHANGED <<held, on_full>>

DropNewest(p) == /\ on_full = "DROP_NEWEST" /\ Full /\ held[p] # NoFrame
                 /\ held' = [held EXCEPT ![p] = NoFrame]
                 /\ UNCHANGED <<items, on_full>>

Take(c) == /\ held[c] = NoFrame
           /\ items # << >>
           /\ held' = [held EXCEPT ![c] = Head(items)]
           /\ items' = Tail(items)
           /\ UNCHANGED on_full

Release(c) == /\ held[c] # NoFrame
              /\ held' = [held EXCEPT ![c] = NoFrame]
              /\ UNCHANGED <<items, on_full>>

FifoNext == \/ \E p \in Producers : \/ \E f \in Frames : Offer(p, f)
                                    \/ Put(p) \/ DropOldest(p) \/ DropNewest(p)
            \/ \E c \in Consumers : Take(c) \/ Release(c)

FifoSpec == FifoInit /\ [][FifoNext]_fifoVars
=============================================================================
