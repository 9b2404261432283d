------------------------- MODULE PacketMatcherProofs -------------------------
(***************************************************************************)
(* The packet matcher, for every set of keys and names, every input, and   *)
(* every value of the durations and limits.  None of the packets is lost   *)
(* or put out twice, the hash table holds the requests still waiting, a    *)
(* response is attached to a request it answers, the output frames tile    *)
(* time, and nothing is left at the end.  The inductive invariant comes in *)
(* layers: what is loaded (Reading), where every packet is (Placing), and  *)
(* how the queue and the output frames follow the clock (Framing and       *)
(* Draining).  The order of the packets is in PacketOrderProofs.           *)
(***************************************************************************)
EXTENDS PacketMatcher, SequenceLemmas, Handover

\* A frame is loaded between dns_worker_packet_matcher_next_packet taking it
\* from the queue and destroying it.
Loaded == LET at == IF pc = "advance" THEN return ELSE pc
          IN  at \in {"read", "handle", "unload"}

\* What is loaded: the packets still to read are the last ones numbered, and cur
\* is the one before them until it is handled.
Reading ==
    /\ inframe # NoFrame <=> Loaded
    /\ Loaded => current_time # NoTime
    /\ current_time = NoTime => packet_queue = << >>
    /\ pc = "advance" => return \in {"read", "handle", "unload", "flush"}
    /\ pc \in {"final", "done"} => outframe = NoFrame
    /\ pc = "unload" \/ (pc = "advance" /\ return = "unload") => inframe.packets = << >>
    /\ Loaded => \A i \in 1..Len(inframe.packets) :
                     inframe.packets[i] = Len(pkt) - Len(inframe.packets) + i
    /\ Loaded => Len(inframe.packets) <= Len(pkt)
    /\ Holding => cur = Len(pkt) - Len(inframe.packets) /\ cur >= 1

Inv1 == TypeOK /\ Reading

\* A step of the thread, or of what is around it: the input may deliver any frame.
Move == Step \/ Take \/ (\E f \in InputFrame : Dequeue(f)) \/ UNCHANGED vars

\* Most steps are of first-order logic and sets, which Zenon settles faster than SMT.
USE Zenon, SMTT(30)
-----------------------------------------------------------------------------
\* A search in a list finds nothing or a place of what it looks for.
LEMMA FirstInFacts ==
    ASSUME NEW S, NEW s \in Seq(S), NEW A
    PROVE  /\ FirstIn(s, A) \in 0..Len(s) /\ Len(s) \in Nat
           /\ FirstIn(s, A) # 0 => s[FirstIn(s, A)] \in A
<1> DEFINE I == {i \in 1..Len(s) : s[i] \in A /\ \A j \in 1..(i - 1) : s[j] \notin A}
<1>1. FirstIn(s, A) = IF I = {} THEN 0 ELSE CHOOSE i \in I : TRUE
  BY DEF FirstIn
<1>2. I # {} => (CHOOSE i \in I : TRUE) \in I
  OBVIOUS
<1>3. \A i \in I : i \in 1..Len(s) /\ s[i] \in A
  OBVIOUS
<1> HIDE DEF I
<1> QED BY SMTT(30), <1>1, <1>2, <1>3, LenFacts

\* What removing from a list leaves.
LEMMA WithoutParts ==
    ASSUME NEW S, NEW s \in Seq(S), NEW e, NEW n, n = FirstIn(s, {e})
    PROVE  /\ Without(s, e) \in Seq(S)
           /\ n # 0 => /\ Len(Without(s, e)) = Len(s) - 1
                       /\ \A i \in 1..(Len(s) - 1) :
                            Without(s, e)[i] = IF i < n THEN s[i] ELSE s[i + 1]
<1> DEFINE k == n + 1
           l == n - 1
           m == Len(s)
           a == SubSeq(s, 1, l)
           b == SubSeq(s, k, m)
<1>1. n \in 0..m /\ m \in Nat
  BY FirstInFacts
<1>2. Without(s, e) = a \o b
  BY DEF Without
<1>3. /\ b \in Seq(S) /\ Len(b) = m - k + 1 /\ \A i \in 1..(m - k + 1) : b[i] = s[k + i - 1]
  <2>1. k \in 1..(m + 1)
    <3> HIDE DEF m
    <3> QED BY <1>1
  <2> HIDE DEF k
  <2> QED BY <2>1, SuffixFacts
<1>4. CASE n = 0
  <2>1. a = << >> /\ << >> \in Seq(S)
    BY <1>4
  <2> HIDE DEF a, b
  <2>2. a \o b \in Seq(S)
    BY <2>1, <1>3, ConcatFacts
  <2> QED BY <2>2, <1>2, <1>4
<1>5. CASE n # 0
  <2>1. a \in Seq(S) /\ Len(a) = l /\ \A i \in 1..l : a[i] = s[i]
    <3>1. l \in 0..m
      <4> HIDE DEF m
      <4> QED BY <1>1, <1>5
    <3> HIDE DEF l
    <3> QED BY <3>1, PrefixFacts
  <2> HIDE DEF a, b, m
  <2>2. /\ a \o b \in Seq(S) /\ Len(a \o b) = l + (m - k + 1)
        /\ \A i \in 1..(l + (m - k + 1)) : (a \o b)[i] = IF i <= l THEN a[i] ELSE b[i - l]
    <3>1. /\ a \o b \in Seq(S) /\ Len(a \o b) = Len(a) + Len(b)
          /\ \A i \in 1..(Len(a) + Len(b)) :
               (a \o b)[i] = IF i <= Len(a) THEN a[i] ELSE b[i - Len(a)]
      BY <2>1, <1>3, ConcatFacts
    <3> HIDE DEF l, k
    <3> QED BY <3>1, <2>1, <1>3
  <2>3. ASSUME NEW i \in 1..(m - 1)
        PROVE  (a \o b)[i] = IF i < n THEN s[i] ELSE s[i + 1]
    <3>1. i \in 1..(l + (m - k + 1)) /\ (i <= l <=> i < n)
      BY <1>1, <1>5
    <3>2. CASE i < n
      <4>1. i \in 1..l
        BY <3>2, <1>1
      <4> QED BY <4>1, <3>1, <3>2, <2>1, <2>2
    <3>3. CASE ~(i < n)
      <4>1. i - l \in 1..(m - k + 1) /\ k + (i - l) - 1 = i + 1
        BY <3>3, <1>1
      <4>2. b[i - l] = s[i + 1]
        BY <4>1, <1>3
      <4> QED BY <4>2, <3>1, <3>3, <2>2
    <3> QED BY <3>2, <3>3
  <2>4. l + (m - k + 1) = m - 1
    BY <1>1
  <2> QED BY <2>2, <2>3, <2>4, <1>2 DEF m
<1> QED BY <1>4, <1>5

\* Removing a request from a list closes the gap it leaves.
LEMMA WithoutPositions ==
    ASSUME NEW S, NEW s \in Seq(S), IsInjective(s), NEW e \in Range(s)
    PROVE  \E n \in 1..Len(s) :
               /\ s[n] = e
               /\ Without(s, e) \in Seq(S) /\ Len(Without(s, e)) = Len(s) - 1
               /\ \A i \in 1..(Len(s) - 1) :
                    Without(s, e)[i] = IF i < n THEN s[i] ELSE s[i + 1]
<1> DEFINE n == FirstIn(s, {e})
<1>1. PICK m \in 1..Len(s) : s[m] = e
  BY SMTT(30), RangeByPosition
<1>2. \A j \in 1..(m - 1) : s[j] \notin {e}
  <2>1. \A i, j \in 1..Len(s) : s[i] = s[j] => i = j
    BY RangeByPosition
  <2> QED BY SMTT(30), <1>1, <2>1, LenFacts
<1>3. n # 0
  <2>1. m \in {i \in 1..Len(s) : s[i] \in {e} /\ \A j \in 1..(i - 1) : s[j] \notin {e}}
    BY <1>1, <1>2
  <2>2. \A i \in 1..Len(s) : i # 0
    BY LenFacts
  <2> QED BY <2>1, <2>2 DEF FirstIn
<1> HIDE DEF n
<1>4. n = FirstIn(s, {e})
  BY DEF n
<1>5. n \in 1..Len(s) /\ s[n] = e
  BY <1>3, <1>4, FirstInFacts
<1> QED BY SMTT(30), <1>3, <1>4, <1>5, WithoutParts

\* Removing a request from a list takes out just this one.
LEMMA RangeWithout ==
    ASSUME NEW S, NEW s \in Seq(S), IsInjective(s), NEW e \in Range(s)
    PROVE  /\ Without(s, e) \in Seq(S)
           /\ Range(Without(s, e)) = Range(s) \ {e}
           /\ IsInjective(Without(s, e))
<1> DEFINE t == Without(s, e)
<1>1. PICK n \in 1..Len(s) :
           /\ s[n] = e /\ t \in Seq(S) /\ Len(t) = Len(s) - 1
           /\ \A i \in 1..(Len(s) - 1) : t[i] = IF i < n THEN s[i] ELSE s[i + 1]
  BY SMTT(30), WithoutPositions
<1> HIDE DEF t
<1>2. /\ Range(s) = {s[i] : i \in 1..Len(s)} /\ Range(t) = {t[i] : i \in 1..Len(t)}
      /\ \A i, j \in 1..Len(s) : s[i] = s[j] => i = j
  <2>1. Range(t) = {t[i] : i \in 1..Len(t)}
    BY <1>1, RangeByPosition
  <2> QED BY <2>1, RangeByPosition
<1>3. Len(s) \in Nat
  BY LenFacts
<1> DEFINE old(i) == IF i < n THEN i ELSE i + 1
<1>4. /\ \A i \in 1..Len(t) : old(i) \in 1..Len(s) /\ old(i) # n /\ t[i] = s[old(i)]
      /\ \A i, j \in 1..Len(t) : old(i) = old(j) => i = j
  BY <1>1, <1>3
<1>5. ASSUME NEW j \in 1..Len(s), j # n PROVE \E i \in 1..Len(t) : j = old(i)
  <2>1. CASE j < n
    <3>1. j \in 1..Len(t) /\ j = old(j)
      BY <2>1, <1>1, <1>3
    <3> QED BY <3>1
  <2>2. CASE ~(j < n)
    <3>1. j - 1 \in 1..Len(t) /\ j = old(j - 1)
      BY <2>2, <1>1, <1>3, <1>5
    <3> QED BY <3>1
  <2> QED BY <2>1, <2>2
<1> HIDE DEF old
<1>6. \A x \in Range(t) : x \in Range(s) \ {e}
  BY SMTT(30), <1>1, <1>2, <1>4
<1>7. ASSUME NEW x \in Range(s) \ {e} PROVE x \in Range(t)
  <2>1. PICK j \in 1..Len(s) : x = s[j]
    BY <1>2
  <2>2. j # n
    BY <2>1, <1>1
  <2>3. PICK i \in 1..Len(t) : j = old(i)
    BY <2>2, <1>5
  <2> QED BY SMTT(30), <2>1, <2>3, <1>2, <1>4
<1>8. IsInjective(t)
  <2>1. ASSUME NEW i \in 1..Len(t), NEW j \in 1..Len(t), t[i] = t[j] PROVE i = j
    BY <2>1, <1>2, <1>4
  <2> QED BY <2>1, <1>1, RangeByPosition
<1> QED BY <1>1, <1>6, <1>7, <1>8 DEF t

\* A sequence given by its elements.
LEMMA MakeSeq ==
    ASSUME NEW S, NEW n \in Nat, NEW s \in [1..n -> S]
    PROVE  s \in Seq(S) /\ Len(s) = n
OBVIOUS

\* What dequeuing an input frame does to the packets known: the new ones are
\* numbered after the old ones, which keep their data and their responses.
LEMMA FreshPackets ==
    ASSUME TypeOK, NEW f \in InputFrame, NEW nums,
           pkt' = pkt \o f.packets,
           response' = response \o [i \in 1..Len(f.packets) |-> 0],
           nums = [i \in 1..Len(f.packets) |-> Len(pkt) + i]
    PROVE  /\ Len(f.packets) \in Nat
           /\ pkt' \in Seq(Packet) /\ Len(pkt') = Len(pkt) + Len(f.packets)
           /\ \A i \in Ids : pkt'[i] = pkt[i] /\ response'[i] = response[i]
           /\ response' \in Seq(0..Len(pkt')) /\ Len(response') = Len(pkt')
           /\ \A i \in Ids' \ Ids : response'[i] = 0
           /\ nums \in Seq(Ids') /\ Len(nums) = Len(f.packets)
           /\ \A i \in 1..Len(nums) : nums[i] = Len(pkt) + i
           /\ Ids \subseteq Ids' /\ 0..Len(pkt) \subseteq 0..Len(pkt')
<1> DEFINE n == Len(f.packets)
           zeros == [i \in 1..n |-> 0]
<1>1. f.packets \in Seq(Packet) /\ n \in Nat /\ pkt \in Seq(Packet) /\ Len(pkt) \in Nat
  BY LenFacts DEF InputFrame, TypeOK
<1>2. /\ pkt' \in Seq(Packet) /\ Len(pkt') = Len(pkt) + n
      /\ \A i \in 1..Len(pkt) : pkt'[i] = pkt[i]
  <2>1. /\ pkt' \in Seq(Packet) /\ Len(pkt') = Len(pkt) + n
        /\ \A i \in 1..(Len(pkt) + n) :
             pkt'[i] = IF i <= Len(pkt) THEN pkt[i] ELSE f.packets[i - Len(pkt)]
    BY <1>1, ConcatFacts
  <2> QED BY <2>1, <1>1
<1>3. zeros \in Seq(0..Len(pkt')) /\ Len(zeros) = n
  <2>1. zeros \in [1..n -> 0..Len(pkt')]
    BY <1>1, <1>2
  <2> HIDE DEF zeros, n
  <2> QED BY <2>1, <1>1, MakeSeq
<1>4. response \in Seq(0..Len(pkt')) /\ Len(response) = Len(pkt)
  <2>1. 0..Len(pkt) \subseteq 0..Len(pkt')
    BY <1>1, <1>2
  <2> QED BY <2>1, SeqWider DEF TypeOK
<1>5. /\ response' \in Seq(0..Len(pkt')) /\ Len(response') = Len(pkt')
      /\ \A i \in 1..Len(pkt') : response'[i] = IF i <= Len(pkt) THEN response[i] ELSE 0
  <2>1. /\ response' \in Seq(0..Len(pkt')) /\ Len(response') = Len(pkt) + n
        /\ \A i \in 1..(Len(pkt) + n) :
             response'[i] = IF i <= Len(pkt) THEN response[i] ELSE zeros[i - Len(pkt)]
    <3>1. response' = response \o zeros
      OBVIOUS
    <3> HIDE DEF zeros
    <3>2. LET z == response \o zeros
          IN  /\ z \in Seq(0..Len(pkt')) /\ Len(z) = Len(response) + Len(zeros)
              /\ \A i \in 1..(Len(response) + Len(zeros)) :
                   z[i] = IF i <= Len(response) THEN response[i] ELSE zeros[i - Len(response)]
      BY ZenonT(30), <1>3, <1>4, ConcatFacts
    <3> QED BY <3>1, <3>2, <1>3, <1>4
  <2>2. ASSUME NEW i \in 1..Len(pkt'), ~(i <= Len(pkt)) PROVE zeros[i - Len(pkt)] = 0
    BY SMTT(30), <2>2, <1>1, <1>2
  <2> QED BY <2>1, <2>2, <1>2
<1>6. nums \in Seq(Ids') /\ Len(nums) = n
  <2>1. nums \in [1..n -> 1..Len(pkt')]
    BY <1>1, <1>2
  <2> HIDE DEF n
  <2>2. nums \in Seq(1..Len(pkt')) /\ Len(nums) = n
    BY SMTT(30), <2>1, <1>1, MakeSeq
  <2> QED BY <2>2 DEF Ids
<1> QED BY SMTT(30), <1>1, <1>2, <1>5, <1>6 DEF Ids

\* Init establishes the first layer.
LEMMA InitInv1 == Init => Inv1
<1> SUFFICES ASSUME Init PROVE Inv1
  OBVIOUS
<1>1. TypeOK
  BY MatcherAssumption DEF Init, TypeOK, Ids, Labels
<1>2. Reading
  BY DEF Init, Reading, Loaded, Holding
<1> QED BY <1>1, <1>2 DEF Inv1

\* The data of a packet.
LEMMA PacketType ==
    ASSUME TypeOK, NEW p \in Ids
    PROVE  /\ pkt[p] \in Packet /\ pkt[p].ts \in Int /\ pkt[p].key \in Keys
           /\ pkt[p].size \in Nat /\ pkt[p].request \in BOOLEAN
<1>1. pkt[p] \in Packet
  BY LenFacts DEF TypeOK, Ids
<1> QED BY <1>1 DEF Packet

\* The event time of a step of the loop of advance_time_to.
LEMMA EvTimeProperties ==
    ASSUME Inv1, pc = "advance"
    PROVE  /\ outframe \in Frame /\ outframe # NoFrame
           /\ current_time \in Int /\ target \in Int
           /\ Deadline \in Int /\ EvTime \in Int /\ EvTime <= Deadline
           /\ \A p \in Ids : pkt[p] \in Packet /\ ExitTime(p) \in Int
           /\ packet_queue # << >> => /\ Head(packet_queue) \in Ids
                                      /\ EvTime <= ExitTime(Head(packet_queue))
           /\ EvTime # Deadline => /\ packet_queue # << >>
                                   /\ EvTime = ExitTime(Head(packet_queue))
<1>1. outframe \in Frame /\ outframe # NoFrame
  BY DEF Inv1, TypeOK
<1>2. current_time \in Int /\ target \in Int
  BY DEF Inv1, TypeOK
<1>3. \A p \in Ids : pkt[p] \in Packet /\ ExitTime(p) \in Int
  <2>1. \A p \in Ids : pkt[p] \in Packet
    BY LenFacts DEF Inv1, TypeOK, Ids
  <2> QED BY SMTT(30), <2>1, MatcherAssumption DEF ExitTime, Packet
<1>4. packet_queue # << >> => Head(packet_queue) \in Ids
  BY HeadTailFacts DEF Inv1, TypeOK
<1>5. Deadline \in Int
  BY SMTT(30), <1>1, MatcherAssumption DEF Deadline, Frame
<1> QED BY <1>1, <1>2, <1>3, <1>4, <1>5 DEF EvTime

\* Appending a packet to a frame.
LEMMA AppendPacketType ==
    ASSUME pkt \in Seq(Packet), NEW frame \in Frame, NEW p \in Ids
    PROVE  AppendPacket(frame, p) \in Frame
<1>1. pkt[p] \in Packet
  BY LenFacts DEF Ids
<1>2. Append(frame.packets, p) \in Seq(Ids)
  BY AppendFacts DEF Frame
<1> DEFINE end == IF frame.time_end = NoTime \/ frame.time_end < pkt[p].ts
                  THEN pkt[p].ts ELSE frame.time_end
<1>3. end \in Int /\ frame.size + pkt[p].size \in Nat
  <2>1. /\ frame.time_end \in Int /\ frame.size \in Nat
        /\ pkt[p].ts \in Int /\ pkt[p].size \in Nat
    BY <1>1 DEF Frame, Packet
  <2> QED BY <2>1
<1>4. AppendPacket(frame, p) = [frame EXCEPT !.packets = Append(frame.packets, p),
                                             !.time_end = end,
                                             !.size = frame.size + pkt[p].size]
  BY DEF AppendPacket
<1> HIDE DEF end
<1> QED BY <1>2, <1>3, <1>4 DEF Frame

\* A new frame, and any frame put out.
LEMMA FrameTypes ==
    /\ \A t \in Int : NewFrame(t, t) \in Frame
    /\ \A f \in Frame : f \in OutFrame
    /\ \A t \in Int \cup {NoTime} : FinalFrame(t) \in OutFrame
    /\ NoFrame \notin Frame
<1>1. \A t \in Int : NewFrame(t, t) \in Frame
  <2>1. << >> \in Seq(Ids)
    OBVIOUS
  <2> QED BY <2>1 DEF NewFrame, Frame
<1>2. \A f \in Frame : f \in OutFrame
  BY DEF Frame, OutFrame
<1>3. \A t \in Int \cup {NoTime} : FinalFrame(t) \in OutFrame
  <2>1. << >> \in Seq(Ids)
    OBVIOUS
  <2> QED BY <2>1 DEF NewFrame, FinalFrame, OutFrame
<1>4. NoFrame \notin Frame
  <2>1. Seq(Ids) \subseteq Seq(Nat)
    <3>1. Ids \subseteq Nat
      BY DEF Ids
    <3> QED BY <3>1, SeqWider
  <2> QED BY <2>1, MatcherAssumption DEF Frame
<1> QED BY <1>1, <1>2, <1>3, <1>4

\* Only dequeuing a frame changes the numbers of the packets.
LEMMA SameTypes ==
    ASSUME pkt' = pkt
    PROVE  Ids' = Ids /\ Frame' = Frame /\ OutFrame' = OutFrame
BY DEF Ids, Frame, OutFrame

\* Putting a frame out.
LEMMA EnqueueType ==
    ASSUME TypeOK, pkt' = pkt, taken' = taken, NEW f \in OutFrame, Enqueue(f)
    PROVE  out' \in Seq(OutFrame') /\ taken' \in 0..Len(out')
<1>1. out \in Seq(OutFrame) /\ taken \in 0..Len(out) /\ OutFrame' = OutFrame /\ out' = Append(out, f)
  BY SameTypes DEF TypeOK, Enqueue
<1>2. out' \in Seq(OutFrame) /\ Len(out') = Len(out) + 1 /\ Len(out) \in Nat
  BY <1>1, AppendFacts, LenFacts
<1> QED BY <1>1, <1>2

\* The loop of advance_time_to keeps the types.
LEMMA AdvanceType ==
    ASSUME Inv1, AdvanceDone \/ AdvanceQuiet \/ AdvanceFrame \/ AdvancePacket
    PROVE  TypeOK'
<1>1. pkt' = pkt /\ response' = response /\ pc = "advance"
  BY DEF AdvanceDone, AdvanceQuiet, AdvanceFrame, AdvancePacket, heap
<1>2. Ids' = Ids /\ Frame' = Frame /\ OutFrame' = OutFrame
  BY <1>1, SameTypes
<1>3. /\ outframe \in Frame /\ outframe # NoFrame
      /\ current_time \in Int /\ target \in Int /\ EvTime \in Int /\ NoTime \notin Int
      /\ return \in Labels \ {"advance", "done"}
  BY <1>1, EvTimeProperties, MatcherAssumption DEF Inv1, TypeOK
<1>4. CASE AdvanceDone
  BY <1>1, <1>2, <1>3, <1>4, Zenon DEF AdvanceDone, Inv1, TypeOK, Reading
<1>5. CASE AdvanceQuiet
  BY <1>1, <1>2, <1>3, <1>5 DEF AdvanceQuiet, Inv1, TypeOK, control
<1>6. CASE AdvanceFrame
  <2>1. PICK end \in Int : /\ Enqueue([outframe EXCEPT !.time_end = end])
                           /\ outframe' = NewFrame(end, end)
    BY <1>3, <1>6, MatcherAssumption DEF AdvanceFrame
  <2>2. outframe' \in Frame /\ outframe' # NoFrame
    BY <2>1, FrameTypes
  <2>3. [outframe EXCEPT !.time_end = end] \in OutFrame
    BY <1>3, <2>1, FrameTypes DEF Frame
  <2>4. out' \in Seq(OutFrame') /\ taken' \in 0..Len(out')
    BY <2>1, <2>3, <1>1, <1>6, EnqueueType DEF AdvanceFrame, Inv1
  <2> QED BY <2>2, <2>4, <1>1, <1>2, <1>3, <1>6 DEF AdvanceFrame, Inv1, TypeOK, control
<1>7. CASE AdvancePacket
  <2> DEFINE p == Head(packet_queue)
  <2>1. packet_queue # << >> /\ p \in Ids
    BY <1>1, <1>7, EvTimeProperties DEF AdvancePacket
  <2>2. packet_queue' \in Seq(Ids)
    BY <2>1, <1>7, HeadTailFacts DEF AdvancePacket, Inv1, TypeOK
  <2>3. hash_table' \in [Keys -> Seq(Ids)]
    <3>1. \A k \in Keys : Without(hash_table[k], p) \in Seq(Ids)
      <4> SUFFICES ASSUME NEW k \in Keys PROVE Without(hash_table[k], p) \in Seq(Ids)
        OBVIOUS
      <4>1. hash_table[k] \in Seq(Ids)
        BY DEF Inv1, TypeOK
      <4> QED BY <4>1, WithoutParts
    <3>2. hash_table' = Forget(p) /\ pkt[p].key \in Keys /\ hash_table \in [Keys -> Seq(Ids)]
      BY <2>1, <1>1, <1>7, EvTimeProperties DEF AdvancePacket, Packet, Inv1, TypeOK
    <3> QED BY <3>1, <3>2 DEF Forget, MapRemove
  <2>4. outframe' \in Frame /\ outframe' # NoFrame /\ out' \in Seq(OutFrame') /\ taken' \in 0..Len(out')
    <3>1. pkt \in Seq(Packet) /\ outframe.time_end \in Int /\ taken' = taken
      BY <1>3, <1>7 DEF Inv1, TypeOK, Frame, AdvancePacket
    <3>2. CASE Fits(p)
      <4>1. outframe' = AppendPacket(outframe, p) /\ out' = out
        BY <3>2, <1>7 DEF AdvancePacket
      <4> QED BY <4>1, <3>1, <2>1, <1>2, <1>3, AppendPacketType, FrameTypes DEF Inv1, TypeOK
    <3>3. CASE ~Fits(p)
      <4>1. /\ Enqueue(outframe)
            /\ outframe' = AppendPacket(NewFrame(outframe.time_end, outframe.time_end), p)
        BY <3>3, <1>7 DEF AdvancePacket
      <4>2. outframe' \in Frame /\ outframe' # NoFrame
        BY <4>1, <3>1, <2>1, AppendPacketType, FrameTypes
      <4>3. outframe \in OutFrame
        BY <1>3, FrameTypes
      <4> QED BY <4>1, <4>2, <4>3, <3>1, <1>1, EnqueueType DEF Inv1
    <3> QED BY <3>2, <3>3
  <2> QED BY <2>2, <2>3, <2>4, <1>1, <1>2, <1>3, <1>7 DEF AdvancePacket, Inv1, TypeOK, control
<1> QED BY <1>4, <1>5, <1>6, <1>7

\* Reading a loaded frame keeps the types.
LEMMA ReadType ==
    ASSUME Inv1, ReadPacket \/ ReadEnd \/ Unload
    PROVE  TypeOK'
<1>1. pkt' = pkt /\ response' = response
  BY DEF ReadPacket, ReadEnd, Unload, heap
<1>2. Ids' = Ids /\ Frame' = Frame /\ OutFrame' = OutFrame
  BY <1>1, SameTypes
<1>3. CASE ReadPacket
  <2>1. /\ inframe \in Frame /\ inframe.packets \in Seq(Ids) /\ inframe.packets # << >>
        /\ current_time # NoTime
    BY <1>3 DEF ReadPacket, Inv1, TypeOK, Reading, Loaded, Frame
  <2>2. cur' \in Ids /\ Tail(inframe.packets) \in Seq(Ids)
    BY <2>1, <1>3, HeadTailFacts DEF ReadPacket
  <2>3. inframe' \in Frame
    BY <2>1, <2>2, <1>3 DEF ReadPacket, Frame
  <2>4. pkt[cur'] \in Packet /\ pkt[cur'].ts \in Int
    BY <2>2, PacketType DEF Inv1
  <2>5. cur' \in 0..Len(pkt)
    BY <2>2 DEF Ids
  <2>6. late' \subseteq Ids
    BY <2>2, <1>3 DEF ReadPacket, Inv1, TypeOK
  <2> QED BY <2>1, <2>2, <2>3, <2>4, <2>5, <2>6, <1>1, <1>2, <1>3
          DEF ReadPacket, AdvanceTimeTo, Inv1, TypeOK, Labels
<1>4. CASE ReadEnd
  <2>1. inframe \in Frame /\ inframe.time_end \in Int /\ current_time # NoTime
    BY <1>4 DEF ReadEnd, Inv1, TypeOK, Reading, Loaded, Frame
  <2> QED BY <2>1, <1>1, <1>2, <1>4 DEF ReadEnd, AdvanceTimeTo, Inv1, TypeOK, Labels
<1>5. CASE Unload
  BY <1>1, <1>2, <1>5 DEF Unload, Inv1, TypeOK, Labels
<1> QED BY <1>3, <1>4, <1>5

\* The requests get_match looks at are the first ones of the list.
LEMMA SearchedFacts ==
    ASSUME NEW S, NEW s \in Seq(S)
    PROVE  LET t == Searched(s, MaxSearch)
           IN  /\ t \in Seq(S) /\ Len(t) \in Nat /\ Len(t) <= Len(s)
               /\ Len(t) = Len(s) \/ Len(t) = MaxSearch + 1
               /\ \A i \in 1..Len(t) : t[i] = s[i]
<1> DEFINE m == IF Len(s) < MaxSearch + 1 THEN Len(s) ELSE MaxSearch + 1
<1>1. m \in 0..Len(s) /\ (m = Len(s) \/ m = MaxSearch + 1) /\ Len(s) \in Nat
  BY SMTT(30), LenFacts, MatcherAssumption
<1>2. Searched(s, MaxSearch) = SubSeq(s, 1, m)
  BY DEF Searched
<1> HIDE DEF m
<1> QED BY SMTT(30), <1>1, <1>2, PrefixFacts

\* What get_match answers is 0 or a request in the list of the response's key,
\* and one that the response may belong to by name.
LEMMA RequestForProperties ==
    ASSUME Inv1, Holding, RequestFor(cur) # 0
    PROVE  /\ cur \in Ids /\ pkt[cur] \in Packet /\ pkt[cur].key \in Keys
           /\ RequestFor(cur) \in Range(hash_table[pkt[cur].key])
           /\ RequestFor(cur) \in Ids /\ Match(RequestFor(cur), cur)
<1> DEFINE list == hash_table[pkt[cur].key]
           S == Searched(list, MaxSearch)
           A == {req \in 1..Len(pkt) : Match(req, cur)}
           found == FirstIn(S, A)
<1>1. cur \in Ids /\ pkt[cur] \in Packet /\ pkt[cur].key \in Keys
  <2>1. cur \in Ids
    BY SMTT(30) DEF Inv1, TypeOK, Reading, Ids
  <2> QED BY <2>1, PacketType DEF Inv1
<1>2. list \in Seq(Ids) /\ Len(list) \in Nat
  BY <1>1, LenFacts DEF Inv1, TypeOK
<1>3. RequestFor(cur) = IF found = 0 THEN 0 ELSE list[found]
  BY DEF RequestFor, MapMatch
<1>4. found # 0
  BY <1>3
<1>5. /\ S \in Seq(Ids) /\ Len(S) <= Len(list) /\ Len(S) \in Nat
      /\ \A i \in 1..Len(S) : S[i] = list[i]
  BY <1>2, SearchedFacts
<1>6. found \in 1..Len(S) /\ S[found] \in A
  <2> HIDE DEF S, A
  <2> QED BY SMTT(30), <1>4, <1>5, FirstInFacts
<1>7. list[found] \in A /\ found \in 1..Len(list)
  BY SMTT(30), <1>2, <1>5, <1>6
<1>8. list[found] \in Range(list)
  BY SMTT(30), <1>2, <1>7, RangeByPosition
<1> QED BY <1>1, <1>3, <1>4, <1>7, <1>8 DEF Ids

\* The handling of a packet in main keeps the types.
LEMMA HandleType ==
    ASSUME Inv1, HandleRequest \/ HandleMatched \/ HandleUnmatched
    PROVE  TypeOK'
<1>1. pkt' = pkt /\ pc = "handle" /\ Holding
  BY DEF HandleRequest, HandleMatched, HandleUnmatched, heap, Holding
<1>2. Ids' = Ids /\ Frame' = Frame /\ OutFrame' = OutFrame
  BY <1>1, SameTypes
<1>3. cur \in Ids /\ pkt[cur] \in Packet /\ pkt[cur].key \in Keys
  <2>1. cur \in Ids
    BY SMTT(30), <1>1 DEF Inv1, TypeOK, Reading, Ids
  <2> QED BY <2>1, PacketType DEF Inv1
<1>4. Append(packet_queue, cur) \in Seq(Ids)
  BY <1>3, AppendFacts DEF Inv1, TypeOK
<1>5. CASE HandleRequest
  <2>1. <<cur>> \o hash_table[pkt[cur].key] \in Seq(Ids)
    BY <1>3, RangeCons DEF Inv1, TypeOK
  <2>2. hash_table' \in [Keys -> Seq(Ids)]
    BY <2>1, <1>3, <1>5 DEF HandleRequest, MapInsert, Inv1, TypeOK
  <2> QED BY <2>2, <1>1, <1>2, <1>4, <1>5 DEF HandleRequest, heap, Inv1, TypeOK, Labels
<1>6. CASE HandleMatched
  <2> DEFINE req == RequestFor(cur)
             list == hash_table[pkt[cur].key]
  <2>1. req # 0
    BY <1>6 DEF HandleMatched
  <2>2. req \in Ids /\ req \in Range(list) /\ list \in Seq(Ids)
    BY <2>1, <1>1, <1>3, RequestForProperties DEF Inv1, TypeOK
  <2>3. Without(list, req) \in Seq(Ids)
    BY <2>2, WithoutParts
  <2>4. hash_table' \in [Keys -> Seq(Ids)]
    BY <2>3, <1>3, <1>6 DEF HandleMatched, MapRemove, Inv1, TypeOK
  <2>5. response' \in Seq(0..Len(pkt)) /\ Len(response') = Len(pkt)
    <3>1. response' = [response EXCEPT ![req] = cur] /\ req \in 1..Len(response) /\ cur \in 0..Len(pkt)
      BY <2>2, <1>6 DEF HandleMatched, Inv1, TypeOK, Ids
    <3> HIDE DEF req
    <3> QED BY SMTT(30), <3>1, ExceptFacts DEF Inv1, TypeOK
  <2> QED BY <2>4, <2>5, <1>1, <1>2, <1>6 DEF HandleMatched, Inv1, TypeOK, Labels
<1>7. CASE HandleUnmatched
  BY <1>1, <1>2, <1>4, <1>7 DEF HandleUnmatched, heap, Inv1, TypeOK, Labels
<1> QED BY <1>5, <1>6, <1>7

\* The end of main, and the output thread taking a frame, keep the types.
LEMMA EndType ==
    ASSUME Inv1, Flush \/ Finish \/ Take
    PROVE  TypeOK'
<1>1. pkt' = pkt /\ response' = response
  BY DEF Flush, Finish, Take, heap
<1>2. Ids' = Ids /\ Frame' = Frame /\ OutFrame' = OutFrame
  BY <1>1, SameTypes
<1>3. CASE Flush
  <2>1. out' \in Seq(OutFrame') /\ taken' \in 0..Len(out')
    <3>1. CASE outframe = NoFrame
      BY <3>1, <1>2, <1>3 DEF Flush, Inv1, TypeOK
    <3>2. CASE outframe # NoFrame
      <4>1. outframe \in OutFrame /\ Enqueue(outframe) /\ taken' = taken
        BY <3>2, <1>3, FrameTypes DEF Flush, Inv1, TypeOK
      <4> QED BY <4>1, <1>1, EnqueueType DEF Inv1
    <3> QED BY <3>1, <3>2
  <2> QED BY <2>1, <1>1, <1>2, <1>3 DEF Flush, Inv1, TypeOK, Labels
<1>4. CASE Finish
  <2>1. FinalFrame(current_time) \in OutFrame /\ Enqueue(FinalFrame(current_time)) /\ taken' = taken
    BY <1>4, FrameTypes DEF Finish, Inv1, TypeOK
  <2>2. out' \in Seq(OutFrame') /\ taken' \in 0..Len(out')
    BY <2>1, <1>1, EnqueueType DEF Inv1
  <2> QED BY <2>2, <1>1, <1>2, <1>4 DEF Finish, Inv1, TypeOK, Labels
<1>5. CASE Take
  BY SMTT(30), <1>1, <1>2, <1>5, LenFacts DEF Take, control, Inv1, TypeOK
<1> QED BY <1>3, <1>4, <1>5

\* Dequeuing a frame keeps the types.
LEMMA DequeueType ==
    ASSUME Inv1, NEW f \in InputFrame, Dequeue(f)
    PROVE  TypeOK'
<1> DEFINE nums == [i \in 1..Len(f.packets) |-> Len(pkt) + i]
           g == [f EXCEPT !.packets = nums]
<1>1. /\ pkt' = pkt \o f.packets
      /\ response' = response \o [i \in 1..Len(f.packets) |-> 0]
      /\ LoadFinal(g) \/ SkipFrame(g) \/ LoadFrame(g)
  BY DEF Dequeue
<1>2. /\ pkt' \in Seq(Packet) /\ Len(pkt') \in Nat
      /\ response' \in Seq(0..Len(pkt')) /\ Len(response') = Len(pkt')
      /\ nums \in Seq(Ids')
      /\ Ids \subseteq Ids' /\ 0..Len(pkt) \subseteq 0..Len(pkt')
  <2> HIDE DEF nums
  <2>1. nums = [i \in 1..Len(f.packets) |-> Len(pkt) + i]
    BY DEF nums
  <2>2. /\ pkt' \in Seq(Packet)
        /\ response' \in Seq(0..Len(pkt')) /\ Len(response') = Len(pkt')
        /\ nums \in Seq(Ids')
        /\ Ids \subseteq Ids' /\ 0..Len(pkt) \subseteq 0..Len(pkt')
    BY <1>1, <2>1, FreshPackets DEF Inv1
  <2> QED BY <2>2, LenFacts
<1> HIDE DEF nums
<1>3. Seq(Ids) \subseteq Seq(Ids')
  BY <1>2, SeqWider
<1>4. Frame \subseteq Frame' /\ OutFrame \subseteq OutFrame'
  BY <1>3 DEF Frame, OutFrame
<1>5. /\ packet_queue' = packet_queue /\ hash_table' = hash_table
      /\ cur' = cur /\ late' = late /\ out' = out /\ taken' = taken
  BY <1>1 DEF LoadFinal, SkipFrame, LoadFrame, control
<1>6. /\ packet_queue' \in Seq(Ids') /\ hash_table' \in [Keys -> Seq(Ids')]
      /\ cur' \in 0..Len(pkt') /\ late' \subseteq Ids'
  BY <1>2, <1>3, <1>5 DEF Inv1, TypeOK
<1>7. out' \in Seq(OutFrame') /\ taken' \in 0..Len(out')
  BY <1>4, <1>5, SeqWider DEF Inv1, TypeOK
<1>8. CASE LoadFinal(g)
  <2>1. /\ current_time' = current_time /\ outframe' = outframe /\ inframe' = inframe
        /\ pc' \in {"flush", "advance"} /\ return' \in Labels \ {"advance", "done"}
    BY <1>8 DEF LoadFinal, AdvanceTimeTo, Inv1, TypeOK, Labels
  <2>2. pc' = "advance" => target' \in Int /\ current_time # NoTime
    BY SMTT(30), <1>8, MatcherAssumption DEF LoadFinal, AdvanceTimeTo, LastTime, Inv1, TypeOK
  <2>3. outframe = NoFrame <=> current_time = NoTime
    BY <1>8 DEF LoadFinal, Inv1, TypeOK
  <2> QED BY <2>1, <2>2, <2>3, <1>2, <1>4, <1>6, <1>7 DEF Inv1, TypeOK, Labels
<1>9. CASE SkipFrame(g)
  BY <1>2, <1>4, <1>6, <1>7, <1>9 DEF SkipFrame, control, Inv1, TypeOK
<1>10. CASE LoadFrame(g)
  <2>1. /\ f.type \in {0, 1} /\ f.size \in Nat /\ g.type = f.type /\ g.size = f.size
        /\ g.time_start = f.time_start /\ g.time_end = f.time_end /\ g.packets = nums
    BY DEF InputFrame
  <2>2. f.time_start \in Int /\ f.time_end \in Int
    <3>1. ~(nums = << >> /\ f.time_start = NoTime)
      BY <1>10, <2>1 DEF LoadFrame
    <3>2. f.packets = << >> => nums = << >>
      BY DEF nums
    <3> QED BY <3>1, <3>2 DEF InputFrame
  <2>3. g \in Frame'
    BY <2>1, <2>2, <1>2 DEF Frame, InputFrame
  <2>4. inframe' = g /\ pc' = "advance" /\ target' \in Int /\ return' = "read"
    BY <1>10, <2>1, <2>2 DEF LoadFrame, AdvanceTimeTo
  <2>5. outframe' \in Frame' /\ current_time' \in Int /\ outframe' # NoFrame
    <3>1. CASE outframe = NoFrame
      <4>1. /\ outframe' = NewFrame(f.time_start, f.time_start) /\ current_time' = f.time_start
        BY <1>10, <2>1, <3>1 DEF LoadFrame
      <4> QED BY <4>1, <2>2, <1>4, FrameTypes
    <3>2. CASE outframe # NoFrame
      <4>1. pc = "load" /\ outframe' = outframe /\ current_time' = current_time
        BY <1>10, <3>2 DEF LoadFrame
      <4> QED BY <4>1, <3>2, <1>4 DEF Inv1, TypeOK
    <3> QED BY <3>1, <3>2
  <2> HIDE DEF g
  <2> QED BY <2>3, <2>4, <2>5, <1>2, <1>4, <1>6, <1>7, MatcherAssumption DEF TypeOK, Labels
<1> QED BY <1>1, <1>8, <1>9, <1>10

\* Every action keeps account of what is loaded.
LEMMA ReadingStep ==
    ASSUME Inv1, Step \/ Take
    PROVE  Reading'
<1> USE DEF Loaded, Holding
<1>1. Len(pkt) \in Nat /\ NoTime \notin Int
  BY LenFacts, MatcherAssumption DEF Inv1, TypeOK
<1>2. CASE AdvanceDone
  BY <1>1, <1>2 DEF AdvanceDone, heap, Inv1, Reading, TypeOK
<1>3. CASE AdvanceQuiet
  BY <1>1, <1>3 DEF AdvanceQuiet, heap, control, Inv1, Reading, TypeOK
<1>4. CASE AdvanceFrame
  <2>1. EvTime \in Int
    BY <1>4, EvTimeProperties DEF AdvanceFrame
  <2> QED BY <2>1, <1>1, <1>4 DEF AdvanceFrame, heap, control, Inv1, Reading, TypeOK
<1>5. CASE AdvancePacket
  <2>1. EvTime \in Int
    BY <1>5, EvTimeProperties DEF AdvancePacket
  <2> QED BY <2>1, <1>1, <1>5 DEF AdvancePacket, heap, control, Inv1, Reading, TypeOK
<1>6. CASE ReadPacket
  <2> DEFINE ps == inframe.packets
  <2>1. inframe \in Frame /\ ps \in Seq(Ids) /\ ps # << >> /\ current_time # NoTime
    BY <1>6 DEF ReadPacket, Inv1, TypeOK, Reading, Frame
  <2>2. /\ Tail(ps) \in Seq(Ids) /\ Len(Tail(ps)) = Len(ps) - 1 /\ Len(ps) \in Nat \ {0}
        /\ \A i \in 1..Len(Tail(ps)) : Tail(ps)[i] = ps[i + 1]
        /\ Head(ps) = ps[1]
    BY <2>1, HeadTailFacts, LenFacts
  <2>3. inframe'.packets = Tail(ps) /\ inframe' \in Frame /\ inframe' # NoFrame
    <3>1. inframe' = [inframe EXCEPT !.packets = Tail(ps)]
      BY <1>6 DEF ReadPacket
    <3> QED BY <3>1, <2>1, <2>2, FrameTypes DEF Frame
  <2>4. /\ \A i \in 1..Len(ps) : ps[i] = Len(pkt) - Len(ps) + i
        /\ Len(ps) <= Len(pkt)
    BY <1>6 DEF ReadPacket, Inv1, Reading
  <2>5. pc' = "advance" /\ return' = "handle" /\ pkt' = pkt /\ cur' = Head(ps)
        /\ UNCHANGED <<packet_queue, current_time, outframe>>
    BY <1>6 DEF ReadPacket, AdvanceTimeTo, heap
  <2> HIDE DEF ps
  <2>6. \A i \in 1..Len(Tail(ps)) : Tail(ps)[i] = Len(pkt) - Len(Tail(ps)) + i
    BY SMTT(30), <2>2, <2>4, <1>1
  <2>7. cur' = Len(pkt) - Len(Tail(ps)) /\ cur' >= 1 /\ Len(Tail(ps)) <= Len(pkt)
    BY SMTT(30), <2>2, <2>4, <2>5, <1>1
  <2> QED BY <2>1, <2>3, <2>5, <2>6, <2>7 DEF Inv1, Reading
<1>7. CASE ReadEnd
  BY <1>1, <1>7 DEF ReadEnd, AdvanceTimeTo, heap, Inv1, Reading, TypeOK
<1>8. CASE Unload
  BY <1>1, <1>8 DEF Unload, heap, Inv1, Reading, TypeOK
<1>9. CASE HandleRequest
  BY <1>1, <1>9 DEF HandleRequest, heap, Inv1, Reading, TypeOK
<1>10. CASE HandleMatched
  BY <1>1, <1>10 DEF HandleMatched, Inv1, Reading, TypeOK
<1>11. CASE HandleUnmatched
  BY <1>1, <1>11 DEF HandleUnmatched, heap, Inv1, Reading, TypeOK
<1>12. CASE Flush
  BY <1>1, <1>12 DEF Flush, heap, Inv1, Reading, TypeOK
<1>13. CASE Finish
  BY <1>1, <1>13 DEF Finish, heap, Inv1, Reading, TypeOK
<1>14. CASE Take
  BY <1>14 DEF Take, heap, control, Inv1, Reading
<1> QED BY <1>2, <1>3, <1>4, <1>5, <1>6, <1>7, <1>8, <1>9, <1>10, <1>11, <1>12, <1>13, <1>14
        DEF Step

\* Dequeuing a frame does, too.
LEMMA ReadingDequeue ==
    ASSUME Inv1, NEW f \in InputFrame, Dequeue(f)
    PROVE  Reading'
<1> DEFINE nums == [i \in 1..Len(f.packets) |-> Len(pkt) + i]
           g == [f EXCEPT !.packets = nums]
<1>1. /\ pkt' = pkt \o f.packets
      /\ response' = response \o [i \in 1..Len(f.packets) |-> 0]
      /\ LoadFinal(g) \/ SkipFrame(g) \/ LoadFrame(g)
  BY DEF Dequeue
<1>2. g.packets = nums /\ g.time_start = f.time_start /\ g.type = f.type
  BY DEF InputFrame
<1>3. /\ Len(pkt) \in Nat /\ Len(pkt') = Len(pkt) + Len(f.packets) /\ Len(f.packets) \in Nat
      /\ Len(nums) = Len(f.packets) /\ \A i \in 1..Len(nums) : nums[i] = Len(pkt) + i
  <2> HIDE DEF nums
  <2>1. nums = [i \in 1..Len(f.packets) |-> Len(pkt) + i]
    BY DEF nums
  <2> QED BY ZenonT(30), <1>1, <2>1, FreshPackets, LenFacts DEF Inv1, TypeOK
<1> HIDE DEF nums, g
<1> USE DEF Loaded, Holding
<1>4. CASE LoadFinal(g)
  BY <1>4 DEF LoadFinal, AdvanceTimeTo, Inv1, Reading
<1>5. CASE SkipFrame(g)
  BY <1>5 DEF SkipFrame, control, Inv1, Reading
<1>6. CASE LoadFrame(g)
  <2>1. /\ pc' = "advance" /\ return' = "read" /\ inframe' = g /\ packet_queue' = packet_queue
    BY <1>6 DEF LoadFrame, AdvanceTimeTo
  <2>2. inframe' # NoFrame /\ current_time' # NoTime
    <3>1. TypeOK'
      BY DequeueType
    <3>2. current_time' # NoTime
      BY <3>1, <2>1 DEF TypeOK
    <3>3. g \in [type : {0, 1}, time_start : Int, time_end : Int, size : Nat, packets : Seq(Nat)]
      <4>1. f.time_start \in Int /\ f.time_end \in Int
        <5>1. ~(nums = << >> /\ f.time_start = NoTime)
          BY <1>2, <1>6 DEF LoadFrame
        <5>2. f.packets = << >> => nums = << >>
          BY DEF nums
        <5> QED BY <5>1, <5>2 DEF InputFrame
      <4>2. nums \in Seq(Nat)
        <5>1. nums \in [1..Len(f.packets) -> Nat]
          BY SMTT(30), <1>3 DEF nums
        <5> QED BY <5>1, <1>3, MakeSeq
      <4>3. g = [f EXCEPT !.packets = nums]
        BY DEF g
      <4> QED BY <4>1, <4>2, <4>3 DEF InputFrame
    <3> QED BY <3>2, <3>3, <2>1, MatcherAssumption
  <2>3. \A i \in 1..Len(nums) : nums[i] = Len(pkt') - Len(nums) + i
    BY SMTT(30), <1>3
  <2> QED BY <2>1, <2>2, <2>3, <1>2, <1>3 DEF Reading
<1> QED BY <1>1, <1>4, <1>5, <1>6

LEMMA NextMoves == [Next]_vars => Move
BY InputAssumption DEF Next, Receive, Terminated, Move

\* Every step preserves the first layer.
LEMMA MoveInv1 == Inv1 /\ Move => Inv1'
<1> SUFFICES ASSUME Inv1, Move PROVE Inv1'
  OBVIOUS
<1>1. CASE Step
  BY <1>1, AdvanceType, ReadType, HandleType, EndType, ReadingStep DEF Step, Inv1
<1>2. CASE \E f \in InputFrame : Dequeue(f)
  BY <1>2, DequeueType, ReadingDequeue DEF Inv1
<1>3. CASE Take
  BY <1>3, EndType, ReadingStep DEF Inv1
<1>4. CASE UNCHANGED vars
  <2>1. TypeOK'
    BY <1>4 DEF vars, heap, control, Inv1, TypeOK, Ids, Frame, OutFrame
  <2>2. Reading'
    BY <1>4 DEF vars, heap, control, Inv1, Reading, Loaded, Holding
  <2> QED BY <2>1, <2>2 DEF Inv1
<1> QED BY <1>1, <1>2, <1>3, <1>4 DEF Move

\* The variables keep the types of the C objects, and the output frame exists
\* exactly when the time does, as advance_time_to asserts.
THEOREM TypeCorrect == Spec => []TypeOK
<1>1. Inv1 => TypeOK
  BY DEF Inv1
<1> QED BY <1>1, InitInv1, MoveInv1, NextMoves, PTL DEF Spec
-----------------------------------------------------------------------------
\* How many packets next_packet has returned and main has dealt with.
Handled == Len(pkt) - (IF inframe = NoFrame THEN 0 ELSE Len(inframe.packets))
                    - (IF Holding THEN 1 ELSE 0)

\* Where every packet is.  This is EachPacketOnce with the numbers of the
\* handled packets in place of Pending, and the order of the lists.
Placing ==
    /\ 1..Handled = Queued \cup InOutframe \cup Output \cup Attached
    /\ Queued \cap (InOutframe \cup Output \cup Attached) = {}
    /\ InOutframe \cap (Output \cup Attached) = {}
    /\ Output \cap Attached = {}
    /\ outframe # NoFrame => IsInjective(outframe.packets)
    /\ \A i \in 1..Len(out) : IsInjective(out[i].packets)
    /\ \A i, j \in 1..Len(out) :
         i # j => Range(out[i].packets) \cap Range(out[j].packets) = {}
    /\ \A i, j \in Ids : response[i] = response[j] /\ i # j => response[i] = 0
    /\ \A i, j \in 1..Len(packet_queue) : i < j => packet_queue[i] < packet_queue[j]
    /\ \A k \in Keys : \A i, j \in 1..Len(hash_table[k]) :
         i < j => hash_table[k][j] < hash_table[k][i]

Inv2 == Inv1 /\ Placing /\ HashIsUnanswered /\ MatchesAreRight

\* The packets not handled yet are the last ones, and the one in hand is next.
LEMMA HandledProperties ==
    ASSUME Inv1
    PROVE  /\ Len(pkt) \in Nat /\ Handled \in 0..Len(pkt)
           /\ Pending = (Handled + 1)..Len(pkt)
           /\ Holding => cur = Handled + 1 /\ cur \in Ids
<1>1. Len(pkt) \in Nat
  BY LenFacts DEF Inv1, TypeOK
<1>2. Holding => Loaded
  BY DEF Holding, Loaded
<1>3. CASE inframe = NoFrame
  <2>1. ~Holding
    BY <1>2, <1>3 DEF Inv1, Reading
  <2>2. Handled = Len(pkt) /\ Pending = {}
    BY <1>1, <1>3, <2>1 DEF Handled, Pending
  <2> QED BY <1>1, <2>1, <2>2
<1>4. CASE inframe # NoFrame
  <2> DEFINE ps == inframe.packets
  <2>1. ps \in Seq(Ids) /\ Len(ps) \in Nat
    BY <1>4, LenFacts DEF Inv1, TypeOK, Frame
  <2>2. /\ \A i \in 1..Len(ps) : ps[i] = Len(pkt) - Len(ps) + i
        /\ Len(ps) <= Len(pkt)
        /\ Holding => cur = Len(pkt) - Len(ps) /\ cur >= 1
    BY <1>4 DEF Inv1, Reading
  <2>3. Range(ps) = {ps[i] : i \in 1..Len(ps)}
    BY <2>1, RangeByPosition
  <2>4. /\ Pending = Range(ps) \cup (IF Holding THEN {cur} ELSE {})
        /\ Handled = Len(pkt) - Len(ps) - (IF Holding THEN 1 ELSE 0)
    BY <1>4 DEF Pending, Handled
  <2> HIDE DEF ps
  <2>5. Range(ps) = (Len(pkt) - Len(ps) + 1)..Len(pkt)
    <3>1. ASSUME NEW x \in (Len(pkt) - Len(ps) + 1)..Len(pkt) PROVE x \in Range(ps)
      <4>1. x - (Len(pkt) - Len(ps)) \in 1..Len(ps)
        BY <1>1, <2>1, <2>2
      <4>2. ps[x - (Len(pkt) - Len(ps))] = x
        BY <1>1, <2>1, <2>2, <4>1
      <4> QED BY <4>1, <4>2, <2>3
    <3>2. \A i \in 1..Len(ps) : ps[i] \in (Len(pkt) - Len(ps) + 1)..Len(pkt)
      BY <1>1, <2>1, <2>2
    <3> QED BY <3>1, <3>2, <2>3
  <2>6. CASE Holding
    BY SMTT(30), <2>6, <2>1, <2>2, <2>4, <2>5, <1>1 DEF Ids
  <2>7. CASE ~Holding
    BY SMTT(30), <2>7, <2>1, <2>2, <2>4, <2>5, <1>1
  <2> QED BY <2>6, <2>7
<1> QED BY <1>3, <1>4

\* The packets of a frame put out join those put out before.
LEMMA EnqueueOutput ==
    ASSUME out \in Seq(OutFrame), NEW f \in OutFrame, out' = Append(out, f)
    PROVE  /\ Output' = Output \cup Range(f.packets)
           /\ Len(out') = Len(out) + 1 /\ Len(out) \in Nat /\ out'[Len(out) + 1] = f
           /\ \A i \in 1..Len(out) : out'[i] = out[i]
           /\ \A i \in 1..Len(out') : i \in 1..Len(out) \/ i = Len(out) + 1
<1>1. /\ Len(out') = Len(out) + 1 /\ Len(out) \in Nat /\ out'[Len(out) + 1] = f
      /\ \A i \in 1..Len(out) : out'[i] = out[i]
  BY SMTT(30), AppendFacts, LenFacts
<1>2. \A i \in 1..Len(out') : i \in 1..Len(out) \/ i = Len(out) + 1
  BY <1>1
<1>3. /\ \A i \in 1..Len(out) : i \in 1..Len(out')
      /\ Len(out) + 1 \in 1..Len(out')
  BY <1>1
<1>4. Output' = Output \cup Range(f.packets)
  <2>1. ASSUME NEW x \in Output' PROVE x \in Output \cup Range(f.packets)
    <3>1. PICK i \in 1..Len(out') : x \in Range(out'[i].packets)
      BY DEF Output
    <3> QED BY <3>1, <1>1, <1>2 DEF Output
  <2>2. ASSUME NEW x \in Output \cup Range(f.packets) PROVE x \in Output'
    BY <2>2, <1>1, <1>3 DEF Output
  <2> QED BY <2>1, <2>2
<1> QED BY <1>1, <1>2, <1>4

\* A step that moves no packet.
LEMMA NothingMoves ==
    ASSUME Inv2, pkt' = pkt, response' = response, packet_queue' = packet_queue,
           hash_table' = hash_table, outframe' = outframe, out' = out, Handled' = Handled
    PROVE  (Placing /\ HashIsUnanswered /\ MatchesAreRight)'
<1>1. Queued' = Queued /\ InOutframe' = InOutframe /\ Output' = Output /\ Attached' = Attached
  BY DEF Queued, InOutframe, Output, Attached, Ids
<1>2. Placing'
  BY <1>1 DEF Inv2, Placing, Ids
<1>3. HashIsUnanswered'
  BY SMTT(30), <1>1 DEF Inv2, HashIsUnanswered, Hashed
<1>4. MatchesAreRight'
  BY DEF Inv2, MatchesAreRight, Match, QnameMatch, Ids
<1> QED BY <1>2, <1>3, <1>4

\* Requests in the queue that wait for a response are in the hash, under their
\* own key.
LEMMA HashedUnderKey ==
    ASSUME Inv2, NEW p \in Hashed
    PROVE  /\ p \in Ids /\ p \in Queued /\ pkt[p].request /\ response[p] = 0
           /\ pkt[p].key \in Keys /\ p \in Range(hash_table[pkt[p].key])
<1>1. PICK k \in Keys : p \in Range(hash_table[k])
  BY DEF Hashed
<1>2. pkt[p].key = k /\ p \in Queued /\ pkt[p].request /\ response[p] = 0
  BY <1>1 DEF Inv2, HashIsUnanswered
<1>3. p \in Ids
  BY <1>2, RangeByPosition DEF Queued, Inv2, Inv1, TypeOK
<1> QED BY <1>1, <1>2, <1>3

\* Lists that run from the newest to the oldest request.
Descending(table) == \A k \in Keys : \A i, j \in 1..Len(table[k]) :
                         i < j => table[k][j] < table[k][i]

\* What dns_packet_hash_remove_packet does to the lists.
LEMMA HashRemoval ==
    ASSUME Inv2, NEW p \in Hashed,
           hash_table' = MapRemove(hash_table, pkt[p].key, p)
    PROVE  /\ Hashed' = Hashed \ {p}
           /\ \A k \in Keys : /\ \A q \in Range(hash_table'[k]) : pkt[q].key = k
                              /\ IsInjective(hash_table'[k])
           /\ Descending(hash_table')
<1> DEFINE key == pkt[p].key
           list == hash_table[key]
<1>1. key \in Keys /\ p \in Range(list)
  BY HashedUnderKey
<1>2. hash_table \in [Keys -> Seq(Ids)] /\ list \in Seq(Ids) /\ IsInjective(list)
  BY <1>1 DEF Inv2, Inv1, TypeOK, HashIsUnanswered
<1>3. /\ hash_table'[key] = Without(list, p)
      /\ \A k \in Keys \ {key} : hash_table'[k] = hash_table[k]
  BY <1>1, <1>2 DEF MapRemove
<1>4. /\ Without(list, p) \in Seq(Ids)
      /\ Range(Without(list, p)) = Range(list) \ {p}
      /\ IsInjective(Without(list, p))
  BY <1>1, <1>2, RangeWithout
<1>5. \A k \in Keys : /\ \A q \in Range(hash_table[k]) : pkt[q].key = k
                      /\ IsInjective(hash_table[k])
  BY DEF Inv2, HashIsUnanswered
<1>6. \A k \in Keys : /\ \A q \in Range(hash_table'[k]) : pkt[q].key = k
                      /\ IsInjective(hash_table'[k])
  BY <1>1, <1>3, <1>4, <1>5
<1>7. Hashed' = Hashed \ {p}
  <2>1. \A k \in Keys : Range(hash_table'[k]) = Range(hash_table[k]) \ {p}
    BY SMTT(30), <1>1, <1>3, <1>4, <1>5
  <2> QED BY SMTT(30), <2>1 DEF Hashed
<1>8. Descending(hash_table')
  <2>1. Descending(hash_table)
    BY DEF Inv2, Placing, Descending
  <2> SUFFICES ASSUME NEW k \in Keys, NEW i \in 1..Len(hash_table'[k]),
                      NEW j \in 1..Len(hash_table'[k]), i < j
               PROVE  hash_table'[k][j] < hash_table'[k][i]
    BY DEF Descending
  <2>2. CASE k # key
    BY <2>1, <2>2, <1>3 DEF Descending
  <2>3. CASE k = key
    <3>1. PICK n \in 1..Len(list) :
             /\ list[n] = p
             /\ Without(list, p) \in Seq(Ids) /\ Len(Without(list, p)) = Len(list) - 1
             /\ \A m \in 1..(Len(list) - 1) :
                  Without(list, p)[m] = IF m < n THEN list[m] ELSE list[m + 1]
      <4> HIDE DEF list
      <4> QED BY <1>1, <1>2, WithoutPositions, Zenon
    <3>2. Len(list) \in Nat
      BY <1>2, LenFacts
    <3> DEFINE a == IF i < n THEN i ELSE i + 1
               b == IF j < n THEN j ELSE j + 1
    <3>3. i \in 1..(Len(list) - 1) /\ j \in 1..(Len(list) - 1)
      BY <2>3, <1>3, <3>1
    <3>4. a \in 1..Len(list) /\ b \in 1..Len(list) /\ a < b
      BY <3>2, <3>3
    <3>5. hash_table'[k][i] = list[a] /\ hash_table'[k][j] = list[b]
      BY <2>3, <1>3, <3>1, <3>3
    <3> HIDE DEF a, b
    <3> QED BY <3>4, <3>5, <2>1, <1>1 DEF Descending
  <2> QED BY <2>2, <2>3
<1> QED BY <1>6, <1>7, <1>8

\* The packets known stay known, and no packet not yet handled has a response or
\* is one: what is attached was handled.
LEMMA HandledFacts ==
    ASSUME Inv2
    PROVE  /\ Queued \subseteq 1..Handled /\ Attached \subseteq 1..Handled
           /\ 1..Handled \subseteq Ids
           /\ \A i \in Ids : response[i] # 0 => i < response[i] /\ response[i] \in 1..Handled
<1>1. Queued \subseteq 1..Handled /\ Attached \subseteq 1..Handled
  BY DEF Inv2, Placing
<1>2. 1..Handled \subseteq Ids
  BY HandledProperties DEF Inv2, Ids
<1>3. ASSUME NEW i \in Ids, response[i] # 0
      PROVE  i < response[i] /\ response[i] \in 1..Handled
  BY <1>1, <1>3 DEF Inv2, MatchesAreRight, Attached
<1> QED BY <1>1, <1>2, <1>3

\* Only a matched response changes what is attached.
LEMMA AttachedSame ==
    ASSUME pkt' = pkt, response' = response
    PROVE  /\ Attached' = Attached /\ Ids' = Ids
           /\ MatchesAreRight => MatchesAreRight'
BY DEF Attached, Ids, MatchesAreRight, Match, QnameMatch

\* AdvanceFrame moves the packets of the output frame to the output queue.
LEMMA PlacingAdvanceFrame ==
    ASSUME Inv2, AdvanceFrame
    PROVE  (Placing /\ HashIsUnanswered /\ MatchesAreRight)'
<1>1. /\ pc = "advance" /\ pkt' = pkt /\ response' = response
      /\ packet_queue' = packet_queue /\ hash_table' = hash_table
      /\ inframe' = inframe /\ pc' = pc /\ return' = return
  BY DEF AdvanceFrame, heap, control
<1>2. Handled' = Handled
  BY <1>1 DEF Handled, Holding
<1>3. outframe \in Frame /\ outframe # NoFrame /\ EvTime \in Int
  BY <1>1, EvTimeProperties DEF Inv2
<1> DEFINE end == EvTime - MatchingDuration
           f == [outframe EXCEPT !.time_end = end]
<1>4. /\ out' = Append(out, f) /\ outframe' = NewFrame(end, end)
      /\ end \in Int
  BY <1>3, MatcherAssumption DEF AdvanceFrame, Enqueue
<1>5. f \in OutFrame /\ f.packets = outframe.packets
  BY <1>3, <1>4 DEF Frame, OutFrame
<1>6. outframe' # NoFrame /\ outframe'.packets = << >>
  BY <1>4, FrameTypes DEF NewFrame
<1> HIDE DEF f, end
<1>7. /\ Output' = Output \cup Range(f.packets)
      /\ Len(out') = Len(out) + 1 /\ Len(out) \in Nat /\ out'[Len(out) + 1] = f
      /\ \A i \in 1..Len(out) : out'[i] = out[i]
      /\ \A i \in 1..Len(out') : i \in 1..Len(out) \/ i = Len(out) + 1
  BY <1>4, <1>5, EnqueueOutput DEF Inv2, Inv1, TypeOK
<1>8. InOutframe' = {} /\ Output' = Output \cup InOutframe /\ Queued' = Queued
  BY <1>1, <1>3, <1>5, <1>6, <1>7, RangeEmpty DEF InOutframe, Queued
<1>9. Attached' = Attached /\ Ids' = Ids /\ MatchesAreRight'
  BY <1>1, AttachedSame DEF Inv2
<1>10. HashIsUnanswered'
  BY SMTT(30), <1>1, <1>8 DEF Inv2, HashIsUnanswered, Hashed
<1>11. Placing'
  <2>1. IsInjective(outframe.packets) /\ InOutframe = Range(outframe.packets)
    BY <1>3 DEF Inv2, Placing, InOutframe
  <2>2. \A i \in 1..Len(out') : IsInjective(out'[i].packets)
    BY <2>1, <1>5, <1>7 DEF Inv2, Placing
  <2>3. \A i \in 1..Len(out) : Range(out[i].packets) \cap Range(f.packets) = {}
    BY SMTT(30), <2>1, <1>5 DEF Inv2, Placing, Output
  <2>4. ASSUME NEW i \in 1..Len(out'), NEW j \in 1..Len(out'), i # j
        PROVE  Range(out'[i].packets) \cap Range(out'[j].packets) = {}
    BY <2>3, <2>4, <1>7 DEF Inv2, Placing
  <2>5. outframe' # NoFrame => IsInjective(outframe'.packets)
    BY <1>6, RangeEmpty
  <2> QED BY <2>2, <2>4, <2>5, <1>1, <1>2, <1>8, <1>9 DEF Inv2, Placing
<1> QED BY <1>9, <1>10, <1>11

\* AdvancePacket moves the head of the queue to the output frame.
LEMMA PlacingAdvancePacket ==
    ASSUME Inv2, AdvancePacket
    PROVE  (Placing /\ HashIsUnanswered /\ MatchesAreRight)'
<1> DEFINE p == Head(packet_queue)
<1>1. /\ pc = "advance" /\ pkt' = pkt /\ response' = response
      /\ packet_queue' = Tail(packet_queue)
      /\ inframe' = inframe /\ pc' = pc /\ return' = return
  BY DEF AdvancePacket, heap, control
<1>2. Handled' = Handled
  BY <1>1 DEF Handled, Holding
<1>3. /\ outframe \in Frame /\ outframe # NoFrame /\ packet_queue # << >> /\ p \in Ids
      /\ packet_queue \in Seq(Ids) /\ outframe.packets \in Seq(Ids)
  BY <1>1, EvTimeProperties DEF Inv2, Inv1, TypeOK, AdvancePacket, Frame
<1>4. /\ Len(packet_queue) \in Nat \ {0} /\ Len(Tail(packet_queue)) = Len(packet_queue) - 1
      /\ p = packet_queue[1]
      /\ \A i \in 1..Len(Tail(packet_queue)) : Tail(packet_queue)[i] = packet_queue[i + 1]
  BY SMTT(30), <1>3, HeadTailFacts, LenFacts
<1>5. \A i, j \in 1..Len(packet_queue) : i < j => packet_queue[i] < packet_queue[j]
  BY DEF Inv2, Placing
<1>6. IsInjective(packet_queue)
  <2>1. \A i \in 1..Len(packet_queue) : packet_queue[i] \in Int
    BY SMTT(30), <1>3, LenFacts DEF Ids
  <2>2. \A i, j \in 1..Len(packet_queue) : packet_queue[i] = packet_queue[j] => i = j
    BY <1>4, <1>5, <2>1
  <2> QED BY <2>2, <1>3, RangeByPosition
<1>7. Queued' = Queued \ {p} /\ p \in Queued
  BY <1>1, <1>3, <1>6, RangeTail DEF Queued
<1>8. \A i, j \in 1..Len(packet_queue') : i < j => packet_queue'[i] < packet_queue'[j]
  BY SMTT(30), <1>1, <1>4, <1>5
<1>9. Attached' = Attached /\ Ids' = Ids /\ MatchesAreRight'
  BY <1>1, AttachedSame DEF Inv2
<1>10. HashIsUnanswered' /\ Descending(hash_table')
  <2>1. hash_table' = Forget(p)
    BY DEF AdvancePacket
  <2>2. CASE pkt[p].request /\ response[p] = 0
    <3>1. p \in Hashed /\ hash_table' = MapRemove(hash_table, pkt[p].key, p)
      BY <2>1, <2>2, <1>7 DEF Inv2, HashIsUnanswered, Forget
    <3> HIDE DEF p
    <3>2. /\ Hashed' = Hashed \ {p}
          /\ \A k \in Keys : /\ \A q \in Range(hash_table'[k]) : pkt[q].key = k
                             /\ IsInjective(hash_table'[k])
          /\ Descending(hash_table')
      BY <3>1, HashRemoval
    <3>3. Hashed' = {q \in Queued' : pkt'[q].request /\ response'[q] = 0}
      BY <3>2, <1>1, <1>7 DEF Inv2, HashIsUnanswered
    <3> QED BY <3>2, <3>3, <1>1 DEF HashIsUnanswered
  <2>3. CASE ~(pkt[p].request /\ response[p] = 0)
    <3>1. hash_table' = hash_table
      BY <2>1, <2>3 DEF Forget
    <3> HIDE DEF p
    <3>2. Hashed' = {q \in Queued' : pkt'[q].request /\ response'[q] = 0}
      BY SMTT(30), <3>1, <2>3, <1>1, <1>7 DEF Inv2, HashIsUnanswered, Hashed
    <3> QED BY <3>1, <3>2, <1>1 DEF Inv2, HashIsUnanswered, Placing, Descending
  <2> QED BY <2>2, <2>3
<1>11. p \notin InOutframe /\ p \notin Output /\ p \notin Attached
  BY <1>7 DEF Inv2, Placing
<1>12. IsInjective(outframe.packets) /\ InOutframe = Range(outframe.packets)
  BY <1>3 DEF Inv2, Placing, InOutframe
<1> HIDE DEF p
<1>13. CASE Fits(p)
  <2>1. outframe' = AppendPacket(outframe, p) /\ out' = out
    BY <1>13 DEF AdvancePacket, p
  <2>2. outframe' # NoFrame /\ outframe'.packets = Append(outframe.packets, p)
    <3>1. outframe' \in Frame
      BY <2>1, <1>3, AppendPacketType DEF Inv2, Inv1, TypeOK
    <3> QED BY <3>1, <2>1, <1>3, FrameTypes DEF AppendPacket, Frame
  <2>3. InOutframe' = InOutframe \cup {p} /\ IsInjective(outframe'.packets)
    BY SMTT(30), <2>2, <1>3, <1>11, <1>12, RangeAppend DEF InOutframe
  <2>4. Output' = Output
    BY <2>1 DEF Output
  <2>5. Placing'
    BY ZenonT(30), <2>1, <2>3, <2>4, <1>1, <1>2, <1>7, <1>8, <1>9, <1>10, <1>11
       DEF Inv2, Placing, Descending
  <2> QED BY <2>5, <1>9, <1>10
<1>14. CASE ~Fits(p)
  <2> DEFINE new == NewFrame(outframe.time_end, outframe.time_end)
  <2>1. outframe' = AppendPacket(new, p) /\ out' = Append(out, outframe)
    BY <1>14 DEF AdvancePacket, Enqueue, p
  <2>2. new \in Frame /\ new.packets = << >> /\ outframe \in OutFrame
    BY <1>3, FrameTypes DEF Frame, NewFrame
  <2> HIDE DEF new
  <2>3. outframe' # NoFrame /\ outframe'.packets = Append(<< >>, p)
    <3>1. outframe' \in Frame
      BY <2>1, <2>2, <1>3, AppendPacketType DEF Inv2, Inv1, TypeOK
    <3> QED BY <3>1, <2>1, <2>2, FrameTypes DEF AppendPacket, Frame
  <2>4. InOutframe' = {p} /\ IsInjective(outframe'.packets)
    BY <2>3, RangeSingleton DEF InOutframe
  <2>5. /\ Output' = Output \cup Range(outframe.packets)
        /\ Len(out') = Len(out) + 1 /\ Len(out) \in Nat /\ out'[Len(out) + 1] = outframe
        /\ \A i \in 1..Len(out) : out'[i] = out[i]
        /\ \A i \in 1..Len(out') : i \in 1..Len(out) \/ i = Len(out) + 1
    BY <2>1, <2>2, EnqueueOutput DEF Inv2, Inv1, TypeOK
  <2>6. \A i \in 1..Len(out') : IsInjective(out'[i].packets)
    BY <2>5, <1>12 DEF Inv2, Placing
  <2>7. \A i \in 1..Len(out) : Range(out[i].packets) \cap Range(outframe.packets) = {}
    BY SMTT(30), <1>12 DEF Inv2, Placing, Output
  <2>8. ASSUME NEW i \in 1..Len(out'), NEW j \in 1..Len(out'), i # j
        PROVE  Range(out'[i].packets) \cap Range(out'[j].packets) = {}
    BY <2>5, <2>7, <2>8 DEF Inv2, Placing
  <2>9. Placing'
    <3>1. Output' = Output \cup InOutframe
      BY <2>5, <1>12
    <3>2. /\ (1..Handled = Queued \cup InOutframe \cup Output \cup Attached)'
          /\ (Queued \cap (InOutframe \cup Output \cup Attached) = {})'
          /\ (InOutframe \cap (Output \cup Attached) = {})'
          /\ (Output \cap Attached = {})'
      BY SMTT(30), <3>1, <2>4, <1>2, <1>7, <1>9, <1>11 DEF Inv2, Placing
    <3> QED BY <3>2, <2>4, <2>6, <2>8, <1>1, <1>8, <1>9, <1>10 DEF Inv2, Placing, Descending
  <2> QED BY <2>9, <1>9, <1>10
<1> QED BY <1>13, <1>14

\* Handling the packet in hand counts it.
LEMMA HandledNext ==
    ASSUME Inv2, Holding, ~Holding', pkt' = pkt, inframe' = inframe
    PROVE  /\ cur = Handled + 1 /\ cur \in Ids /\ Handled \in Nat
           /\ Handled' = Handled + 1 /\ 1..Handled' = (1..Handled) \cup {cur}
           /\ cur \notin 1..Handled /\ response[cur] = 0
<1> DEFINE m == IF inframe = NoFrame THEN 0 ELSE Len(inframe.packets)
<1>1. cur = Handled + 1 /\ cur \in Ids /\ Handled \in Nat /\ Len(pkt) \in Nat
  BY HandledProperties DEF Inv2
<1>2. m \in Nat
  BY LenFacts DEF Inv2, Inv1, TypeOK, Frame
<1>3. Handled = Len(pkt) - m - 1 /\ Handled' = Len(pkt) - m - 0
  BY DEF Handled
<1> HIDE DEF m
<1>4. Handled' = Handled + 1
  BY <1>1, <1>2, <1>3
<1>5. response[cur] = 0
  <2>1. ASSUME response[cur] # 0 PROVE FALSE
    <3>1. cur < response[cur] /\ response[cur] \in 1..Handled
      BY <2>1, <1>1, HandledFacts
    <3> QED BY <3>1, <1>1
  <2> QED BY <2>1
<1> QED BY <1>1, <1>4, <1>5

\* A packet put into the queue is the newest in it.
LEMMA QueueAppend ==
    ASSUME Inv2, cur = Handled + 1, cur \in Ids, Handled \in Nat,
           packet_queue' = Append(packet_queue, cur)
    PROVE  /\ Queued' = Queued \cup {cur}
           /\ \A i, j \in 1..Len(packet_queue') : i < j => packet_queue'[i] < packet_queue'[j]
<1>1. packet_queue \in Seq(Ids) /\ Queued \subseteq 1..Handled
  BY HandledFacts DEF Inv2, Inv1, TypeOK
<1>2. Queued' = Queued \cup {cur}
  BY SMTT(30), <1>1, RangeAppend DEF Queued
<1>3. /\ Len(packet_queue') = Len(packet_queue) + 1 /\ Len(packet_queue) \in Nat
      /\ \A i \in 1..Len(packet_queue) : packet_queue'[i] = packet_queue[i]
      /\ packet_queue'[Len(packet_queue) + 1] = cur
  BY SMTT(30), <1>1, AppendFacts, LenFacts
<1>4. \A i \in 1..Len(packet_queue) : packet_queue[i] \in 1..Handled
  BY SMTT(30), <1>1, RangeByPosition DEF Queued
<1>5. ASSUME NEW i \in 1..Len(packet_queue'), NEW j \in 1..Len(packet_queue'), i < j
      PROVE  packet_queue'[i] < packet_queue'[j]
  <2>1. i \in 1..Len(packet_queue)
    BY <1>3, <1>5
  <2>2. CASE j \in 1..Len(packet_queue)
    BY <2>1, <2>2, <1>3, <1>5 DEF Inv2, Placing
  <2>3. CASE j = Len(packet_queue) + 1
    BY <2>1, <2>3, <1>3, <1>4
  <2> QED BY <2>2, <2>3, <1>3
<1> QED BY <1>2, <1>5

\* A request joins the queue and the hash.
LEMMA PlacingHandleRequest ==
    ASSUME Inv2, HandleRequest
    PROVE  (Placing /\ HashIsUnanswered /\ MatchesAreRight)'
<1>1. /\ pc = "handle" /\ Holding /\ ~Holding' /\ pkt' = pkt /\ response' = response
      /\ packet_queue' = Append(packet_queue, cur) /\ inframe' = inframe
      /\ outframe' = outframe /\ out' = out
  BY DEF HandleRequest, heap, Holding
<1>2. /\ cur = Handled + 1 /\ cur \in Ids /\ Handled \in Nat
      /\ 1..Handled' = (1..Handled) \cup {cur}
      /\ cur \notin 1..Handled /\ response[cur] = 0
  BY <1>1, HandledNext
<1>3. Queued \subseteq 1..Handled /\ cur \notin Queued
  BY <1>2, HandledFacts
<1>4. /\ Queued' = Queued \cup {cur}
      /\ \A i, j \in 1..Len(packet_queue') : i < j => packet_queue'[i] < packet_queue'[j]
  BY <1>1, <1>2, QueueAppend
<1>6. /\ InOutframe' = InOutframe /\ Output' = Output /\ Attached' = Attached /\ Ids' = Ids
      /\ MatchesAreRight'
  BY <1>1, AttachedSame DEF InOutframe, Output, Inv2
<1>7. HashIsUnanswered' /\ Descending(hash_table')
  <2> DEFINE key == pkt[cur].key
             list == hash_table[key]
  <2>1. key \in Keys /\ hash_table \in [Keys -> Seq(Ids)] /\ list \in Seq(Ids) /\ pkt[cur].request
    BY <1>2, PacketType DEF Inv2, Inv1, TypeOK, HandleRequest
  <2>2. /\ hash_table'[key] = <<cur>> \o list
        /\ \A k \in Keys \ {key} : hash_table'[k] = hash_table[k]
    BY <2>1 DEF HandleRequest, MapInsert
  <2>3. \A k \in Keys : /\ \A q \in Range(hash_table[k]) : pkt[q].key = k
                        /\ IsInjective(hash_table[k])
                        /\ Range(hash_table[k]) \subseteq Queued
    BY SMTT(30) DEF Inv2, HashIsUnanswered, Hashed
  <2>4. /\ Len(<<cur>> \o list) = Len(list) + 1 /\ (<<cur>> \o list)[1] = cur
        /\ \A i \in 1..Len(list) : (<<cur>> \o list)[i + 1] = list[i]
        /\ Range(<<cur>> \o list) = {cur} \cup Range(list)
        /\ IsInjective(<<cur>> \o list)
    BY SMTT(30), <2>1, <2>3, <1>2, <1>3, RangeCons
  <2> HIDE DEF key, list
  <2>5. /\ \A k \in Keys : /\ \A q \in Range(hash_table'[k]) : pkt[q].key = k
                           /\ IsInjective(hash_table'[k])
    <3> SUFFICES ASSUME NEW k \in Keys
                 PROVE  /\ \A q \in Range(hash_table'[k]) : pkt[q].key = k
                        /\ IsInjective(hash_table'[k])
      OBVIOUS
    <3>1. CASE k # key
      BY <3>1, <2>2, <2>3
    <3>2. CASE k = key
      <4>1. \A q \in Range(list) : pkt[q].key = key
        BY <2>1, <2>3 DEF list
      <4>2. pkt[cur].key = key
        BY DEF key
      <4> QED BY <4>1, <4>2, <3>2, <2>2, <2>4
    <3> QED BY <3>1, <3>2
  <2>6. Hashed' = Hashed \cup {cur}
    <3>1. \A k \in Keys : Range(hash_table'[k]) = IF k = key THEN {cur} \cup Range(hash_table[k])
                                                  ELSE Range(hash_table[k])
      BY <2>1, <2>2, <2>4 DEF list
    <3> QED BY <3>1, <2>1 DEF Hashed
  <2>7. Hashed' = {q \in Queued' : pkt'[q].request /\ response'[q] = 0}
    <3>1. Hashed = {q \in Queued : pkt[q].request /\ response[q] = 0}
      BY DEF Inv2, HashIsUnanswered
    <3> QED BY <3>1, <2>1, <2>6, <1>1, <1>2, <1>4
  <2>8. Descending(hash_table')
    <3> SUFFICES ASSUME NEW k \in Keys, NEW i \in 1..Len(hash_table'[k]),
                        NEW j \in 1..Len(hash_table'[k]), i < j
                 PROVE  hash_table'[k][j] < hash_table'[k][i]
      BY DEF Descending
    <3>1. Descending(hash_table)
      BY DEF Inv2, Placing, Descending
    <3>2. CASE k # key
      BY <3>1, <3>2, <2>2 DEF Descending
    <3>3. CASE k = key
      <4>1. Len(list) \in Nat /\ j - 1 \in 1..Len(list) /\ j = (j - 1) + 1
        BY SMTT(30), <3>3, <2>1, <2>2, <2>4, LenFacts
      <4>2. hash_table'[k][j] = list[j - 1]
        BY <4>1, <3>3, <2>2, <2>4
      <4>3. CASE i = 1
        <5>1. list[j - 1] \in 1..Handled
          <6>1. list[j - 1] \in Range(list)
            BY SMTT(30), <4>1, <2>1, RangeByPosition
          <6>2. Range(list) \subseteq Queued
            BY <2>1, <2>3 DEF list
          <6> QED BY <6>1, <6>2, <1>3
        <5> QED BY SMTT(30), <5>1, <4>2, <4>3, <3>3, <2>2, <2>4, <1>2
      <4>4. CASE i # 1
        <5>1. i - 1 \in 1..Len(list) /\ i = (i - 1) + 1 /\ i - 1 < j - 1
          BY <4>1, <4>4
        <5>2. hash_table'[k][i] = list[i - 1]
          BY <5>1, <3>3, <2>2, <2>4
        <5> QED BY <5>1, <5>2, <4>1, <4>2, <3>1, <2>1 DEF Descending, list
      <4> QED BY <4>3, <4>4
    <3> QED BY <3>2, <3>3
  <2> QED BY <2>5, <2>7, <2>8, <1>1 DEF HashIsUnanswered
<1>8. /\ cur \notin InOutframe /\ cur \notin Output /\ cur \notin Attached
  BY <1>2 DEF Inv2, Placing
<1>9. /\ (1..Handled = Queued \cup InOutframe \cup Output \cup Attached)'
      /\ (Queued \cap (InOutframe \cup Output \cup Attached) = {})'
      /\ (InOutframe \cap (Output \cup Attached) = {})'
      /\ (Output \cap Attached = {})'
  BY SMTT(30), <1>2, <1>4, <1>6, <1>8 DEF Inv2, Placing
<1>10. Placing'
  BY <1>1, <1>4, <1>6, <1>7, <1>9 DEF Inv2, Placing, Descending
<1> QED BY <1>6, <1>7, <1>10

\* An unmatched response joins the queue.
LEMMA PlacingHandleUnmatched ==
    ASSUME Inv2, HandleUnmatched
    PROVE  (Placing /\ HashIsUnanswered /\ MatchesAreRight)'
<1>1. /\ pc = "handle" /\ Holding /\ ~Holding' /\ pkt' = pkt /\ response' = response
      /\ packet_queue' = Append(packet_queue, cur) /\ inframe' = inframe
      /\ outframe' = outframe /\ out' = out /\ hash_table' = hash_table /\ ~pkt[cur].request
  BY DEF HandleUnmatched, heap, Holding
<1>2. /\ cur = Handled + 1 /\ cur \in Ids /\ Handled \in Nat
      /\ 1..Handled' = (1..Handled) \cup {cur} /\ cur \notin 1..Handled
  BY <1>1, HandledNext
<1>3. /\ Queued' = Queued \cup {cur}
      /\ \A i, j \in 1..Len(packet_queue') : i < j => packet_queue'[i] < packet_queue'[j]
  BY <1>1, <1>2, QueueAppend
<1>4. /\ InOutframe' = InOutframe /\ Output' = Output /\ Attached' = Attached /\ Ids' = Ids
      /\ MatchesAreRight'
  BY <1>1, AttachedSame DEF InOutframe, Output, Inv2
<1>5. HashIsUnanswered'
  <2>1. /\ Hashed = {q \in Queued : pkt[q].request /\ response[q] = 0}
        /\ Hashed' = Hashed
    BY SMTT(30), <1>1 DEF Inv2, HashIsUnanswered, Hashed
  <2>2. Hashed' = {q \in Queued' : pkt'[q].request /\ response'[q] = 0}
    BY <2>1, <1>1, <1>3
  <2> QED BY <2>2, <1>1 DEF Inv2, HashIsUnanswered
<1>6. /\ cur \notin InOutframe /\ cur \notin Output /\ cur \notin Attached
  BY <1>2 DEF Inv2, Placing
<1>7. /\ (1..Handled = Queued \cup InOutframe \cup Output \cup Attached)'
      /\ (Queued \cap (InOutframe \cup Output \cup Attached) = {})'
      /\ (InOutframe \cap (Output \cup Attached) = {})'
      /\ (Output \cap Attached = {})'
  BY SMTT(30), <1>2, <1>3, <1>4, <1>6 DEF Inv2, Placing
<1>8. Placing'
  BY <1>1, <1>3, <1>4, <1>7 DEF Inv2, Placing
<1> QED BY <1>4, <1>5, <1>8

\* A matched response is attached to its request, which leaves the hash.
LEMMA PlacingHandleMatched ==
    ASSUME Inv2, HandleMatched
    PROVE  (Placing /\ HashIsUnanswered /\ MatchesAreRight)'
<1> DEFINE req == RequestFor(cur)
<1>1. /\ pc = "handle" /\ Holding /\ ~Holding' /\ pkt' = pkt
      /\ packet_queue' = packet_queue /\ inframe' = inframe
      /\ outframe' = outframe /\ out' = out /\ ~pkt[cur].request /\ req # 0
      /\ hash_table' = MapRemove(hash_table, pkt[cur].key, req)
      /\ response' = [response EXCEPT ![req] = cur]
  BY DEF HandleMatched, Holding
<1>2. /\ cur = Handled + 1 /\ cur \in Ids /\ Handled \in Nat
      /\ 1..Handled' = (1..Handled) \cup {cur} /\ cur \notin 1..Handled
  BY <1>1, HandledNext
<1>3. /\ req \in Ids /\ req \in Range(hash_table[pkt[cur].key]) /\ pkt[cur].key \in Keys
      /\ Match(req, cur)
  BY <1>1, RequestForProperties DEF Inv2
<1> HIDE DEF req
<1>4. /\ req \in Hashed /\ pkt[req].key = pkt[cur].key
      /\ pkt[req].request /\ response[req] = 0 /\ req \in Queued
  <2>1. req \in Hashed /\ pkt[req].key = pkt[cur].key
    BY <1>3 DEF Hashed, Inv2, HashIsUnanswered
  <2> QED BY <2>1, HashedUnderKey
<1>5. /\ Hashed' = Hashed \ {req}
      /\ \A k \in Keys : /\ \A q \in Range(hash_table'[k]) : pkt[q].key = k
                         /\ IsInjective(hash_table'[k])
      /\ Descending(hash_table')
  BY <1>1, <1>4, HashRemoval
<1>6. /\ \A i \in Ids : response'[i] = IF i = req THEN cur ELSE response[i]
      /\ Ids' = Ids
  BY SMTT(30), <1>1, <1>3 DEF Inv2, Inv1, TypeOK, Ids
<1>7. /\ Queued' = Queued /\ InOutframe' = InOutframe /\ Output' = Output
  BY <1>1 DEF Queued, InOutframe, Output
<1>8. Attached' = Attached \cup {cur}
  <2>1. cur # 0
    BY <1>2
  <2>2. Attached' = {response'[i] : i \in Ids} \ {0}
    BY <1>6 DEF Attached
  <2> QED BY <2>1, <2>2, <1>3, <1>4, <1>6 DEF Attached
<1>9. HashIsUnanswered'
  <2>1. Hashed = {q \in Queued : pkt[q].request /\ response[q] = 0}
    BY DEF Inv2, HashIsUnanswered
  <2>2. Queued \subseteq Ids /\ cur # 0
    BY SMTT(30), <1>2, HandledFacts
  <2>3. Hashed' = {q \in Queued' : pkt'[q].request /\ response'[q] = 0}
    BY SMTT(30), <2>1, <2>2, <1>1, <1>4, <1>5, <1>6, <1>7
  <2> QED BY <2>3, <1>1, <1>5 DEF HashIsUnanswered
<1>10. MatchesAreRight'
  <2>1. req < cur
    <3>1. req \in 1..Handled
      BY <1>4, HandledFacts
    <3> QED BY <3>1, <1>2
  <2> SUFFICES ASSUME NEW i \in Ids, response'[i] # 0
               PROVE  /\ pkt[i].request /\ ~pkt[response'[i]].request /\ i < response'[i]
                      /\ pkt[i].key = pkt[response'[i]].key /\ Match(i, response'[i])
    BY <1>1, <1>6 DEF MatchesAreRight, Match, QnameMatch
  <2>2. CASE i = req
    BY <2>1, <2>2, <1>1, <1>3, <1>4, <1>6
  <2>3. CASE i # req
    BY <2>3, <1>6 DEF Inv2, MatchesAreRight
  <2> QED BY <2>2, <2>3
<1>11. cur \notin Queued /\ cur \notin InOutframe /\ cur \notin Output /\ cur \notin Attached
  BY <1>2 DEF Inv2, Placing
<1>12. /\ (1..Handled = Queued \cup InOutframe \cup Output \cup Attached)'
       /\ (Queued \cap (InOutframe \cup Output \cup Attached) = {})'
       /\ (InOutframe \cap (Output \cup Attached) = {})'
       /\ (Output \cap Attached = {})'
  BY SMTT(30), <1>2, <1>7, <1>8, <1>11 DEF Inv2, Placing
<1>13. \A i, j \in Ids : response'[i] = response'[j] /\ i # j => response'[i] = 0
  <2>1. \A i \in Ids : response[i] # cur
    BY <1>2, <1>11 DEF Attached
  <2> QED BY <2>1, <1>6 DEF Inv2, Placing
<1>14. Placing'
  BY <1>1, <1>5, <1>6, <1>12, <1>13 DEF Inv2, Placing, Descending
<1> QED BY <1>9, <1>10, <1>14

\* The end of main puts the last frame and the final one out.
LEMMA PlacingEnd ==
    ASSUME Inv2, Flush \/ Finish
    PROVE  (Placing /\ HashIsUnanswered /\ MatchesAreRight)'
<1>1. /\ pkt' = pkt /\ response' = response /\ packet_queue' = packet_queue
      /\ hash_table' = hash_table /\ inframe' = inframe /\ ~Holding /\ ~Holding'
  BY DEF Flush, Finish, heap, Holding
<1>2. Handled' = Handled
  BY <1>1 DEF Handled
<1>3. Attached' = Attached /\ Ids' = Ids /\ MatchesAreRight' /\ Queued' = Queued
  BY <1>1, AttachedSame DEF Inv2, Queued
<1>4. HashIsUnanswered'
  BY SMTT(30), <1>1, <1>3 DEF Inv2, HashIsUnanswered, Hashed
<1>5. CASE out' = out /\ InOutframe' = InOutframe /\ outframe' = NoFrame
  <2>1. Output' = Output
    BY <1>5 DEF Output
  <2> QED BY <2>1, <1>1, <1>2, <1>3, <1>4, <1>5 DEF Inv2, Placing
<1>6. ASSUME NEW f \in OutFrame, out' = Append(out, f), Range(f.packets) = InOutframe,
             IsInjective(f.packets), outframe' = NoFrame
      PROVE  Placing'
  <2>1. /\ Output' = Output \cup InOutframe
        /\ Len(out') = Len(out) + 1 /\ Len(out) \in Nat /\ out'[Len(out) + 1] = f
        /\ \A i \in 1..Len(out) : out'[i] = out[i]
        /\ \A i \in 1..Len(out') : i \in 1..Len(out) \/ i = Len(out) + 1
    BY <1>6, EnqueueOutput DEF Inv2, Inv1, TypeOK
  <2>2. InOutframe' = {}
    BY <1>6 DEF InOutframe
  <2>3. \A i \in 1..Len(out') : IsInjective(out'[i].packets)
    BY <2>1, <1>6 DEF Inv2, Placing
  <2>4. \A i \in 1..Len(out) : Range(out[i].packets) \cap Range(f.packets) = {}
    BY SMTT(30), <1>6 DEF Inv2, Placing, Output
  <2>5. ASSUME NEW i \in 1..Len(out'), NEW j \in 1..Len(out'), i # j
        PROVE  Range(out'[i].packets) \cap Range(out'[j].packets) = {}
    BY <2>1, <2>4, <2>5 DEF Inv2, Placing
  <2>6. /\ (1..Handled = Queued \cup InOutframe \cup Output \cup Attached)'
        /\ (Queued \cap (InOutframe \cup Output \cup Attached) = {})'
        /\ (InOutframe \cap (Output \cup Attached) = {})'
        /\ (Output \cap Attached = {})'
    BY <2>1, <2>2, <1>2, <1>3 DEF Inv2, Placing
  <2> QED BY <2>3, <2>5, <2>6, <1>1, <1>3, <1>6 DEF Inv2, Placing
<1>7. CASE Flush
  <2>1. CASE outframe = NoFrame
    BY <2>1, <1>3, <1>4, <1>5, <1>7 DEF Flush, InOutframe
  <2>2. CASE outframe # NoFrame
    <3>1. /\ outframe \in OutFrame /\ out' = Append(out, outframe) /\ outframe' = NoFrame
          /\ Range(outframe.packets) = InOutframe /\ IsInjective(outframe.packets)
      BY <2>2, <1>7, FrameTypes DEF Flush, Enqueue, InOutframe, Inv2, Inv1, TypeOK, Placing
    <3> QED BY <3>1, <1>3, <1>4, <1>6
  <2> QED BY <2>1, <2>2
<1>8. CASE Finish
  <2> DEFINE f == FinalFrame(current_time)
  <2>1. outframe = NoFrame /\ outframe' = NoFrame
    BY <1>8 DEF Finish, Inv2, Inv1, Reading
  <2>2. f \in OutFrame /\ f.packets = << >>
    BY FrameTypes DEF Inv2, Inv1, TypeOK, FinalFrame, NewFrame
  <2>3. out' = Append(out, f)
    BY <1>8 DEF Finish, Enqueue
  <2>4. Range(f.packets) = InOutframe /\ IsInjective(f.packets)
    BY <2>1, <2>2, RangeEmpty DEF InOutframe
  <2> HIDE DEF f
  <2> QED BY <2>1, <2>2, <2>3, <2>4, <1>3, <1>4, <1>6
<1> QED BY <1>7, <1>8

\* The packets of a frame just dequeued are known and not handled.
LEMMA PlacingDequeue ==
    ASSUME Inv2, Inv1', NEW f \in InputFrame, Dequeue(f)
    PROVE  (Placing /\ HashIsUnanswered /\ MatchesAreRight)'
<1> DEFINE nums == [i \in 1..Len(f.packets) |-> Len(pkt) + i]
           g == [f EXCEPT !.packets = nums]
<1>1. /\ pkt' = pkt \o f.packets
      /\ response' = response \o [i \in 1..Len(f.packets) |-> 0]
      /\ LoadFinal(g) \/ SkipFrame(g) \/ LoadFrame(g)
  BY DEF Dequeue
<1>2. g.packets = nums /\ g.time_start = f.time_start /\ g.type = f.type
  BY DEF InputFrame
<1>3. /\ Len(pkt) \in Nat /\ Len(pkt') = Len(pkt) + Len(f.packets) /\ Len(f.packets) \in Nat
      /\ Len(nums) = Len(f.packets)
      /\ \A i \in Ids : pkt'[i] = pkt[i] /\ response'[i] = response[i]
      /\ \A i \in Ids' \ Ids : response'[i] = 0
      /\ Ids \subseteq Ids'
  <2> HIDE DEF nums
  <2>1. nums = [i \in 1..Len(f.packets) |-> Len(pkt) + i]
    BY DEF nums
  <2> QED BY ZenonT(30), <1>1, <2>1, FreshPackets, LenFacts DEF Inv2, Inv1, TypeOK
<1>4. f.type = 1 \/ nums = << >> => Len(f.packets) = 0
  <2>1. f.packets # << >> => f.type = 0
    BY DEF InputFrame
  <2>2. nums = << >> => Len(f.packets) = 0
    BY <1>3
  <2> QED BY <2>1, <2>2
<1> HIDE DEF nums, g
<1>5. /\ packet_queue' = packet_queue /\ hash_table' = hash_table /\ out' = out
      /\ pc = "load" /\ inframe = NoFrame /\ ~Holding /\ ~Holding'
  <2>1. pc = "load"
    BY <1>1 DEF LoadFinal, SkipFrame, LoadFrame
  <2>2. inframe = NoFrame /\ ~Holding
    BY <2>1 DEF Inv2, Inv1, Reading, Loaded, Holding
  <2>3. ~Holding'
    BY <2>1, <1>1 DEF LoadFinal, SkipFrame, LoadFrame, AdvanceTimeTo, control, Holding
  <2> QED BY <2>1, <2>2, <2>3, <1>1 DEF LoadFinal, SkipFrame, LoadFrame
<1>6. Handled = Len(pkt) /\ Handled' = Len(pkt)
  <2>1. Handled = Len(pkt) - 0 - 0
    BY <1>5 DEF Handled
  <2>2. CASE LoadFinal(g) \/ SkipFrame(g)
    <3>1. inframe' = NoFrame /\ Len(f.packets) = 0
      BY <2>2, <1>2, <1>4, <1>5 DEF LoadFinal, SkipFrame
    <3>2. Handled' = Len(pkt') - 0 - 0
      BY <3>1, <1>5 DEF Handled
    <3> QED BY SMTT(30), <3>1, <3>2, <2>1, <1>3
  <2>3. CASE LoadFrame(g)
    <3>1. inframe' = g /\ inframe' # NoFrame
      BY <2>3 DEF LoadFrame, AdvanceTimeTo, Inv1, Reading, Loaded
    <3>2. Handled' = Len(pkt') - Len(nums) - 0
      BY <3>1, <1>2, <1>5 DEF Handled
    <3> QED BY SMTT(30), <3>2, <2>1, <1>3
  <2> QED BY <2>2, <2>3, <1>1
<1>7. InOutframe' = InOutframe /\ (outframe' # NoFrame => IsInjective(outframe'.packets))
  <2>1. CASE outframe' = outframe
    BY <2>1 DEF InOutframe, Inv2, Placing
  <2>2. CASE outframe = NoFrame /\ outframe' = NewFrame(g.time_start, g.time_start)
    BY <2>2, RangeEmpty DEF InOutframe, NewFrame
  <2> QED BY <2>1, <2>2, <1>1 DEF LoadFinal, SkipFrame, LoadFrame
<1>8. Queued' = Queued /\ Output' = Output /\ Queued \subseteq Ids
  BY <1>5, HandledFacts DEF Queued, Output
<1>9. Attached' = Attached
  <2>1. \A x \in Attached' : x \in Attached
    BY <1>3 DEF Attached
  <2>2. \A x \in Attached : x \in Attached'
    BY <1>3 DEF Attached
  <2> QED BY <2>1, <2>2
<1>10. HashIsUnanswered'
  <2>1. Hashed' = Hashed /\ Hashed = {q \in Queued : pkt[q].request /\ response[q] = 0}
    BY SMTT(30), <1>5 DEF Inv2, HashIsUnanswered, Hashed
  <2>2. Hashed' = {q \in Queued' : pkt'[q].request /\ response'[q] = 0}
    BY <2>1, <1>3, <1>8
  <2>3. \A k \in Keys : \A p \in Range(hash_table[k]) : p \in Ids /\ pkt[p].key = k
    BY SMTT(30), HashedUnderKey DEF Hashed, Inv2, HashIsUnanswered
  <2> QED BY ZenonT(30), <2>2, <2>3, <1>3, <1>5 DEF Inv2, HashIsUnanswered
<1>11. MatchesAreRight'
  <2> SUFFICES ASSUME NEW i \in Ids', response'[i] # 0
               PROVE  (/\ pkt[i].request /\ ~pkt[response[i]].request /\ i < response[i]
                       /\ pkt[i].key = pkt[response[i]].key /\ Match(i, response[i]))'
    BY DEF MatchesAreRight
  <2>1. i \in Ids /\ response'[i] = response[i] /\ response[i] # 0
    BY <1>3
  <2>2. response[i] \in Ids
    BY <2>1, HandledFacts
  <2> QED BY SMTT(30), <2>1, <2>2, <1>3 DEF Inv2, MatchesAreRight, Match, QnameMatch
<1>12. \A i, j \in Ids' : response'[i] = response'[j] /\ i # j => response'[i] = 0
  BY <1>3 DEF Inv2, Placing
<1>13. Placing'
  BY <1>5, <1>6, <1>7, <1>8, <1>9, <1>12 DEF Inv2, Placing
<1> QED BY <1>10, <1>11, <1>13

\* The steps that read and that wait move no packet.
LEMMA PlacingQuiet ==
    ASSUME Inv2, Inv1',
           \/ AdvanceDone \/ AdvanceQuiet \/ ReadPacket \/ ReadEnd \/ Unload \/ Take
           \/ UNCHANGED vars
    PROVE  (Placing /\ HashIsUnanswered /\ MatchesAreRight)'
<1>1. /\ pkt' = pkt /\ response' = response /\ packet_queue' = packet_queue
      /\ hash_table' = hash_table /\ outframe' = outframe /\ out' = out
  BY DEF AdvanceDone, AdvanceQuiet, ReadPacket, ReadEnd, Unload, Take, vars, heap
<1>2. Len(pkt) \in Nat
  BY LenFacts DEF Inv2, Inv1, TypeOK
<1>3. CASE ReadPacket
  <2> DEFINE ps == inframe.packets
  <2>1. /\ ~Holding /\ Holding' /\ inframe # NoFrame /\ inframe' # NoFrame
        /\ inframe' = [inframe EXCEPT !.packets = Tail(ps)] /\ ps # << >>
    BY <1>3 DEF ReadPacket, AdvanceTimeTo, Holding, Inv2, Inv1, Reading, Loaded
  <2>2. inframe \in Frame /\ ps \in Seq(Ids)
    BY <2>1 DEF Inv2, Inv1, TypeOK, Frame
  <2>3. Len(Tail(ps)) = Len(ps) - 1 /\ Len(ps) \in Nat
    BY <2>1, <2>2, HeadTailFacts, LenFacts
  <2>4. inframe'.packets = Tail(ps)
    BY <2>1, <2>2 DEF Frame
  <2>5. Handled = Len(pkt) - Len(ps) - 0
    BY <2>1 DEF Handled
  <2>6. Handled' = Len(pkt) - (Len(ps) - 1) - 1
    BY <2>1, <2>3, <2>4, <1>1 DEF Handled
  <2>7. Handled' = Handled
    <3> DEFINE m == Len(pkt)
               n == Len(ps)
    <3>1. Handled = m - n - 0 /\ Handled' = m - (n - 1) - 1 /\ m \in Nat /\ n \in Nat
      BY <2>3, <2>5, <2>6, <1>2
    <3> HIDE DEF m, n
    <3> QED BY <3>1
  <2> QED BY <2>7, <1>1, NothingMoves
<1>4. CASE Unload
  <2>1. ~Holding /\ ~Holding' /\ inframe # NoFrame /\ inframe' = NoFrame
    BY <1>4 DEF Unload, Holding, Inv2, Inv1, Reading, Loaded
  <2>2. Len(inframe.packets) = 0
    BY <1>4 DEF Unload, Inv2, Inv1, Reading
  <2>3. Handled = Len(pkt) - 0 - 0 /\ Handled' = Len(pkt) - 0 - 0
    BY <2>1, <2>2, <1>1 DEF Handled
  <2> QED BY <2>3, <1>1, NothingMoves
<1>5. CASE AdvanceDone \/ AdvanceQuiet \/ ReadEnd \/ Take \/ UNCHANGED vars
  <2>1. inframe' = inframe /\ (Holding' <=> Holding)
    BY <1>5 DEF AdvanceDone, AdvanceQuiet, ReadEnd, AdvanceTimeTo, Take, vars, heap, control,
                Holding, Inv2, Inv1, Reading
  <2>2. Handled' = Handled
    BY <2>1, <1>1 DEF Handled
  <2> QED BY <2>2, <1>1, NothingMoves
<1> QED BY <1>3, <1>4, <1>5

\* The second layer holds at first and every step preserves it.
LEMMA InitInv2 == Init => Inv2
<1> SUFFICES ASSUME Init PROVE Inv2
  OBVIOUS
<1>1. Inv1
  BY InitInv1
<1>2. /\ Queued = {} /\ InOutframe = {} /\ Output = {} /\ Attached = {} /\ Hashed = {}
      /\ Ids = {} /\ Handled = 0 /\ IsInjective(<< >>)
  <2>1. Range(<< >>) = {} /\ IsInjective(<< >>)
    BY RangeEmpty
  <2>2. Queued = {} /\ InOutframe = {} /\ Hashed = {}
    BY <2>1 DEF Init, Queued, InOutframe, Hashed
  <2>3. Ids = {} /\ 1..Len(out) = {}
    BY DEF Init, Ids
  <2>4. Output = {} /\ Attached = {}
    BY <2>3 DEF Output, Attached
  <2>5. Handled = 0
    BY DEF Init, Handled, Holding
  <2> QED BY <2>1, <2>2, <2>3, <2>4, <2>5
<1>3. Placing
  BY <1>2 DEF Init, Placing
<1>4. HashIsUnanswered
  BY <1>2, RangeEmpty DEF Init, HashIsUnanswered
<1>5. MatchesAreRight
  BY <1>2 DEF MatchesAreRight
<1> QED BY <1>1, <1>3, <1>4, <1>5 DEF Inv2

LEMMA MoveInv2 == Inv2 /\ Move => Inv2'
<1> SUFFICES ASSUME Inv2, Move PROVE Inv2'
  OBVIOUS
<1>1. Inv1'
  BY MoveInv1 DEF Inv2
<1>2. CASE AdvanceFrame
  BY <1>1, <1>2, PlacingAdvanceFrame DEF Inv2
<1>3. CASE AdvancePacket
  BY <1>1, <1>3, PlacingAdvancePacket DEF Inv2
<1>4. CASE HandleRequest \/ HandleMatched \/ HandleUnmatched
  BY <1>1, <1>4, PlacingHandleRequest, PlacingHandleMatched, PlacingHandleUnmatched DEF Inv2
<1>5. CASE Flush \/ Finish
  BY <1>1, <1>5, PlacingEnd DEF Inv2
<1>6. CASE \E f \in InputFrame : Dequeue(f)
  BY <1>1, <1>6, PlacingDequeue DEF Inv2
<1>7. CASE \/ AdvanceDone \/ AdvanceQuiet \/ ReadPacket \/ ReadEnd \/ Unload \/ Take
           \/ UNCHANGED vars
  BY <1>1, <1>7, PlacingQuiet DEF Inv2
<1> QED BY <1>2, <1>3, <1>4, <1>5, <1>6, <1>7 DEF Move, Step

LEMMA StepInv2 == Inv2 /\ [Next]_vars => Inv2'
BY MoveInv2, NextMoves

\* The hash holds exactly the queued requests that have no response, so that the
\* assertion in dns_packet_hash_remove_packet never fails.
THEOREM HashCorrect == Spec => []HashIsUnanswered
<1>1. Inv2 => HashIsUnanswered
  BY DEF Inv2
<1> QED BY <1>1, InitInv2, StepInv2, PTL DEF Spec

\* A response is attached only to an earlier request with its key and name.
THEOREM MatchesCorrect == Spec => []MatchesAreRight
<1>1. Inv2 => MatchesAreRight
  BY DEF Inv2
<1> QED BY <1>1, InitInv2, StepInv2, PTL DEF Spec

\* Where every packet is, with the ones not handled yet.
LEMMA PlacedOnce == Inv2 => EachPacketOnce
<1> SUFFICES ASSUME Inv2 PROVE EachPacketOnce
  OBVIOUS
<1>1. /\ Len(pkt) \in Nat /\ Handled \in 0..Len(pkt) /\ Pending = (Handled + 1)..Len(pkt)
  BY HandledProperties DEF Inv2
<1>2. /\ Ids = Pending \cup (1..Handled) /\ Pending \cap (1..Handled) = {}
  BY <1>1 DEF Ids
<1>3. IsInjective(packet_queue)
  <2>1. packet_queue \in Seq(Ids) /\ \A i \in 1..Len(packet_queue) : packet_queue[i] \in Nat
    <3>1. packet_queue \in Seq(Ids) /\ \A p \in Ids : p \in Nat
      BY DEF Inv2, Inv1, TypeOK, Ids
    <3> QED BY <3>1, LenFacts
  <2>2. ASSUME NEW i \in 1..Len(packet_queue), NEW j \in 1..Len(packet_queue),
               packet_queue[i] = packet_queue[j]
        PROVE  i = j
    <3>1. Len(packet_queue) \in Nat
      BY <2>1, LenFacts
    <3>2. /\ i < j => packet_queue[i] < packet_queue[j]
          /\ j < i => packet_queue[j] < packet_queue[i]
      BY DEF Inv2, Placing
    <3>3. packet_queue[i] \in Nat /\ packet_queue[j] \in Nat
      BY <2>1
    <3>4. ~(i < j) /\ ~(j < i)
      BY <2>2, <3>2, <3>3
    <3> QED BY <3>1, <3>4
  <2> QED BY <2>1, <2>2, RangeByPosition
<1> QED BY <1>2, <1>3 DEF Inv2, Placing, EachPacketOnce

\* The matcher loses no packet and puts none out twice.
THEOREM NoPacketLost == Spec => []EachPacketOnce
BY PlacedOnce, InitInv2, StepInv2, PTL DEF Spec
-----------------------------------------------------------------------------
\* A frame of the output by itself: its time and its size.
WellSized(f) == /\ f.time_start <= f.time_end
                /\ f.time_end <= f.time_start + FrameMaxDuration
                /\ f.size > FrameMaxSize => Len(f.packets) = 1

\* FramesTileTime, with the current output frame apart; and every frame put out
\* is one of data until the final one.
Framing ==
    /\ \A i \in 1..Len(out) : out[i].type = 0 =>
         WellSized(out[i]) /\ (i > 1 => out[i].time_start = out[i - 1].time_end)
    /\ outframe # NoFrame =>
         /\ outframe.type = 0 /\ WellSized(outframe) /\ current_time <= Deadline
         /\ Len(out) > 0 => outframe.time_start = out[Len(out)].time_end
    /\ outframe = NoFrame /\ pc \notin {"final", "done"} => out = << >>
    /\ pc # "done" => \A i \in 1..Len(out) : out[i].type = 0
    /\ pc = "done" => \A i \in 1..Len(out) : out[i].type = 1 <=> i = Len(out)

\* No packet in the queue is from the future once the loop of advance_time_to is
\* over, and the last time it runs to is past everything that waits.
Draining ==
    /\ \A i \in 1..Len(packet_queue) :
         \/ pkt[packet_queue[i]].ts <= current_time
         \/ pc = "advance" /\ pkt[packet_queue[i]].ts <= target
    /\ pc = "handle" => pkt[cur].ts <= current_time
    /\ pc = "advance" /\ return = "handle" => target = pkt[cur].ts
    /\ pc = "advance" /\ return = "flush" =>
         /\ packet_queue # << >> => current_time < target
         /\ \A i \in 1..Len(packet_queue) : ExitTime(packet_queue[i]) < target
    /\ pc \in {"flush", "final", "done"} => packet_queue = << >>

\* A frame put out has a time, but for the final one, which has no packets.
Sent == \A i \in 1..Len(out) : IF out[i].type = 0 THEN out[i].time_start \in Int
                                                 ELSE out[i].packets = << >>

Inv3 == Inv2 /\ Framing /\ Draining /\ Sent

\* The configured durations and size are numbers.
LEMMA Durations == MatchingDuration \in Nat /\ FrameMaxDuration \in Nat /\ FrameMaxSize \in Nat
BY MatcherAssumption

\* The fields of the frames the matcher builds.
LEMMA NewFrameFields ==
    ASSUME NEW t
    PROVE  /\ NewFrame(t, t).type = 0 /\ NewFrame(t, t).size = 0
           /\ NewFrame(t, t).time_start = t /\ NewFrame(t, t).time_end = t
           /\ NewFrame(t, t).packets = << >>
BY DEF NewFrame

LEMMA FrameFields ==
    ASSUME NEW f \in Frame
    PROVE  /\ f.type \in {0, 1} /\ f.time_start \in Int /\ f.time_end \in Int
           /\ f.size \in Nat /\ f.packets \in Seq(Ids)
BY DEF Frame

LEMMA AppendPacketFields ==
    ASSUME pkt \in Seq(Packet), NEW f \in Frame, NEW p \in Ids
    PROVE  LET g == AppendPacket(f, p)
           IN  /\ g \in Frame /\ g # NoFrame
               /\ g.type = f.type /\ g.time_start = f.time_start
               /\ g.time_end = IF f.time_end < pkt[p].ts THEN pkt[p].ts ELSE f.time_end
               /\ g.size = f.size + pkt[p].size /\ g.packets = Append(f.packets, p)
<1>1. f.time_end # NoTime
  BY FrameFields, MatcherAssumption
<1>2. AppendPacket(f, p) \in Frame /\ AppendPacket(f, p) # NoFrame
  BY AppendPacketType, FrameTypes
<1> QED BY <1>1, <1>2 DEF AppendPacket, Frame

\* What AdvanceFrame does: the frame put out ends where the next one starts.
LEMMA FrameClosed ==
    ASSUME Inv1, AdvanceFrame
    PROVE  /\ outframe \in Frame /\ outframe # NoFrame /\ outframe' # NoFrame
           /\ current_time' = Deadline /\ Deadline <= target
           /\ packet_queue # << >> => Deadline <= ExitTime(Head(packet_queue))
           /\ \E f \in OutFrame :
                /\ out' = Append(out, f)
                /\ f.type = outframe.type /\ f.time_start = outframe.time_start
                /\ f.time_end = outframe.time_start + FrameMaxDuration
                /\ f.size = outframe.size /\ f.packets = outframe.packets
                /\ outframe' = NewFrame(f.time_end, f.time_end)
<1>1. pc = "advance" /\ EvTime <= target /\ EvTime = Deadline /\ current_time' = EvTime
  BY DEF AdvanceFrame
<1>2. /\ outframe \in Frame /\ outframe # NoFrame /\ outframe.time_start \in Int
      /\ packet_queue # << >> => Deadline <= ExitTime(Head(packet_queue))
  BY <1>1, EvTimeProperties, FrameFields
<1> DEFINE end == EvTime - MatchingDuration
           f == [outframe EXCEPT !.time_end = end]
<1>3. end = outframe.time_start + FrameMaxDuration /\ end \in Int
  BY SMTT(30), <1>1, <1>2, Durations DEF Deadline
<1>4. out' = Append(out, f) /\ outframe' = NewFrame(end, end)
  BY DEF AdvanceFrame, Enqueue
<1> HIDE DEF end
<1>5. /\ f \in OutFrame /\ f.type = outframe.type /\ f.time_start = outframe.time_start
      /\ f.time_end = end /\ f.size = outframe.size /\ f.packets = outframe.packets
  BY <1>2, <1>3 DEF Frame, OutFrame
<1>6. outframe' # NoFrame
  BY <1>3, <1>4, FrameTypes
<1> HIDE DEF f
<1> QED BY <1>1, <1>2, <1>3, <1>4, <1>5, <1>6

\* What AdvancePacket does: the head of the queue joins frame g, which is the
\* output frame or one that follows it.
LEMMA PacketLeaves ==
    ASSUME Inv1, AdvancePacket, NEW p, p = Head(packet_queue)
    PROVE  /\ packet_queue # << >> /\ p \in Ids
           /\ outframe \in Frame /\ outframe # NoFrame
           /\ outframe' \in Frame /\ outframe' # NoFrame
           /\ current_time' = ExitTime(p) /\ ExitTime(p) <= target /\ ExitTime(p) < Deadline
           /\ \E g \in Frame :
                /\ \/ g = outframe /\ out' = out /\ outframe.size + pkt[p].size <= FrameMaxSize
                   \/ /\ g = NewFrame(outframe.time_end, outframe.time_end)
                      /\ out' = Append(out, outframe)
                /\ outframe'.type = g.type /\ outframe'.time_start = g.time_start
                /\ outframe'.time_end = IF g.time_end < pkt[p].ts THEN pkt[p].ts ELSE g.time_end
                /\ outframe'.size = g.size + pkt[p].size
                /\ outframe'.packets = Append(g.packets, p)
<1>1. /\ pc = "advance" /\ EvTime <= target /\ EvTime # Deadline /\ current_time' = EvTime
      /\ pkt' = pkt
  BY DEF AdvancePacket, heap
<1>2. /\ packet_queue # << >> /\ p \in Ids /\ outframe \in Frame /\ outframe # NoFrame
      /\ EvTime = ExitTime(p) /\ EvTime \in Int /\ Deadline \in Int /\ EvTime <= Deadline
  BY <1>1, EvTimeProperties
<1>3. ExitTime(p) < Deadline
  BY SMTT(30), <1>1, <1>2
<1> DEFINE new == NewFrame(outframe.time_end, outframe.time_end)
           g == IF Fits(p) THEN outframe ELSE new
<1>4. g \in Frame
  BY <1>2, FrameTypes, FrameFields
<1>5. outframe' = AppendPacket(g, p) /\ out' = IF Fits(p) THEN out ELSE Append(out, outframe)
  BY DEF AdvancePacket, Enqueue
<1>6. \/ g = outframe /\ out' = out /\ outframe.size + pkt[p].size <= FrameMaxSize
      \/ g = new /\ out' = Append(out, outframe)
  BY <1>5 DEF Fits
<1> HIDE DEF g, new
<1>7. /\ outframe' \in Frame /\ outframe' # NoFrame
      /\ outframe'.type = g.type /\ outframe'.time_start = g.time_start
      /\ outframe'.time_end = IF g.time_end < pkt[p].ts THEN pkt[p].ts ELSE g.time_end
      /\ outframe'.size = g.size + pkt[p].size /\ outframe'.packets = Append(g.packets, p)
  BY <1>2, <1>4, <1>5, AppendPacketFields DEF Inv1, TypeOK
<1> QED BY <1>1, <1>2, <1>3, <1>4, <1>6, <1>7 DEF new

\* A frame of data put out after the frames before it.
LEMMA PutOut ==
    ASSUME Inv1, Framing, pc # "done", NEW f \in OutFrame, f.type = 0, WellSized(f),
           Len(out) > 0 => f.time_start = out[Len(out)].time_end, out' = Append(out, f)
    PROVE  /\ \A i \in 1..Len(out') :
                /\ out'[i].type = 0 /\ WellSized(out'[i])
                /\ i > 1 => out'[i].time_start = out'[i - 1].time_end
           /\ Len(out') > 0 /\ out'[Len(out')] = f
<1> DEFINE n == Len(out)
           k == n + 1
<1>1. /\ n \in Nat /\ Len(out') = k /\ out'[k] = f /\ \A i \in 1..n : out'[i] = out[i]
  BY SMTT(30), AppendFacts, LenFacts DEF Inv1, TypeOK
<1>2. n > 0 => f.time_start = out[n].time_end
  OBVIOUS
<1>3. \A i \in 1..n : /\ out[i].type = 0 /\ WellSized(out[i])
                      /\ i > 1 => out[i].time_start = out[i - 1].time_end
  BY DEF Framing
<1>4. \A i \in 1..k : i \in 1..n \/ i = k
  BY <1>1
<1> HIDE DEF n
<1>5. ASSUME NEW i \in 1..k
      PROVE  /\ out'[i].type = 0 /\ WellSized(out'[i])
             /\ i > 1 => out'[i].time_start = out'[i - 1].time_end
  <2>1. out'[i].type = 0 /\ WellSized(out'[i])
    BY <1>1, <1>3, <1>4
  <2>2. ASSUME i > 1 PROVE out'[i].time_start = out'[i - 1].time_end
    <3>1. i - 1 \in 1..n
      BY SMTT(30), <2>2, <1>1
    <3>2. CASE i = k
      <4>1. i - 1 = n /\ n > 0
        BY <3>1, <3>2, <1>1
      <4> QED BY <4>1, <3>1, <3>2, <1>1, <1>2
    <3>3. CASE i \in 1..n
      BY <3>1, <3>3, <2>2, <1>1, <1>3
    <3> QED BY <3>2, <3>3, <1>4
  <2> QED BY <2>1, <2>2
<1>6. k > 0
  BY <1>1
<1> QED BY <1>1, <1>5, <1>6

\* A complete frame is put out, and the next one starts at its end.
LEMMA FramingAdvanceFrame ==
    ASSUME Inv1, Framing, AdvanceFrame
    PROVE  Framing'
<1>1. pc = "advance" /\ pc' = "advance" /\ current_time' = Deadline /\ outframe \in Frame
      /\ outframe # NoFrame /\ outframe' # NoFrame
  BY FrameClosed DEF AdvanceFrame, control
<1>2. PICK f \in OutFrame :
         /\ out' = Append(out, f)
         /\ f.type = outframe.type /\ f.time_start = outframe.time_start
         /\ f.time_end = outframe.time_start + FrameMaxDuration
         /\ f.size = outframe.size /\ f.packets = outframe.packets
         /\ outframe' = NewFrame(f.time_end, f.time_end)
  BY FrameClosed
<1>3. /\ outframe.type = 0 /\ WellSized(outframe) /\ outframe.time_start \in Int
      /\ Len(out) > 0 => f.time_start = out[Len(out)].time_end
  BY <1>1, <1>2, FrameFields DEF Framing
<1>4. WellSized(f) /\ f.time_end \in Int
  BY SMTT(30), <1>2, <1>3, Durations DEF WellSized
<1>5. /\ outframe'.type = 0 /\ outframe'.time_start = f.time_end
      /\ outframe'.time_end = f.time_end /\ outframe'.size = 0
  BY <1>2, NewFrameFields
<1>6. WellSized(outframe') /\ current_time' <= Deadline'
  <2> DEFINE s == outframe.time_start
             e == f.time_end
  <2>1. /\ Deadline = s + FrameMaxDuration + MatchingDuration
        /\ Deadline' = e + FrameMaxDuration + MatchingDuration
        /\ e = s + FrameMaxDuration /\ s \in Int /\ e \in Int
    BY <1>2, <1>3, <1>4, <1>5 DEF Deadline
  <2> HIDE DEF s, e
  <2>2. e <= e /\ e <= e + FrameMaxDuration /\ ~(0 > FrameMaxSize) /\ Deadline <= Deadline'
    BY SMTT(30), <2>1, Durations
  <2> QED BY <2>2, <1>1, <1>5 DEF WellSized, e
<1>7. /\ \A i \in 1..Len(out') :
           /\ out'[i].type = 0 /\ WellSized(out'[i])
           /\ i > 1 => out'[i].time_start = out'[i - 1].time_end
      /\ Len(out') > 0 /\ out'[Len(out')] = f
  BY <1>1, <1>2, <1>3, <1>4, PutOut
<1> QED BY <1>1, <1>5, <1>6, <1>7 DEF Framing

\* A packet joins the output frame, or the one that follows it.
LEMMA FramingAdvancePacket ==
    ASSUME Inv1, Framing, AdvancePacket
    PROVE  Framing'
<1> DEFINE p == Head(packet_queue)
<1>1. /\ p \in Ids /\ outframe \in Frame /\ outframe # NoFrame /\ outframe' # NoFrame
      /\ outframe' \in Frame /\ current_time' = ExitTime(p) /\ ExitTime(p) < Deadline
      /\ pc = "advance" /\ pc' = "advance"
  BY PacketLeaves DEF AdvancePacket, control
<1>2. PICK g \in Frame :
        /\ \/ g = outframe /\ out' = out /\ outframe.size + pkt[p].size <= FrameMaxSize
           \/ /\ g = NewFrame(outframe.time_end, outframe.time_end)
              /\ out' = Append(out, outframe)
        /\ outframe'.type = g.type /\ outframe'.time_start = g.time_start
        /\ outframe'.time_end = IF g.time_end < pkt[p].ts THEN pkt[p].ts ELSE g.time_end
        /\ outframe'.size = g.size + pkt[p].size
        /\ outframe'.packets = Append(g.packets, p)
  BY PacketLeaves
<1> HIDE DEF p
<1>3. /\ pkt[p].ts \in Int /\ pkt[p].size \in Nat
      /\ outframe.time_start \in Int /\ outframe.time_end \in Int
      /\ outframe.packets \in Seq(Ids) /\ outframe \in OutFrame
  BY <1>1, PacketType, FrameFields, FrameTypes DEF Inv1
<1>4. /\ outframe.type = 0 /\ WellSized(outframe)
      /\ Len(out) > 0 => outframe.time_start = out[Len(out)].time_end
  BY <1>1 DEF Framing
<1>5. pkt[p].ts < outframe.time_start + FrameMaxDuration
  <2> DEFINE s == outframe.time_start
             t == pkt[p].ts
  <2>1. /\ s \in Int /\ t \in Int
        /\ t + MatchingDuration < s + FrameMaxDuration + MatchingDuration
    BY <1>1, <1>3 DEF ExitTime, Deadline
  <2> HIDE DEF s, t
  <2>2. t < s + FrameMaxDuration
    BY SMTT(30), <2>1, Durations
  <2> QED BY <2>2 DEF s, t
<1>6. CASE g = outframe /\ out' = out /\ outframe.size + pkt[p].size <= FrameMaxSize
  <2>1. WellSized(outframe')
    <3> DEFINE s == outframe.time_start
               e == outframe.time_end
               t == pkt[p].ts
               z == outframe.size + pkt[p].size
    <3>1. /\ outframe'.time_start = s /\ outframe'.time_end = (IF e < t THEN t ELSE e)
          /\ outframe'.size = z /\ z <= FrameMaxSize
      BY <1>2, <1>6
    <3>2. /\ s \in Int /\ e \in Int /\ t \in Int /\ s <= e /\ e <= s + FrameMaxDuration
          /\ t < s + FrameMaxDuration
      BY <1>3, <1>4, <1>5 DEF WellSized
    <3>3. z \in Nat
      BY <1>1, <1>3, FrameFields
    <3> HIDE DEF s, e, t, z
    <3>4. /\ s <= (IF e < t THEN t ELSE e) /\ (IF e < t THEN t ELSE e) <= s + FrameMaxDuration
          /\ ~(z > FrameMaxSize)
      BY SMTT(30), <3>1, <3>2, <3>3, Durations
    <3> QED BY <3>1, <3>4 DEF WellSized
  <2>2. Deadline' = Deadline
    BY <1>2, <1>6 DEF Deadline
  <2>3. current_time' <= Deadline'
    <3>1. Deadline \in Int /\ ExitTime(p) \in Int
      BY <1>1, EvTimeProperties
    <3> QED BY SMTT(30), <3>1, <2>2, <1>1
  <2> QED BY <2>1, <2>3, <1>1, <1>2, <1>4, <1>6 DEF Framing
<1>7. CASE g = NewFrame(outframe.time_end, outframe.time_end) /\ out' = Append(out, outframe)
  <2>1. /\ g.type = 0 /\ g.time_start = outframe.time_end /\ g.time_end = outframe.time_end
        /\ g.packets = << >>
    BY <1>7, NewFrameFields
  <2>2. Len(outframe'.packets) = 1
    BY <2>1, <1>2
  <2>3. WellSized(outframe') /\ current_time' <= Deadline'
    <3> DEFINE s == outframe.time_start
               e == outframe.time_end
               t == pkt[p].ts
    <3>1. /\ outframe'.time_start = e /\ outframe'.time_end = (IF e < t THEN t ELSE e)
          /\ current_time' = t + MatchingDuration
          /\ Deadline' = e + FrameMaxDuration + MatchingDuration
      BY <2>1, <1>1, <1>2 DEF ExitTime, Deadline
    <3>2. s \in Int /\ e \in Int /\ t \in Int /\ s <= e /\ t < s + FrameMaxDuration
      BY <1>3, <1>4, <1>5 DEF WellSized
    <3> HIDE DEF s, e, t
    <3>3. /\ e <= (IF e < t THEN t ELSE e) /\ (IF e < t THEN t ELSE e) <= e + FrameMaxDuration
          /\ t + MatchingDuration <= e + FrameMaxDuration + MatchingDuration
      BY SMTT(30), <3>2, Durations
    <3> QED BY <3>1, <3>3, <2>2 DEF WellSized
  <2>4. /\ \A i \in 1..Len(out') :
             /\ out'[i].type = 0 /\ WellSized(out'[i])
             /\ i > 1 => out'[i].time_start = out'[i - 1].time_end
        /\ Len(out') > 0 /\ out'[Len(out')] = outframe
    BY <1>1, <1>3, <1>4, <1>7, PutOut
  <2> QED BY <2>1, <2>3, <2>4, <1>1, <1>2 DEF Framing
<1> QED BY <1>2, <1>6, <1>7

\* The first frame of the input starts the first output frame.
LEMMA FramingDequeue ==
    ASSUME Inv1, Framing, NEW f \in InputFrame, Dequeue(f)
    PROVE  Framing'
<1> DEFINE g == [f EXCEPT !.packets = [i \in 1..Len(f.packets) |-> Len(pkt) + i]]
<1>1. LoadFinal(g) \/ SkipFrame(g) \/ LoadFrame(g)
  BY DEF Dequeue
<1>2. /\ pc = "load" /\ pc' \notin {"final", "done"} /\ out' = out
      /\ \/ outframe' = outframe /\ current_time' = current_time
         \/ /\ outframe = NoFrame /\ LoadFrame(g)
            /\ outframe' = NewFrame(g.time_start, g.time_start)
            /\ current_time' = g.time_start
  BY <1>1 DEF LoadFinal, SkipFrame, LoadFrame, AdvanceTimeTo, control
<1>3. CASE outframe' = outframe /\ current_time' = current_time
  <2>1. Deadline' = Deadline
    BY <1>3 DEF Deadline
  <2> QED BY <2>1, <1>2, <1>3 DEF Framing
<1>4. CASE /\ outframe = NoFrame /\ LoadFrame(g)
           /\ outframe' = NewFrame(g.time_start, g.time_start)
           /\ current_time' = g.time_start
  <2>1. g.time_start \in Int
    <3>1. /\ g.packets = [i \in 1..Len(f.packets) |-> Len(pkt) + i]
          /\ g.time_start = f.time_start /\ f.time_start \in Int \cup {NoTime}
          /\ f.packets # << >> => f.time_start # NoTime
      BY DEF InputFrame
    <3>2. ~(g.packets = << >> /\ g.time_start = NoTime)
      BY <1>4 DEF LoadFrame
    <3>3. f.packets = << >> => g.packets = << >>
      BY SMTT(30), <3>1
    <3> HIDE DEF g
    <3> QED BY <3>1, <3>2, <3>3
  <2> DEFINE s == g.time_start
  <2>2. /\ outframe'.type = 0 /\ outframe'.time_start = s
        /\ outframe'.time_end = s /\ outframe'.size = 0 /\ current_time' = s /\ s \in Int
    BY <2>1, <1>4, NewFrameFields
  <2>3. outframe' # NoFrame
    BY <2>1, <1>4, FrameTypes
  <2>4. Deadline' = s + FrameMaxDuration + MatchingDuration
    BY <2>2 DEF Deadline
  <2> HIDE DEF s
  <2>5. /\ s <= s /\ s <= s + FrameMaxDuration /\ ~(0 > FrameMaxSize)
        /\ s <= s + FrameMaxDuration + MatchingDuration
    BY SMTT(30), <2>2, Durations
  <2>6. WellSized(outframe') /\ current_time' <= Deadline'
    BY <2>2, <2>4, <2>5 DEF WellSized
  <2>7. out' = << >> /\ Len(out') = 0
    BY <1>2, <1>4 DEF Framing
  <2>8. ~(Len(out') > 0) /\ \A i \in 1..Len(out') : FALSE
    BY SMTT(30), <2>7
  <2> QED BY <2>2, <2>3, <2>6, <2>7, <2>8, <1>2 DEF Framing
<1> QED BY <1>2, <1>3, <1>4

\* The last output frame, and the final one after it.
LEMMA FramingEnd ==
    ASSUME Inv1, Framing, Flush \/ Finish
    PROVE  Framing'
<1>1. CASE Flush /\ outframe = NoFrame
  BY <1>1 DEF Flush, Framing
<1>2. CASE Flush /\ outframe # NoFrame
  <2>1. pc # "done" /\ pc' = "final" /\ outframe' = NoFrame /\ out' = Append(out, outframe)
    BY <1>2 DEF Flush, Enqueue
  <2>2. outframe \in OutFrame
    BY <1>2, FrameTypes DEF Inv1, TypeOK
  <2>3. \A i \in 1..Len(out') :
             /\ out'[i].type = 0 /\ WellSized(out'[i])
             /\ i > 1 => out'[i].time_start = out'[i - 1].time_end
    BY <2>1, <2>2, <1>2, PutOut DEF Framing
  <2> QED BY <2>1, <2>3 DEF Framing
<1>3. CASE Finish
  <2> DEFINE f == FinalFrame(current_time)
             n == Len(out)
             k == n + 1
  <2>1. /\ pc = "final" /\ pc' = "done" /\ outframe' = outframe /\ outframe = NoFrame
        /\ out' = Append(out, f)
    BY <1>3 DEF Finish, Enqueue, Inv1, Reading
  <2>2. f \in OutFrame /\ f.type = 1
    BY FrameTypes DEF FinalFrame, NewFrame, Inv1, TypeOK
  <2> HIDE DEF f
  <2>3. /\ n \in Nat /\ Len(out') = k /\ out'[k] = f /\ \A i \in 1..n : out'[i] = out[i]
    BY SMTT(30), <2>1, <2>2, AppendFacts, LenFacts DEF Inv1, TypeOK
  <2>4. \A i \in 1..n : /\ out[i].type = 0 /\ WellSized(out[i])
                        /\ i > 1 => out[i].time_start = out[i - 1].time_end
    BY <2>1 DEF Framing
  <2> HIDE DEF n
  <2>5. \A i \in 1..k : \/ i \in 1..n /\ i # k /\ (i > 1 => i - 1 \in 1..n)
                        \/ i = k
    BY SMTT(30), <2>3
  <2> HIDE DEF k
  <2> QED BY SMTT(30), <2>1, <2>2, <2>3, <2>4, <2>5 DEF Framing
<1> QED BY <1>1, <1>2, <1>3

\* The other steps leave the output as it is.
LEMMA FramingQuiet ==
    ASSUME Inv1, Framing,
           \/ AdvanceDone \/ AdvanceQuiet \/ ReadPacket \/ ReadEnd \/ Unload
           \/ HandleRequest \/ HandleMatched \/ HandleUnmatched \/ Take \/ UNCHANGED vars
    PROVE  Framing'
<1>1. /\ out' = out /\ outframe' = outframe
      /\ \/ pc' = pc
         \/ pc \notin {"final", "done"} /\ pc' \notin {"final", "done"}
      /\ current_time' = current_time \/ AdvanceQuiet
  BY DEF AdvanceDone, AdvanceQuiet, ReadPacket, ReadEnd, Unload, HandleRequest, HandleMatched,
         HandleUnmatched, Take, vars, control, AdvanceTimeTo, Inv1, Reading
<1>2. Deadline' = Deadline
  BY <1>1 DEF Deadline
<1>3. CASE AdvanceQuiet
  <2>1. pc = "advance" /\ EvTime > target /\ current_time' = target
    BY <1>3 DEF AdvanceQuiet
  <2>2. /\ target \in Int /\ EvTime \in Int /\ Deadline \in Int /\ EvTime <= Deadline
        /\ outframe # NoFrame
    BY <2>1, EvTimeProperties
  <2>3. current_time' <= Deadline'
    BY SMTT(30), <2>1, <2>2, <1>2
  <2> QED BY <2>3, <1>1 DEF Framing
<1>4. CASE current_time' = current_time
  BY <1>1, <1>2, <1>4 DEF Framing
<1> QED BY <1>1, <1>3, <1>4

\* Nothing is put out at first.
LEMMA InitFraming == Init => Framing
BY SMTT(30) DEF Init, Framing

\* The output frames tile time, by the parts of Framing.
LEMMA FramesTiled == Inv1 /\ Framing => FramesTileTime
<1> SUFFICES ASSUME Inv1, Framing PROVE FramesTileTime
  OBVIOUS
<1> DEFINE Tiled(s) == \A i \in 1..Len(s) : s[i].type = 0 =>
               WellSized(s[i]) /\ (i > 1 => s[i].time_start = s[i - 1].time_end)
<1>1. Tiled(AllFrames)
  <2>1. CASE outframe = NoFrame
    BY <2>1 DEF AllFrames, Framing
  <2>2. CASE outframe # NoFrame
    <3> DEFINE n == Len(out)
               k == n + 1
    <3>1. outframe \in OutFrame /\ out \in Seq(OutFrame)
      BY <2>2, FrameTypes DEF Inv1, TypeOK
    <3>2. /\ n \in Nat /\ Len(AllFrames) = k /\ AllFrames[k] = outframe
          /\ \A i \in 1..n : AllFrames[i] = out[i]
      BY SMTT(30), <3>1, <2>2, AppendFacts, LenFacts DEF AllFrames
    <3>3. /\ WellSized(outframe)
          /\ n > 0 => outframe.time_start = out[n].time_end
          /\ \A i \in 1..n : out[i].type = 0 =>
               WellSized(out[i]) /\ (i > 1 => out[i].time_start = out[i - 1].time_end)
      BY <2>2 DEF Framing
    <3> HIDE DEF n
    <3>4. \A i \in 1..k : \/ i \in 1..n /\ (i > 1 => i - 1 \in 1..n)
                          \/ i = k /\ (i > 1 => i - 1 = n /\ n > 0 /\ n \in 1..n)
      BY SMTT(30), <3>2
    <3> HIDE DEF k
    <3> QED BY SMTT(30), <3>2, <3>3, <3>4
  <2> QED BY <2>1, <2>2
<1> QED BY <1>1 DEF FramesTileTime, WellSized

-----------------------------------------------------------------------------
\* The times of the packets in the queue.
LEMMA QueueTimes ==
    ASSUME Inv1
    PROVE  /\ packet_queue \in Seq(Ids) /\ Len(packet_queue) \in Nat
           /\ \A i \in 1..Len(packet_queue) :
                /\ packet_queue[i] \in Ids /\ pkt[packet_queue[i]].ts \in Int
                /\ ExitTime(packet_queue[i]) = pkt[packet_queue[i]].ts + MatchingDuration
                /\ ExitTime(packet_queue[i]) \in Int
           /\ packet_queue # << >> => /\ 1 \in 1..Len(packet_queue)
                                      /\ Head(packet_queue) = packet_queue[1]
           /\ packet_queue = << >> => \A i \in 1..Len(packet_queue) : FALSE
<1>1. packet_queue \in Seq(Ids) /\ TypeOK
  BY DEF Inv1, TypeOK
<1>2. /\ Len(packet_queue) \in Nat /\ \A i \in 1..Len(packet_queue) : packet_queue[i] \in Ids
      /\ packet_queue # << >> => /\ 1 \in 1..Len(packet_queue)
                                 /\ Head(packet_queue) = packet_queue[1]
      /\ packet_queue = << >> => \A i \in 1..Len(packet_queue) : FALSE
  BY SMTT(30), <1>1, LenFacts, HeadTailFacts
<1>3. \A p \in Ids : pkt[p].ts \in Int
  BY <1>1, PacketType
<1>4. \A p \in Ids : ExitTime(p) = pkt[p].ts + MatchingDuration /\ ExitTime(p) \in Int
  BY <1>3, Durations DEF ExitTime
<1> QED BY <1>1, <1>2, <1>3, <1>4

\* The loop of advance_time_to.
LEMMA DrainingAdvance ==
    ASSUME Inv1, Draining, AdvanceDone \/ AdvanceQuiet \/ AdvanceFrame \/ AdvancePacket
    PROVE  Draining'
<1> DEFINE q == packet_queue
           n == Len(q)
<1>1. /\ pc = "advance" /\ pkt' = pkt /\ cur' = cur /\ target' = target /\ return' = return
      /\ return \in {"read", "handle", "unload", "flush"}
  BY DEF AdvanceDone, AdvanceQuiet, AdvanceFrame, AdvancePacket, heap, control, Inv1, Reading
<1>2. /\ current_time \in Int /\ target \in Int /\ EvTime \in Int
      /\ q # << >> => EvTime <= ExitTime(Head(q))
  BY <1>1, EvTimeProperties
<1>3. /\ q \in Seq(Ids) /\ n \in Nat
      /\ \A i \in 1..n : pkt[q[i]].ts \in Int /\ ExitTime(q[i]) \in Int
      /\ q # << >> => 1 \in 1..n /\ Head(q) = q[1]
      /\ q = << >> => \A i \in 1..n : FALSE
  BY QueueTimes
<1>4. \A p : ExitTime(p)' = ExitTime(p)
  BY <1>1 DEF ExitTime
<1>5. /\ \A i \in 1..n : pkt[q[i]].ts <= current_time \/ pkt[q[i]].ts <= target
      /\ return = "handle" => target = pkt[cur].ts
      /\ return = "flush" => /\ q # << >> => current_time < target
                             /\ \A i \in 1..n : ExitTime(q[i]) < target
  BY <1>1 DEF Draining
<1>6. CASE AdvanceDone
  <2>1. /\ current_time >= target /\ pc' = return /\ q' = q /\ current_time' = current_time
    BY <1>6 DEF AdvanceDone, Reached
  <2>2. \A i \in 1..n : pkt[q[i]].ts <= current_time
    BY SMTT(30), <2>1, <1>2, <1>3, <1>5
  <2>3. return = "handle" => pkt[cur].ts <= current_time
    BY <2>1, <1>2, <1>5
  <2>4. return = "flush" => q = << >>
    BY SMTT(30), <2>1, <1>2, <1>5
  <2> QED BY <2>1, <2>2, <2>3, <2>4, <1>1 DEF Draining
<1>7. CASE ~AdvanceDone
  <2>1. pc' = "advance" /\ current_time < target
    BY SMTT(30), <1>1, <1>2, <1>7 DEF AdvanceQuiet, AdvanceFrame, AdvancePacket, control, Reached
  <2>2. \A i \in 1..n : pkt[q[i]].ts <= target
    BY SMTT(30), <2>1, <1>2, <1>3, <1>5
  <2>3. CASE AdvanceQuiet
    <3>1. q' = q /\ EvTime > target
      BY <2>3 DEF AdvanceQuiet
    <3>2. return = "flush" => q = << >>
      BY SMTT(30), <3>1, <1>2, <1>3, <1>5
    <3> QED BY <3>1, <3>2, <2>1, <2>2, <1>1, <1>4, <1>5 DEF Draining
  <2>4. CASE AdvanceFrame
    <3>1. q' = q /\ current_time' = EvTime
      BY <2>4 DEF AdvanceFrame
    <3>2. return = "flush" /\ q # << >> => EvTime < target
      BY SMTT(30), <1>2, <1>3, <1>5
    <3> QED BY <3>1, <3>2, <2>1, <2>2, <1>1, <1>4, <1>5 DEF Draining
  <2>5. CASE AdvancePacket
    <3>1. q' = Tail(q) /\ current_time' = EvTime /\ q # << >>
      BY <2>5, PacketLeaves DEF AdvancePacket
    <3>2. /\ Len(q') \in Nat /\ \A i \in 1..Len(q') : i + 1 \in 1..n /\ q'[i] = q[i + 1]
      BY SMTT(30), <3>1, <1>3, HeadTailFacts, LenFacts
    <3>3. return = "flush" => EvTime < target
      BY SMTT(30), <3>1, <1>2, <1>3, <1>5
    <3> QED BY <3>2, <3>3, <2>1, <2>2, <1>1, <1>4, <1>5, <3>1 DEF Draining
  <2> QED BY <2>3, <2>4, <2>5, <1>7
<1> QED BY <1>6, <1>7

\* The steps of next_packet and of main that put nothing into the queue.
LEMMA DrainingQuiet ==
    ASSUME Inv1, Draining, \/ ReadPacket \/ ReadEnd \/ Unload \/ HandleMatched
                           \/ Flush \/ Finish \/ Take \/ UNCHANGED vars
    PROVE  Draining'
<1>1. /\ pkt' = pkt /\ packet_queue' = packet_queue /\ current_time' = current_time
      /\ \/ pc' = pc /\ return' = return /\ target' = target /\ cur' = cur
         \/ pc' = "advance" /\ return' = "handle" /\ target' = pkt'[cur'].ts /\ pc = "read"
         \/ pc' = "advance" /\ return' = "unload" /\ pc = "read"
         \/ pc' \in {"load", "read"} /\ pc \in {"unload", "handle"}
         \/ pc' \in {"final", "done"} /\ pc \in {"flush", "final"}
  BY DEF ReadPacket, ReadEnd, Unload, HandleMatched, Flush, Finish, Take, vars, heap, control,
         AdvanceTimeTo
<1>2. \A p : ExitTime(p)' = ExitTime(p)
  BY <1>1 DEF ExitTime
<1>3. CASE pc' = pc /\ return' = return /\ target' = target /\ cur' = cur
  BY <1>1, <1>2, <1>3 DEF Draining
<1>4. CASE pc \in {"read", "unload", "handle", "flush", "final"}
  <2>1. \A i \in 1..Len(packet_queue) : pkt[packet_queue[i]].ts <= current_time
    BY <1>4 DEF Draining
  <2>2. pc \in {"flush", "final"} => packet_queue = << >>
    BY DEF Draining
  <2>3. CASE pc' = "advance"
    BY <2>1, <2>3, <1>1, <1>4 DEF Draining
  <2>4. CASE pc' \in {"load", "read"} /\ pc \in {"unload", "handle"}
    BY <2>1, <2>4, <1>1 DEF Draining
  <2>5. CASE pc' \in {"final", "done"} /\ pc \in {"flush", "final"}
    BY <2>1, <2>2, <2>5, <1>1 DEF Draining
  <2> QED BY <2>3, <2>4, <2>5, <1>1, <1>3
<1> QED BY <1>1, <1>3, <1>4

\* A packet joins the queue when the time has reached it.
LEMMA DrainingHandle ==
    ASSUME Inv1, Draining, HandleRequest \/ HandleUnmatched
    PROVE  Draining'
<1> DEFINE q == packet_queue
           n == Len(q)
           k == n + 1
<1>1. /\ pc = "handle" /\ pc' = "read" /\ pkt' = pkt /\ current_time' = current_time
      /\ q' = Append(q, cur)
  BY DEF HandleRequest, HandleUnmatched, heap
<1>2. cur \in Ids
  BY <1>1, HandledProperties DEF Holding
<1>3. /\ n \in Nat /\ Len(q') = k /\ q'[k] = cur /\ \A i \in 1..n : q'[i] = q[i]
  BY SMTT(30), <1>1, <1>2, QueueTimes, AppendFacts
<1>4. \A i \in 1..k : i \in 1..n \/ i = k
  BY SMTT(30), <1>3
<1>5. pkt[cur].ts <= current_time /\ \A i \in 1..n : pkt[q[i]].ts <= current_time
  BY <1>1 DEF Draining
<1> HIDE DEF n, k
<1>6. \A i \in 1..Len(q') : pkt[q'[i]].ts <= current_time
  BY <1>3, <1>4, <1>5
<1> QED BY <1>1, <1>6 DEF Draining

\* The final frame sends the time past everything that waits.
LEMMA DrainingDequeue ==
    ASSUME Inv1, Draining, NEW f \in InputFrame, Dequeue(f)
    PROVE  Draining'
<1> DEFINE nums == [i \in 1..Len(f.packets) |-> Len(pkt) + i]
           g == [f EXCEPT !.packets = nums]
           q == packet_queue
           n == Len(q)
<1>1. /\ pkt' = pkt \o f.packets
      /\ response' = response \o [i \in 1..Len(f.packets) |-> 0]
      /\ LoadFinal(g) \/ SkipFrame(g) \/ LoadFrame(g)
  BY DEF Dequeue
<1>2. \A p \in Ids : pkt'[p] = pkt[p]
  BY <1>1, FreshPackets DEF Inv1
<1> HIDE DEF nums, g
<1>3. pc = "load" /\ q' = q
  BY <1>1 DEF LoadFinal, SkipFrame, LoadFrame
<1>4. /\ \A i \in 1..n : /\ q[i] \in Ids /\ pkt[q[i]].ts \in Int
                         /\ ExitTime(q[i]) = pkt[q[i]].ts + MatchingDuration
      /\ q = << >> => \A i \in 1..n : FALSE
  BY QueueTimes
<1>5. \A i \in 1..n : pkt[q[i]].ts <= current_time
  BY <1>3 DEF Draining
<1>6. \A i \in 1..n : pkt'[q[i]] = pkt[q[i]] /\ ExitTime(q[i])' = ExitTime(q[i])
  BY <1>2, <1>3, <1>4 DEF ExitTime
<1>7. /\ current_time = NoTime => q = << >> /\ outframe = NoFrame
      /\ outframe = NoFrame => current_time = NoTime
      /\ current_time # NoTime => current_time \in Int
  BY <1>3 DEF Inv1, TypeOK, Reading
<1>8. CASE LoadFinal(g)
  <2>1. CASE current_time = NoTime
    BY <2>1, <1>3, <1>4, <1>7, <1>8 DEF LoadFinal, Draining
  <2>2. CASE current_time # NoTime
    <3>1. /\ pc' = "advance" /\ return' = "flush" /\ current_time' = current_time
          /\ target' = current_time + MatchingDuration + 1
      BY <2>2, <1>8 DEF LoadFinal, AdvanceTimeTo, LastTime
    <3>2. \A t \in Int : t <= current_time => t + MatchingDuration < target'
      BY SMTT(30), <3>1, <2>2, <1>7, Durations
    <3>3. current_time < target'
      BY SMTT(30), <3>1, <2>2, <1>7, Durations
    <3>4. \A i \in 1..n : ExitTime(q[i])' < target'
      BY <3>2, <1>4, <1>5, <1>6
    <3> QED BY <3>1, <3>3, <3>4, <1>3, <1>5, <1>6 DEF Draining
  <2> QED BY <2>1, <2>2
<1>9. CASE SkipFrame(g)
  <2>1. pc' = "load" /\ current_time' = current_time
    BY <1>9 DEF SkipFrame, control
  <2> QED BY <2>1, <1>3, <1>5, <1>6 DEF Draining
<1>10. CASE LoadFrame(g)
  <2>1. /\ pc' = "advance" /\ return' = "read"
        /\ current_time' = current_time \/ outframe = NoFrame
    BY <1>10 DEF LoadFrame, AdvanceTimeTo
  <2> QED BY <2>1, <1>3, <1>4, <1>5, <1>6, <1>7 DEF Draining
<1> QED BY <1>1, <1>8, <1>9, <1>10

\* A step puts out one frame or none, and it is the output frame or the final one.
LEMMA PutsOut ==
    ASSUME Inv1, Framing, Move
    PROVE  /\ out' = out \/ \E g \in OutFrame : out' = Append(out, g)
           /\ \A g \in OutFrame : out' = Append(out, g) =>
                IF g.type = 0 THEN g.time_start \in Int ELSE g.packets = << >>
<1> DEFINE Fine(g) == /\ g \in OutFrame
                      /\ IF g.type = 0 THEN g.time_start \in Int ELSE g.packets = << >>
<1>1. out \in Seq(OutFrame) /\ (outframe = NoFrame \/ (outframe \in Frame /\ outframe.type = 0))
  BY DEF Inv1, TypeOK, Framing
<1>2. out' = out \/ \E g : out' = Append(out, g) /\ Fine(g)
  <2>1. \A g \in Frame : g.type = 0 => Fine(g)
    BY DEF Frame, OutFrame
  <2>2. CASE AdvanceFrame
    <3> DEFINE end == EvTime - MatchingDuration
               g == [outframe EXCEPT !.time_end = end]
    <3>1. out' = Append(out, g) /\ pc = "advance" /\ EvTime = Deadline
      BY <2>2 DEF AdvanceFrame, Enqueue
    <3>2. outframe \in Frame /\ outframe.type = 0
      BY <3>1, <1>1 DEF Inv1, TypeOK
    <3>3. end \in Int
      <4>1. outframe.time_start \in Int
        BY <3>2 DEF Frame
      <4> QED BY SMTT(30), <4>1, <3>1, Durations DEF Deadline
    <3>4. g \in Frame /\ g.type = 0
      BY <3>2, <3>3 DEF Frame
    <3> QED BY <3>1, <3>4, <2>1
  <2>3. CASE AdvancePacket
    <3>1. out' = out \/ out' = Append(out, outframe)
      BY <2>3 DEF AdvancePacket, Enqueue
    <3>2. outframe # NoFrame
      BY <2>3 DEF AdvancePacket, Inv1, TypeOK
    <3> QED BY <3>1, <3>2, <2>1, <1>1
  <2>4. CASE Flush
    <3>1. out' = out \/ (outframe # NoFrame /\ out' = Append(out, outframe))
      BY <2>4 DEF Flush, Enqueue
    <3> QED BY <3>1, <2>1, <1>1
  <2>5. CASE Finish
    <3>1. out' = Append(out, FinalFrame(current_time)) /\ current_time \in Int \cup {NoTime}
      BY <2>5 DEF Finish, Enqueue, Inv1, TypeOK
    <3>2. FinalFrame(current_time) \in OutFrame
      BY <3>1, FrameTypes
    <3>3. FinalFrame(current_time).type = 1 /\ FinalFrame(current_time).packets = << >>
      BY DEF FinalFrame, NewFrame
    <3>4. Fine(FinalFrame(current_time))
      BY <3>2, <3>3
    <3> QED BY <3>1, <3>4
  <2>6. CASE \/ AdvanceDone \/ AdvanceQuiet \/ ReadPacket \/ ReadEnd \/ Unload
             \/ HandleRequest \/ HandleMatched \/ HandleUnmatched \/ Take \/ UNCHANGED vars
    BY <2>6 DEF AdvanceDone, AdvanceQuiet, ReadPacket, ReadEnd, Unload, HandleRequest,
       HandleMatched, HandleUnmatched, Take, vars
  <2>7. CASE \E f \in InputFrame : Dequeue(f)
    BY <2>7 DEF Dequeue, LoadFinal, SkipFrame, LoadFrame
  <2> QED BY <2>2, <2>3, <2>4, <2>5, <2>6, <2>7 DEF Move, Step
<1>3. ASSUME NEW f \in OutFrame, NEW g \in OutFrame, Append(out, f) = Append(out, g)
      PROVE  f = g
  BY <1>1, <1>3, AppendFacts
<1>4. ASSUME NEW g \in OutFrame, out' = Append(out, g)
      PROVE  out' # out
  <2>1. Len(Append(out, g)) = Len(out) + 1 /\ Len(out) \in Nat
    BY SMTT(30), <1>1, AppendFacts, LenFacts
  <2> QED BY SMTT(30), <2>1, <1>4
<1> QED BY <1>2, <1>3, <1>4

LEMMA SentKept ==
    ASSUME Inv1, Framing, Sent, Move
    PROVE  Sent'
<1>1. out \in Seq(OutFrame)
  BY DEF Inv1, TypeOK
<1>2. CASE out' = out
  BY <1>2 DEF Sent
<1>3. CASE \E g \in OutFrame : out' = Append(out, g)
  <2>1. PICK g \in OutFrame : out' = Append(out, g)
    BY <1>3
  <2>2. IF g.type = 0 THEN g.time_start \in Int ELSE g.packets = << >>
    BY <2>1, PutsOut
  <2>3. /\ Len(out) \in Nat /\ Len(out') = Len(out) + 1 /\ out'[Len(out) + 1] = g
        /\ \A i \in 1..Len(out) : out'[i] = out[i]
    BY SMTT(30), <2>1, <1>1, AppendFacts, LenFacts
  <2>4. \A i \in 1..(Len(out) + 1) : i \in 1..Len(out) \/ i = Len(out) + 1
    BY SMTT(30), <2>3
  <2> QED BY <2>2, <2>3, <2>4 DEF Sent
<1> QED BY <1>2, <1>3, PutsOut

\* The first three layers together.
LEMMA InitInv3 == Init => Inv3
<1> SUFFICES ASSUME Init PROVE Inv3
  OBVIOUS
<1>1. Draining
  BY SMTT(30) DEF Init, Draining
<1>2. Sent
  BY SMTT(30) DEF Init, Sent
<1> QED BY <1>1, <1>2, InitInv2, InitFraming DEF Inv3

LEMMA MoveInv3 == Inv3 /\ Move => Inv3'
<1> SUFFICES ASSUME Inv3, Move PROVE Inv3'
  OBVIOUS
<1>0. Sent'
  BY SentKept DEF Inv3, Inv2
<1>1. Inv2 /\ Inv1 /\ Framing /\ Draining /\ Inv2' /\ Sent'
  BY <1>0, MoveInv2 DEF Inv3, Inv2
<1>2. CASE \E f \in InputFrame : Dequeue(f)
  BY <1>1, <1>2, FramingDequeue, DrainingDequeue DEF Inv3
<1>3. CASE AdvanceDone \/ AdvanceQuiet \/ AdvanceFrame \/ AdvancePacket
  BY <1>1, <1>3, FramingAdvanceFrame, FramingAdvancePacket, FramingQuiet, DrainingAdvance DEF Inv3
<1>4. CASE \/ ReadPacket \/ ReadEnd \/ Unload \/ HandleMatched \/ Take \/ UNCHANGED vars
  BY <1>1, <1>4, FramingQuiet, DrainingQuiet DEF Inv3
<1>5. CASE Flush \/ Finish
  BY <1>1, <1>5, FramingEnd, DrainingQuiet DEF Inv3
<1>6. CASE HandleRequest \/ HandleUnmatched
  BY <1>1, <1>6, FramingQuiet, DrainingHandle DEF Inv3
<1> QED BY <1>2, <1>3, <1>4, <1>5, <1>6 DEF Move, Step

LEMMA StepInv3 == Inv3 /\ [Next]_vars => Inv3'
BY MoveInv3, NextMoves

\* The frames the matcher puts out tile time, and none is longer or larger than
\* the configuration says: the assertion on the end of the output frame in
\* advance_time_to never fails.
THEOREM FramesTile == Spec => []FramesTileTime
<1>1. Inv3 => FramesTileTime
  BY FramesTiled DEF Inv3, Inv2
<1> QED BY <1>1, InitInv3, StepInv3, PTL DEF Spec

\* At the end nothing is in the queue, so nothing is in the hash, and what was put out
\* and the responses attached to it are all packets.
LEMMA EmptyAtEnd == Inv3 => DrainedAtEnd
<1> SUFFICES ASSUME Inv3, pc = "done" PROVE DrainedAtEnd
  BY DEF DrainedAtEnd
<1>1. /\ packet_queue = << >> /\ outframe = NoFrame /\ inframe = NoFrame /\ ~Holding
      /\ \A i \in 1..Len(out) : out[i].type = 1 <=> i = Len(out)
  BY DEF Inv3, Inv2, Inv1, Reading, Loaded, Holding, Draining, Framing
<1>2. Queued = {} /\ InOutframe = {}
  BY <1>1, RangeEmpty DEF Queued, InOutframe
<1>3. Hashed = {}
  BY <1>2 DEF Inv3, Inv2, HashIsUnanswered
<1>4. Handled = Len(pkt)
  <2>1. Len(pkt) \in Nat
    BY LenFacts DEF Inv3, Inv2, Inv1, TypeOK
  <2> QED BY SMTT(30), <2>1, <1>1 DEF Handled
<1>5. Output \cup Attached = Ids
  BY <1>2, <1>4 DEF Inv3, Inv2, Placing, Ids
<1> QED BY <1>1, <1>3, <1>5 DEF DrainedAtEnd

\* When the thread ends, everything it read was put out, and one final frame
\* follows: advancing the time by the matching duration and one more empties the
\* queue whatever the order of the timestamps was.
THEOREM Drained == Spec => []DrainedAtEnd
BY EmptyAtEnd, InitInv3, StepInv3, PTL DEF Spec
-----------------------------------------------------------------------------
\* A frame put out and its packets.
LEMMA OutFields ==
    ASSUME TypeOK, NEW i \in 1..Len(out)
    PROVE  /\ out[i].type \in {0, 1} /\ out[i].time_start \in Int \cup {NoTime}
           /\ out[i].packets \in Seq(Ids) /\ Range(out[i].packets) \subseteq Output
           /\ \A p : p \in Range(out[i].packets) <=>
                  \E j \in 1..Len(out[i].packets) : p = out[i].packets[j]
           /\ \A j \in 1..Len(out[i].packets) :
                  out[i].packets[j] \in Ids /\ out[i].packets[j] \in Range(out[i].packets)
           /\ IsInjective(out[i].packets) =>
                  \A j, l \in 1..Len(out[i].packets) : out[i].packets[j] = out[i].packets[l] => j = l
<1> DEFINE s == out[i].packets
<1>1. out[i] \in OutFrame
  <2>1. out \in Seq(OutFrame)
    BY DEF TypeOK
  <2> HIDE DEF OutFrame
  <2> QED BY <2>1, LenFacts
<1>2. out[i].type \in {0, 1} /\ out[i].time_start \in Int \cup {NoTime} /\ s \in Seq(Ids)
  BY <1>1 DEF OutFrame
<1>3. Range(s) \subseteq Output
  BY DEF Output
<1> HIDE DEF s
<1>4. Range(s) = {s[j] : j \in 1..Len(s)}
  BY SMTT(30), <1>2, RangeByPosition
<1>5. \A j \in 1..Len(s) : s[j] \in Ids
  BY <1>2, LenFacts
<1>6. IsInjective(s) => \A j, l \in 1..Len(s) : s[j] = s[l] => j = l
  BY <1>2, RangeByPosition
<1> QED BY <1>2, <1>3, <1>4, <1>5, <1>6 DEF s

\* What the output and main rely on.  A packet that was put out is not changed any
\* more: the output reads it without a lock.
LEMMA MatcherKeeps ==
    ASSUME Inv3, Move
    PROVE  /\ Len(out) <= Len(out') /\ \A i \in 1..Len(out) : out'[i] = out[i]
           /\ \A p \in Ids : p \in Ids' /\ pkt'[p] = pkt[p]
           /\ \A i \in 1..Len(out) : \A j \in 1..Len(out[i].packets) :
                response'[out[i].packets[j]] = response[out[i].packets[j]]
<1>1. Inv1 /\ Placing /\ HashIsUnanswered /\ Framing /\ TypeOK
  BY DEF Inv3, Inv2, Inv1
<1>2. Len(out) <= Len(out') /\ \A i \in 1..Len(out) : out'[i] = out[i]
  <2>1. out' = out \/ \E g \in OutFrame : out' = Append(out, g)
    BY <1>1, PutsOut
  <2>2. out \in Seq(OutFrame)
    BY <1>1 DEF TypeOK
  <2>3. CASE out' = out
    BY SMTT(30), <2>2, <2>3
  <2>4. ASSUME NEW g \in OutFrame, out' = Append(out, g)
        PROVE  Len(out) <= Len(out') /\ \A i \in 1..Len(out) : out'[i] = out[i]
    BY SMTT(30), <2>2, <2>4, AppendFacts, LenFacts
  <2> QED BY <2>1, <2>3, <2>4
<1>3. \A i \in 1..Len(out) : \A j \in 1..Len(out[i].packets) :
         out[i].packets[j] \in Ids /\ out[i].packets[j] \in Output
  BY <1>1, OutFields
<1>4. CASE heap' = heap
  BY <1>2, <1>4 DEF heap, Ids
<1>5. CASE HandleMatched
  <2> DEFINE req == RequestFor(cur)
  <2>1. pkt' = pkt /\ req # 0 /\ response' = [response EXCEPT ![req] = cur] /\ pc = "handle"
    BY <1>5 DEF HandleMatched
  <2>2. pkt[cur].key \in Keys /\ req \in Range(hash_table[pkt[cur].key])
    BY <2>1, <1>1, RequestForProperties DEF Holding
  <2>3. req \in Hashed
    BY <2>2 DEF Hashed
  <2>4. req \in Queued
    BY <2>3, <1>1 DEF HashIsUnanswered
  <2>5. req \notin Output
    BY <2>4, <1>1 DEF Placing
  <2>6. \A p : p # req => response'[p] = response[p]
    <3> HIDE DEF req
    <3> QED BY SMTT(30), <2>1, <1>1 DEF TypeOK
  <2> QED BY <2>1, <2>5, <2>6, <1>2, <1>3 DEF Ids
<1>6. CASE \E f \in InputFrame : Dequeue(f)
  <2>1. PICK f \in InputFrame : Dequeue(f)
    BY <1>6
  <2>2. /\ pkt' = pkt \o f.packets
        /\ response' = response \o [i \in 1..Len(f.packets) |-> 0]
    BY <2>1 DEF Dequeue
  <2>3. /\ \A i \in Ids : pkt'[i] = pkt[i] /\ response'[i] = response[i]
        /\ Ids \subseteq Ids'
    BY <2>2, <1>1, FreshPackets
  <2> QED BY <2>3, <1>2, <1>3
<1> QED BY <1>4, <1>5, <1>6 DEF Move, Step, AdvanceDone, AdvanceQuiet, AdvanceFrame, AdvancePacket,
    ReadPacket, ReadEnd, Unload, HandleRequest, HandleUnmatched, Flush, Finish, Take, vars

\* The frames in the queue to the output, and what is left when the thread is done.
LEMMA MatcherHandsOver ==
    Inv3 => /\ MatcherHands(out, Len(pkt), pkt, response, NoTime, pc = "done")
            /\ pc = "done" => packet_queue = << >> /\ \A k \in Keys : hash_table[k] = << >>
<1> SUFFICES ASSUME Inv3
             PROVE  /\ MatcherHands(out, Len(pkt), pkt, response, NoTime, pc = "done")
                    /\ pc = "done" => packet_queue = << >> /\ \A k \in Keys : hash_table[k] = << >>
  OBVIOUS
<1> DEFINE n == Len(pkt)
<1>1. /\ Inv1 /\ Placing /\ HashIsUnanswered /\ MatchesAreRight /\ Framing /\ TypeOK /\ Sent
      /\ DrainedAtEnd
  BY EmptyAtEnd DEF Inv3, Inv2, Inv1
<1>2. /\ n \in Nat /\ Ids = 1..n /\ out \in Seq(OutFrame)
      /\ \E data : pkt \in Seq(data)
  BY <1>1, LenFacts DEF TypeOK, Ids
<1>3. \A p \in 1..n : /\ pkt[p].ts \in Int /\ pkt[p].request \in BOOLEAN
                       /\ response[p] \in 0..n /\ (response[p] # 0 => p < response[p])
  <2>1. \A p \in 1..n : pkt[p] \in Packet /\ response[p] \in 0..n
    BY <1>1, LenFacts DEF TypeOK
  <2> QED BY <2>1, <1>1, <1>2 DEF MatchesAreRight, Packet
<1>4. \A p, o \in 1..n : response[p] = response[o] /\ response[p] # 0 => p = o
  BY <1>1, <1>2 DEF Placing
<1>5. \A i \in 1..Len(out) :
        /\ out[i].packets # << >> => out[i].type = 0 /\ out[i].time_start # NoTime
        /\ out[i].type = 1 => i = Len(out)
  <2> SUFFICES ASSUME NEW i \in 1..Len(out)
               PROVE  /\ out[i].packets # << >> => out[i].type = 0 /\ out[i].time_start # NoTime
                      /\ out[i].type = 1 => i = Len(out)
    OBVIOUS
  <2>1. out[i].type \in {0, 1} /\ out[i].time_start \in Int \cup {NoTime}
    BY <1>1, <1>2, OutFields
  <2>2. out[i].packets # << >> => out[i].type = 0 /\ out[i].time_start # NoTime
    BY <2>1, <1>1, MatcherAssumption DEF Sent
  <2>3. out[i].type = 1 => i = Len(out)
    BY <1>1 DEF Framing
  <2> QED BY <2>2, <2>3
<1>6. \A i \in 1..Len(out) : \A j, l \in 1..Len(out[i].packets) :
         out[i].packets[j] = out[i].packets[l] => j = l
  BY <1>1, OutFields DEF Placing
<1>7. \A i, k \in 1..Len(out) :
         \A j \in 1..Len(out[i].packets), l \in 1..Len(out[k].packets) :
             out[i].packets[j] = out[k].packets[l] => i = k /\ j = l
  <2> SUFFICES ASSUME NEW i \in 1..Len(out), NEW k \in 1..Len(out),
                      NEW j \in 1..Len(out[i].packets), NEW l \in 1..Len(out[k].packets),
                      out[i].packets[j] = out[k].packets[l]
               PROVE  i = k /\ j = l
    OBVIOUS
  <2>1. out[i].packets[j] \in Range(out[i].packets) /\ out[k].packets[l] \in Range(out[k].packets)
    BY <1>1, OutFields
  <2>2. i = k
    BY <2>1, <1>1 DEF Placing
  <2> QED BY <2>2, <1>6
<1>8. \A i \in 1..Len(out) : \A j \in 1..Len(out[i].packets) : \A p \in 1..n :
         response[p] # out[i].packets[j]
  <2> SUFFICES ASSUME NEW i \in 1..Len(out), NEW j \in 1..Len(out[i].packets), NEW p \in 1..n,
                      response[p] = out[i].packets[j]
               PROVE  FALSE
    OBVIOUS
  <2>1. out[i].packets[j] \in Output /\ out[i].packets[j] \in 1..n
    BY <1>1, <1>2, OutFields
  <2>2. response[p] # 0
    BY SMTT(30), <2>1, <1>2
  <2>3. response[p] \in Attached
    BY <2>2, <1>2 DEF Attached
  <2> QED BY <2>1, <2>3, <1>1 DEF Placing
<1>9. ASSUME pc = "done", NEW p \in 1..n
      PROVE  \E i \in 1..Len(out) : \E j \in 1..Len(out[i].packets) :
               p \in {out[i].packets[j], response[out[i].packets[j]]}
  <2>1. Output \cup Attached = 1..n
    BY <1>1, <1>2, <1>9 DEF DrainedAtEnd
  <2>2. \A x \in Output : \E i \in 1..Len(out) : \E j \in 1..Len(out[i].packets) : x = out[i].packets[j]
    <3> SUFFICES ASSUME NEW x \in Output
                 PROVE  \E i \in 1..Len(out) : \E j \in 1..Len(out[i].packets) : x = out[i].packets[j]
      OBVIOUS
    <3>1. PICK i \in 1..Len(out) : x \in Range(out[i].packets)
      BY DEF Output
    <3>2. \A y : y \in Range(out[i].packets) <=>
             \E j \in 1..Len(out[i].packets) : y = out[i].packets[j]
      BY <1>1, OutFields
    <3>3. \E j \in 1..Len(out[i].packets) : x = out[i].packets[j]
      BY <3>1, <3>2
    <3> QED BY <3>3
  <2>3. CASE p \in Output
    BY <2>2, <2>3
  <2>4. CASE p \in Attached
    <3>1. PICK x \in 1..n : p = response[x] /\ response[x] # 0
      BY <2>4, <1>2 DEF Attached
    <3>2. x \notin Attached
      <4> SUFFICES ASSUME NEW y \in 1..n, x = response[y], response[y] # 0 PROVE FALSE
        BY <1>2 DEF Attached
      <4> QED BY <3>1, <1>1, <1>2 DEF MatchesAreRight
    <3>3. x \in Output
      BY <3>2, <2>1
    <3> QED BY <3>1, <3>3, <2>2
  <2> QED BY <2>1, <2>3, <2>4
<1>10. MatcherHands(out, n, pkt, response, NoTime, pc = "done")
  BY <1>2, <1>3, <1>4, <1>5, <1>7, <1>8, <1>9 DEF MatcherHands, OutFrame
<1>11. ASSUME pc = "done", NEW k \in Keys PROVE packet_queue = << >> /\ hash_table[k] = << >>
  <2>1. packet_queue = << >> /\ Range(hash_table[k]) = {}
    BY <1>1, <1>11 DEF DrainedAtEnd, Hashed
  <2> DEFINE h == hash_table[k]
  <2>2. h \in Seq(Ids)
    BY <1>1 DEF TypeOK
  <2>3. Range(h) = {}
    BY <2>1
  <2> HIDE DEF h
  <2>4. Len(h) \in Nat /\ (h # << >> => 1 \in 1..Len(h))
    BY SMTT(30), <2>2
  <2>5. \A i \in 1..Len(h) : h[i] \in Range(h)
    BY SMTT(30), <2>2, RangeByPosition
  <2> QED BY <2>1, <2>3, <2>4, <2>5 DEF h
<1>12. pc = "done" => packet_queue = << >>
  BY <1>1 DEF DrainedAtEnd
<1> QED BY <1>10, <1>11, <1>12
=============================================================================
