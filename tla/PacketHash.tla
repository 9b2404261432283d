------------------------------ MODULE PacketHash ------------------------------
(***************************************************************************)
(* The hash table of waiting requests (packet_hash.c): an array of chains  *)
(* of buckets, one bucket for every primary key that has requests, resized *)
(* to keep the number of buckets between a quarter and three quarters of   *)
(* the array.                                                              *)
(***************************************************************************)
EXTENDS Integers, Sequences, FiniteSets, SequencesExt

CONSTANTS Requests, Responses, \* packets, known by positive numbers
          Key,           \* equal for packets that dns_packet_primary_match, the number
                         \* of the first of them
          Accepts,       \* the requests each response matches by name
          HashFunctions, \* dns_packet_primary_hash of the packets, for each seed
          MinCapacity,   \* min_capacity
          MaxSearch      \* DNS_PACKET_HASH_MAX_SEARCH

ASSUME HashAssumption ==
    /\ Requests \subseteq Nat \ {0}
    /\ MinCapacity \in Nat \ {0} /\ MaxSearch \in Nat
    /\ HashFunctions \subseteq [Requests \cup Responses -> Nat]

VARIABLES capacity, buckets, data, \* struct dns_packet_hash
          hash,                    \* the hash function: the random seed
          result                   \* the last response get_match was asked about,
                                   \* and the request it returned, 0 for NULL

vars == <<capacity, buckets, data, hash, result>>

MinPercent == 25
BestPercent == 50
MaxPercent == 75

Init == /\ capacity = MinCapacity
        /\ buckets = 0 /\ hash \in HashFunctions
        /\ data = [i \in 0..(MinCapacity - 1) |-> << >>]
        /\ result = <<0, 0>>

\* All buckets, in the order dns_packet_hash_resize visits them.
Visit(d, cap) == FlattenSeq([i \in 1..cap |-> d[i - 1]])

\* Faulty: the chains are copied to the new array as they are.
RehashInPlace(d, cap, newCap) ==
    [i \in 0..(newCap - 1) |-> IF i < cap THEN d[i] ELSE << >>]

\* The loop of dns_packet_hash_resize: each bucket goes to the head of its
\* chain in the new array.
Rehash(d, cap, newCap) ==
    [i \in 0..(newCap - 1) |->
        Reverse(SelectSeq(Visit(d, cap), LAMBDA b : b.hash % newCap = i))]

\* dns_packet_hash_resize, on the array d with n buckets.
Resize(d, n, wanted) ==
    LET newCap == IF wanted < MinCapacity THEN MinCapacity ELSE wanted
    IN  /\ capacity' = newCap
        /\ buckets' = n
        /\ data' = IF newCap = capacity THEN d ELSE Rehash(d, capacity, newCap)

NoResize(d, n) == capacity' = capacity /\ buckets' = n /\ data' = d

\* dns_packet_hash_find_bucket: the position in its chain of the bucket for
\* packet p, 0 if there is none.  A bucket is known by its first packet.
Chain(p) == hash[p] % capacity
FindBucket(p) ==
    SelectInSeq(data[Chain(p)],
                LAMBDA b : b.hash = hash[p] /\ Key[p] = Key[Head(b.packets)])

InHash(r) == \E i \in DOMAIN data : \E j \in 1..Len(data[i]) :
                 Contains(data[i][j].packets, r)

-----------------------------------------------------------------------------
TooMany(n) == n > (capacity * MaxPercent) \div 100

\* Faulty: the table never shrinks.
TooFewNever(n) == FALSE
TooFew(n) == n < (capacity * MinPercent) \div 100

\* dns_packet_hash_insert_packet
InsertPacket(r) ==
    LET i == FindBucket(r)
        new == [hash |-> hash[r], packets |-> <<r>>]
        added == [data EXCEPT ![Chain(r)] = Append(@, new)]
    IN  /\ ~InHash(r)
        /\ IF i # 0
           THEN NoResize([data EXCEPT ![Chain(r)][i].packets = <<r>> \o @], buckets)
           ELSE IF TooMany(buckets + 1)
           THEN Resize(added, buckets + 1, ((buckets + 1) * 100) \div BestPercent)
           ELSE NoResize(added, buckets + 1)
        /\ UNCHANGED <<hash, result>>

\* dns_packet_hash_remove_from_bucket, for bucket i of a chain.
RemoveFromBucket(r, chain, i) ==
    LET left == SelectSeq(data[chain][i].packets, LAMBDA q : q # r)
        without == [data EXCEPT ![chain] = RemoveAt(@, i)]
    IN  IF left # << >>
        THEN NoResize([data EXCEPT ![chain][i].packets = left], buckets)
        ELSE IF TooFew(buckets - 1)
        THEN Resize(without, buckets - 1, ((buckets - 1) * 100) \div BestPercent)
        ELSE NoResize(without, buckets - 1)

\* dns_packet_hash_remove_packet
RemovePacket(r) == /\ InHash(r)
                   /\ RemoveFromBucket(r, Chain(r), FindBucket(r))
                   /\ UNCHANGED <<hash, result>>

\* The requests get_match looks at before it gives up.
SearchLimit(list) == SubSeq(list, 1, IF Len(list) < MaxSearch + 1 THEN Len(list)
                                                                ELSE MaxSearch + 1)

\* dns_packet_hash_get_match, with match_qname
GetMatch(resp) ==
    LET i == FindBucket(resp)
        list == IF i = 0 THEN << >> ELSE data[Chain(resp)][i].packets
        found == SelectInSeq(SearchLimit(list), LAMBDA r : r \in Accepts[resp])
    IN  /\ IF found = 0
           THEN result' = <<resp, 0>> /\ UNCHANGED <<capacity, buckets, data>>
           ELSE result' = <<resp, list[found]>> /\ RemoveFromBucket(list[found], Chain(resp), i)
        /\ UNCHANGED hash

Next == \/ \E r \in Requests : InsertPacket(r) \/ RemovePacket(r)
        \/ \E resp \in Responses : GetMatch(resp)

Spec == Init /\ [][Next]_vars

-----------------------------------------------------------------------------
AllBuckets == Visit(data, capacity)

\* Every bucket can be found and is needed: it is in the chain of its hash, it
\* is not empty ("Every bucket needs to be nonempty", packet_hash.h), all its
\* packets have its hash and one key, no other bucket has that key, and the
\* counter buckets that decides about resizing counts them.
BucketsWellFormed ==
    /\ \A i \in DOMAIN data : \A j \in 1..Len(data[i]) :
         LET b == data[i][j]
         IN  /\ b.hash % capacity = i /\ b.packets # << >>
             /\ \A r \in ToSet(b.packets) : /\ Key[r] = Key[Head(b.packets)]
                                            /\ hash[r] = b.hash
    /\ \A i, j \in 1..Len(AllBuckets) :
         Key[Head(AllBuckets[i].packets)] = Key[Head(AllBuckets[j].packets)] => i = j
    /\ buckets = Len(AllBuckets)

\* After every insertion, removal and match the table is neither crowded nor,
\* unless it has the minimal capacity, wasteful: the one resize to the best
\* load that dns_packet_hash_insert_packet or dns_packet_hash_remove_packet does
\* is always enough.
LoadBounded == /\ capacity >= MinCapacity
               /\ buckets <= (capacity * MaxPercent) \div 100
               /\ capacity = MinCapacity \/ buckets >= (capacity * MinPercent) \div 100

Wait == INSTANCE WaitingRequests WITH waiting <- {r \in Requests : InHash(r)}

\* Growing, shrinking, chaining and hashing are invisible: for every seed the
\* table implements the set of waiting requests, from which get_match takes one
\* that has the key of the response and that its name allows, if there is one within
\* the limit of the search.  In particular a response has the hash of the requests
\* it belongs to, although its addresses are exchanged.
ImplementsWaiting == Wait!WaitSpec

\* The acceptable requests for resp, the newest first: InsertPacket puts each
\* request before those that wait already.
Candidates(resp) ==
    LET i == FindBucket(resp)
    IN  IF i = 0 THEN << >>
        ELSE SelectSeq(data[Chain(resp)][i].packets, LAMBDA r : r \in Accepts[resp])

\* "Find a matching request for the given response in the hash, returning the oldest
\* matching request" (packet_hash.h); "Search the bucket oldest-to-newest"
\* (dns_packet_hash_get_match).
ReturnsOldest ==
    [][\A resp \in Responses : GetMatch(resp) /\ result'[2] # 0
                                => result'[2] = Last(Candidates(resp))]_vars
=============================================================================
