------------------------------ MODULE PacketMap ------------------------------
(***************************************************************************)
(* What the matcher sees of the hash of waiting requests (packet_hash.c):  *)
(* a map from the primary key of a packet (address family, protocol, both  *)
(* endpoints and DNS id) to the list of waiting requests with that key, a  *)
(* bucket.  insert_packet puts a request at the head of its list, so lists *)
(* run from the newest to the oldest, and get_match walks them from their  *)
(* heads (packet_hash.h says otherwise: PacketHash, ReturnsOldest).        *)
(***************************************************************************)
EXTENDS Integers, Sequences, Functions

\* dns_packet_hash_insert_packet: clist_add_head.
MapInsert(map, key, req) == [map EXCEPT ![key] = <<req>> \o @]

\* Where the first member of S is in a list, 0 if none is.
FirstIn(list, S) ==
    LET places == {i \in 1..Len(list) : /\ list[i] \in S
                                        /\ \A j \in 1..(i - 1) : list[j] \notin S}
    IN  IF places = {} THEN 0 ELSE CHOOSE i \in places : TRUE

\* A list without req (clist_remove).
Without(list, req) == LET i == FirstIn(list, {req})
                      IN  SubSeq(list, 1, i - 1) \o SubSeq(list, i + 1, Len(list))

\* dns_packet_hash_remove_packet, and the end of dns_packet_hash_get_match.
MapRemove(map, key, req) == [map EXCEPT ![key] = Without(@, req)]

\* Faulty: one request less.
SearchedShort(list, maxSearch) ==
    SubSeq(list, 1, IF Len(list) < maxSearch THEN Len(list) ELSE maxSearch)

\* The requests dns_packet_hash_get_match looks at: the counter is compared
\* after each of them, so the limit is met by one request more.
Searched(list, maxSearch) ==
    SubSeq(list, 1, IF Len(list) < maxSearch + 1 THEN Len(list) ELSE maxSearch + 1)

\* dns_packet_hash_get_match: the first acceptable one of those, or none.
MapMatch(map, key, maxSearch, acceptable) ==
    LET found == FirstIn(Searched(map[key], maxSearch), acceptable)
    IN  IF found = 0 THEN 0 ELSE map[key][found]
=============================================================================
