--------------------------- MODULE WaitingRequests ---------------------------
(***************************************************************************)
(* The hash of waiting requests as its users see it: a set of requests and *)
(* the answer of the last dns_packet_hash_get_match, which is a request    *)
(* the response may belong to, any of them when there are several.         *)
(* PacketHash implements this specification.                               *)
(***************************************************************************)
EXTENDS Integers, FiniteSets

CONSTANTS Requests, Responses, \* identities of packets
          Key,                 \* the primary key of each
          Accepts,             \* the requests each response may belong to by name
          MaxSearch

VARIABLES waiting, result \* what waits; the last response asked about, and the answer

WaitInit == waiting = {} /\ result = <<0, 0>>

WaitInsert(r) == r \notin waiting /\ waiting' = waiting \cup {r} /\ UNCHANGED result

WaitRemove(r) == r \in waiting /\ waiting' = waiting \ {r} /\ UNCHANGED result

SameKey(resp) == {r \in waiting : Key[r] = Key[resp]}

\* A match is never missed but for the limit on the search, which
\* MaxSearch + 1 requests do not exceed.
WaitMatch(resp) ==
    \/ \E req \in SameKey(resp) \cap Accepts[resp] :
         result' = <<resp, req>> /\ waiting' = waiting \ {req}
    \/ /\ \/ SameKey(resp) \cap Accepts[resp] = {}
          \/ Cardinality(SameKey(resp)) > MaxSearch + 1
       /\ result' = <<resp, 0>> /\ UNCHANGED waiting

WaitNext == \/ \E r \in Requests : WaitInsert(r) \/ WaitRemove(r)
            \/ \E resp \in Responses : WaitMatch(resp)

WaitSpec == WaitInit /\ [][WaitNext]_<<waiting, result>>
=============================================================================
