----------------------------- MODULE MCPacketHash -----------------------------
(***************************************************************************)
(* PacketHash for TLC, with words of eight bits.  Of the conversations one *)
(* has three requests; others differ from it in one field: the addresses,  *)
(* of one or two words, exchanged; the port; the family.  One request and  *)
(* one response have no question.  A small seed makes hash values equal    *)
(* that should rather differ.                                              *)
(***************************************************************************)
EXTENDS PacketHash, PacketKey

CONSTANTS Seeds \* what random() may give

MCPacket(af, id, request, client, server, port, qname) ==
    LET c == [addr |-> client, port |-> port]
        s == [addr |-> server, port |-> 1]
    IN  [af |-> af, net_protocol |-> 2, dns_id |-> id, request |-> request, qname |-> qname,
         src_addr |-> IF request THEN c ELSE s, dst_addr |-> IF request THEN s ELSE c]

MissingName == "no question"

MCPackets == <<
    MCPacket(1, 3, TRUE, <<13, 9>>, <<6, 11>>, 3, "a"),
    MCPacket(1, 3, TRUE, <<13, 9>>, <<6, 11>>, 3, "b"),
    MCPacket(1, 3, TRUE, <<13, 9>>, <<6, 11>>, 3, MissingName),
    MCPacket(1, 3, TRUE, <<6, 11>>, <<13, 9>>, 3, "a"),
    MCPacket(1, 3, TRUE, <<13, 9>>, <<6, 11>>, 2, "a"),
    MCPacket(0, 3, TRUE, <<13>>, <<6>>, 3, "a"),
    MCPacket(1, 3, FALSE, <<13, 9>>, <<6, 11>>, 3, "b"),
    MCPacket(1, 3, FALSE, <<13, 9>>, <<6, 11>>, 3, RootName),
    MCPacket(1, 3, FALSE, <<6, 11>>, <<13, 9>>, 3, "a"),
    MCPacket(0, 2, FALSE, <<13>>, <<6>>, 3, "a"),
    MCPacket(1, 3, FALSE, <<13, 9>>, <<6, 11>>, 3, MissingName) >>

MCRequests == 1..6
MCResponses == 7..11
MCKey == <<1, 1, 1, 4, 5, 6, 1, 1, 4, 10, 1>>
MCAccepts == <<{}, {}, {}, {}, {}, {}, {2}, 1..6, {1, 4, 5, 6},
               {1, 4, 5, 6}, {3}>>
MCHashFunctions == {[p \in 1..11 |-> PrimaryHash(MCPackets[p], seed)] : seed \in Seeds}

\* The tables say what the comparisons of packet.c do.
ASSUME TablesAreRight ==
    /\ \A p, q \in 1..11 : PrimaryMatch(MCPackets[p], MCPackets[q]) <=> MCKey[p] = MCKey[q]
    /\ \A p \in 1..11 : MCPackets[p].request <=> p \in MCRequests
    /\ \A p \in MCResponses :
         MCAccepts[p] = {r \in MCRequests : QnameMatch(MCPackets[r], MCPackets[p])}
=============================================================================
