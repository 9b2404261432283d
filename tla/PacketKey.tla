------------------------------ MODULE PacketKey ------------------------------
(***************************************************************************)
(* What makes two packets belong to one conversation (packet.c): the hash  *)
(* and the comparison that the hash of waiting requests is built on, and   *)
(* the comparison of query names.                                          *)
(*                                                                         *)
(* A packet is [af, net_protocol, dns_id, request, src_addr, dst_addr,     *)
(* qname], an address [addr, port] with the words of addr in a sequence.   *)
(***************************************************************************)
EXTENDS Integers, Sequences, SequencesExt

CONSTANTS Quarter,  \* bits in a quarter of dns_hash_value_t: 16 of 64
          RootName  \* the name of length one

ASSUME KeyAssumption == Quarter \in Nat \ {0}

\* Unsigned arithmetic of dns_hash_value_t.
Wrap(n) == n % 2^(4 * Quarter)
Shift(n, quarters) == Wrap(n * 2^(quarters * Quarter))

\* Faulty: reduced after each of the two words, so that the sum wraps around in
\* one direction of a conversation and not in the other.
AddWordsApart(hash, a, b, param) ==
    Wrap((Wrap(hash + Shift(a, 2)) % param) + Shift(b, 2)) % param

\* The body of the loop over the words of the addresses.
AddWords(hash, a, b, param) == Wrap(hash + Shift(a, 2) + Shift(b, 2)) % param

\* dns_packet_primary_hash
PrimaryHash(pkt, param) ==
    LET fields == Wrap(pkt.af + Shift(pkt.net_protocol, 1)
                       + Shift(pkt.dst_addr.port, 2) + Shift(pkt.src_addr.port, 2)
                       + Shift(pkt.dns_id, 3)) % param
        words == [i \in 1..Len(pkt.src_addr.addr) |->
                     <<pkt.src_addr.addr[i], pkt.dst_addr.addr[i]>>]
    IN  FoldLeft(LAMBDA hash, w : AddWords(hash, w[1], w[2], param), fields, words)

\* dns_packet_primary_match
PrimaryMatch(pkt1, pkt2) ==
    /\ pkt1.af = pkt2.af /\ pkt1.net_protocol = pkt2.net_protocol
    /\ pkt1.dns_id = pkt2.dns_id
    /\ IF pkt1.request = pkt2.request
       THEN pkt1.src_addr = pkt2.src_addr /\ pkt1.dst_addr = pkt2.dst_addr
       ELSE pkt1.src_addr = pkt2.dst_addr /\ pkt1.dst_addr = pkt2.src_addr

\* dns_packet_qname_match.  A name is its text and its size; a packet without a
\* question has a name of its own, of size zero, that only another such packet has.
QnameMatch(request, response) ==
    response.qname = RootName \/ request.qname = response.qname
=============================================================================
