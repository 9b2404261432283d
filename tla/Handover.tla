------------------------------ MODULE Handover ------------------------------
(***************************************************************************)
(* What the threads of the collector rely on about each other: the frames  *)
(* the input hands to the matcher, those the matcher hands to the output,  *)
(* and the records the output makes of them.  They are predicates on the   *)
(* values of a component's variables, shown of each component by itself;   *)
(* the proofs about the whole program combine them.                        *)
(***************************************************************************)
EXTENDS Integers, Sequences

\* The first k frames of q hold the packets 1..m.
Holds(q, k, m) ==
    /\ \A p \in 1..m : \E i \in 1..k : \E j \in 1..Len(q[i].packets) : q[i].packets[j] = p
    /\ \A i \in 1..k : \A j \in 1..Len(q[i].packets) : q[i].packets[j] \in 1..m

\* The frames q of the input, whose packets have the times t and the sizes s: they
\* are well formed, number the packets on from frame to frame, and hold all of
\* them when the input is done.  A final frame is the last one.
InputHands(q, t, s, noTime, done) ==
    /\ t \in Seq(Int) /\ s \in Seq(Nat) /\ Len(s) = Len(t)
    /\ q \in Seq([type : {0, 1}, time_start : Int \cup {noTime},
                  time_end : Int \cup {noTime}, size : Nat, packets : Seq(Nat)])
    /\ \A i \in 1..Len(q) :
         /\ q[i].time_start = noTime <=> q[i].time_end = noTime
         /\ q[i].packets # << >> => q[i].time_start # noTime /\ q[i].type = 0
         /\ \A j \in 1..Len(q[i].packets) : q[i].packets[j] \in 1..Len(t)
         /\ q[i].type = 1 => i = Len(q)
    /\ \A k \in 1..Len(q), m \in Nat : Holds(q, k - 1, m) =>
         \A j \in 1..Len(q[k].packets) : q[k].packets[j] = m + j
    /\ done => Holds(q, Len(q), Len(t))

\* The frames q of the matcher, which knows n packets with data d and the numbers
\* r of their responses: a packet is put out at most once and not if it is the
\* response of another, a response is later than its request and of one request
\* only, and all packets are put out when the matcher is done.
MatcherHands(q, n, d, r, noTime, done) ==
    /\ n \in Nat /\ \E data : d \in Seq(data)
    /\ q \in Seq([type : {0, 1}, time_start : Int \cup {noTime},
                  time_end : Int \cup {noTime}, size : Nat, packets : Seq(1..n)])
    /\ \A p \in 1..n : /\ d[p].ts \in Int /\ d[p].request \in BOOLEAN
                       /\ r[p] \in 0..n /\ (r[p] # 0 => p < r[p])
    /\ \A p, o \in 1..n : r[p] = r[o] /\ r[p] # 0 => p = o
    /\ \A i \in 1..Len(q) :
         /\ q[i].packets # << >> => q[i].type = 0 /\ q[i].time_start # noTime
         /\ q[i].type = 1 => i = Len(q)
    /\ \A i, k \in 1..Len(q) :
         \A j \in 1..Len(q[i].packets), l \in 1..Len(q[k].packets) :
             q[i].packets[j] = q[k].packets[l] => i = k /\ j = l
    /\ \A i \in 1..Len(q) : \A j \in 1..Len(q[i].packets) : \A p \in 1..n :
         r[p] # q[i].packets[j]
    /\ done => \A p \in 1..n : \E i \in 1..Len(q) : \E j \in 1..Len(q[i].packets) :
                   p \in {q[i].packets[j], r[q[i].packets[j]]}

\* The packet p of the matcher as the output sees it, by the data d and the numbers r
\* of the responses.
ItemOf(d, r, p) == [id |-> p, ts |-> d[p].ts, request |-> d[p].request, response |-> r[p]]

\* What the matcher is told of a packet but its time and size.
PacketKinds(keys, qnames) == [request : BOOLEAN, key : keys, qname : qnames]

\* A frame with its packets as the matcher sees them (by their times t, sizes z and
\* kinds k) and as the output sees them.
DataFrame(f, t, z, k) ==
    [f EXCEPT !.packets = [i \in 1..Len(f.packets) |->
        [ts |-> t[f.packets[i]], request |-> k[i].request, key |-> k[i].key,
         qname |-> k[i].qname, size |-> z[f.packets[i]]]]]

ItemFrame(f, d, r) ==
    [f EXCEPT !.packets = [i \in 1..Len(f.packets) |-> ItemOf(d, r, f.packets[i])]]

\* A frame as the matcher and as the output assume it.
Loadable(f, noTime, keys, qnames) ==
    /\ f \in [type : {0, 1}, time_start : Int \cup {noTime}, time_end : Int \cup {noTime},
              size : Nat, packets : Seq([ts : Int, request : BOOLEAN, key : keys,
                                         qname : qnames, size : Nat])]
    /\ f.time_start = noTime <=> f.time_end = noTime
    /\ f.packets # << >> => f.time_start # noTime /\ f.type = 0

Deliverable(f, noTime) ==
    /\ f.type \in {0, 1} /\ f.time_start \in Int \cup {noTime}
    /\ f.packets \in Seq([id : Nat, ts : Int, request : BOOLEAN, response : Nat])
    /\ \A i \in 1..Len(f.packets) : f.packets[i].id # 0
    /\ f.packets # << >> => f.type = 0 /\ f.time_start # noTime

\* The items s are the packets of the first k frames of q, each once.
Takes(q, k, s, d, r) ==
    /\ \A i \in 1..Len(s) : \E l \in 1..k : \E j \in 1..Len(q[l].packets) :
         s[i] = ItemOf(d, r, q[l].packets[j])
    /\ \A l \in 1..k : \A j \in 1..Len(q[l].packets) : \E i \in 1..Len(s) :
         s[i].id = q[l].packets[j]
    /\ \A i, l \in 1..Len(s) : s[i].id = s[l].id => i = l

\* The output has taken the items s of k frames.
Given(q, n, d, r, noTime, done, k, s) ==
    MatcherHands(q, n, d, r, noTime, done) /\ k \in 0..Len(q) /\ Takes(q, k, s, d, r)

\* The first k frames of q are those of o, with the same data and responses.
SameTo(k, q, o, d, e, r, v) ==
    \A l \in 1..k :
        /\ o[l] = q[l]
        /\ \A j \in 1..Len(q[l].packets) :
             e[q[l].packets[j]] = d[q[l].packets[j]] /\ v[q[l].packets[j]] = r[q[l].packets[j]]

\* The frames q, the data d and the responses r of frames put out become o, e and v: what
\* was handed over stays as it is.
Kept(q, o, n, d, e, r, v) ==
    /\ Len(q) <= Len(o)
    /\ \A i \in 1..Len(q) : o[i] = q[i]
    /\ \A p \in 1..n : e[p] = d[p]
    /\ \A i \in 1..Len(q) : \A j \in 1..Len(q[i].packets) :
         v[q[i].packets[j]] = r[q[i].packets[j]]

\* The records w of the output that has taken the items r and has `todo' to do:
\* they are the first of the items, and the next record is of the next item.
OutputHands(w, r, todo, done) ==
    /\ \E item : w \in Seq([file : Nat, item : item]) /\ r \in Seq(item)
    /\ Len(w) <= Len(r)
    /\ \A i \in 1..Len(w) : w[i].item = r[i]
    /\ todo # << >> /\ Head(todo).id # 0 => Len(w) < Len(r) /\ Head(todo) = r[Len(w) + 1]
    /\ done => Len(w) = Len(r)

\* The item h is of packets 1..n that are in none of the records w.
NewTo(h, n, w) ==
    /\ h.id \in 1..n /\ (h.response = 0 \/ h.response \in h.id + 1 .. n)
    /\ \A i \in 1..Len(w) :
         /\ h.id \notin {w[i].item.id, w[i].item.response}
         /\ h.response # 0 => h.response \notin {w[i].item.id, w[i].item.response}

\* The records of Capture that are made of the records w of the output.
Told(x) == [packet |-> x.item.id, response |-> x.item.response]

Tells(w) == [i \in 1..Len(w) |-> Told(w[i])]

\* The packets that records u of Capture name.
Named(u) == {u[i].packet : i \in 1..Len(u)} \cup ({u[i].response : i \in 1..Len(u)} \ {0})
=============================================================================
