--------------------------- MODULE SequenceLemmas ---------------------------
(***************************************************************************)
(* Facts about the sequences the models are made of (lists, queues, frames *)
(* and histories): the length and the elements of what each operation      *)
(* returns, what is in a sequence, and that nothing is in it twice.  Then  *)
(* facts about the frames and the records the threads hand over.           *)
(***************************************************************************)
EXTENDS Integers, Sequences, Functions, Handover, TLAPS

\* The length and the elements of a sequence.
LEMMA LenFacts ==
    ASSUME NEW S, NEW s \in Seq(S)
    PROVE  /\ Len(s) \in Nat /\ DOMAIN s = 1..Len(s) /\ s \in [1..Len(s) -> S]
           /\ \A i \in 1..Len(s) : s[i] \in S
           /\ Len(s) = 0 <=> s = << >>
           /\ s # << >> => Len(s) \in Nat \ {0}
OBVIOUS

\* A sequence over a set is one over any larger set.
LEMMA SeqWider ==
    ASSUME NEW S, NEW T, S \subseteq T, NEW s \in Seq(S)
    PROVE  s \in Seq(T)
OBVIOUS

\* Append adds one element at the end.
LEMMA AppendFacts ==
    ASSUME NEW S, NEW s \in Seq(S), NEW e \in S
    PROVE  /\ Append(s, e) \in Seq(S) /\ Len(Append(s, e)) = Len(s) + 1
           /\ \A i \in 1..Len(s) : Append(s, e)[i] = s[i]
           /\ Append(s, e)[Len(s) + 1] = e
OBVIOUS

\* Head and Tail take the first element off.
LEMMA HeadTailFacts ==
    ASSUME NEW S, NEW s \in Seq(S), s # << >>
    PROVE  /\ Head(s) \in S /\ Head(s) = s[1]
           /\ Tail(s) \in Seq(S) /\ Len(Tail(s)) = Len(s) - 1
           /\ \A i \in 1..Len(Tail(s)) : Tail(s)[i] = s[i + 1]
OBVIOUS

\* Changing one element.
LEMMA ExceptFacts ==
    ASSUME NEW S, NEW s \in Seq(S), NEW n \in 1..Len(s), NEW e \in S
    PROVE  /\ [s EXCEPT ![n] = e] \in Seq(S) /\ Len([s EXCEPT ![n] = e]) = Len(s)
           /\ \A i \in 1..Len(s) : [s EXCEPT ![n] = e][i] = IF i = n THEN e ELSE s[i]
OBVIOUS

\* Concatenation puts the second sequence after the first.
LEMMA ConcatFacts ==
    ASSUME NEW S, NEW s \in Seq(S), NEW t \in Seq(S)
    PROVE  /\ s \o t \in Seq(S) /\ Len(s \o t) = Len(s) + Len(t)
           /\ \A i \in 1..(Len(s) + Len(t)) :
                (s \o t)[i] = IF i <= Len(s) THEN s[i] ELSE t[i - Len(s)]
OBVIOUS

\* The first n elements.
LEMMA PrefixFacts ==
    ASSUME NEW S, NEW s \in Seq(S), NEW n \in 0..Len(s)
    PROVE  /\ SubSeq(s, 1, n) \in Seq(S) /\ Len(SubSeq(s, 1, n)) = n
           /\ \A i \in 1..n : SubSeq(s, 1, n)[i] = s[i]
OBVIOUS

\* The elements from position n on.
LEMMA SuffixFacts ==
    ASSUME NEW S, NEW s \in Seq(S), NEW n \in 1..(Len(s) + 1)
    PROVE  /\ SubSeq(s, n, Len(s)) \in Seq(S) /\ Len(SubSeq(s, n, Len(s))) = Len(s) - n + 1
           /\ \A i \in 1..(Len(s) - n + 1) : SubSeq(s, n, Len(s))[i] = s[n + i - 1]
OBVIOUS
\* The elements of a sequence, by position.
LEMMA RangeByPosition ==
    ASSUME NEW S, NEW s \in Seq(S)
    PROVE  /\ Range(s) = {s[i] : i \in 1..Len(s)}
           /\ Range(s) \subseteq S
           /\ IsInjective(s) <=> \A i, j \in 1..Len(s) : s[i] = s[j] => i = j
BY LenFacts DEF Range, IsInjective

\* The empty sequence.
LEMMA RangeEmpty == Range(<< >>) = {} /\ IsInjective(<< >>)
BY DEF Range, IsInjective

\* Append adds its element, and nothing is twice in the result if it is new.
LEMMA RangeAppend ==
    ASSUME NEW S, NEW s \in Seq(S), NEW e \in S
    PROVE  /\ Range(Append(s, e)) = Range(s) \cup {e}
           /\ IsInjective(s) /\ e \notin Range(s) => IsInjective(Append(s, e))
<1> DEFINE t == Append(s, e)
<1>1. /\ t \in Seq(S) /\ Len(t) = Len(s) + 1 /\ Len(s) \in Nat
      /\ \A i \in 1..Len(s) : t[i] = s[i]
      /\ t[Len(s) + 1] = e
  BY AppendFacts, LenFacts
<1>2. Range(s) = {s[i] : i \in 1..Len(s)} /\ Range(t) = {t[i] : i \in 1..Len(t)}
  BY <1>1, RangeByPosition
<1>3. Range(t) = Range(s) \cup {e}
  <2>1. ASSUME NEW x \in Range(t) PROVE x \in Range(s) \cup {e}
    <3>1. PICK i \in 1..Len(t) : x = t[i]
      BY <1>2
    <3>2. CASE i = Len(s) + 1
      BY <3>1, <3>2, <1>1
    <3>3. CASE i \in 1..Len(s)
      BY <3>1, <3>3, <1>1, <1>2
    <3> QED BY <3>2, <3>3, <1>1
  <2>2. ASSUME NEW x \in Range(s) PROVE x \in Range(t)
    <3>1. PICK i \in 1..Len(s) : x = s[i]
      BY <1>2
    <3> QED BY <3>1, <1>1, <1>2
  <2>3. e \in Range(t)
    BY <1>1, <1>2
  <2> QED BY <2>1, <2>2, <2>3
<1>4. ASSUME IsInjective(s), e \notin Range(s) PROVE IsInjective(t)
  <2>1. ASSUME NEW i \in 1..Len(t), NEW j \in 1..Len(t), t[i] = t[j] PROVE i = j
    <3>1. CASE i \in 1..Len(s) /\ j \in 1..Len(s)
      BY <3>1, <2>1, <1>1, <1>4, RangeByPosition
    <3>2. CASE i = Len(s) + 1 /\ j \in 1..Len(s)
      BY <3>2, <2>1, <1>1, <1>2, <1>4
    <3>3. CASE j = Len(s) + 1 /\ i \in 1..Len(s)
      BY <3>3, <2>1, <1>1, <1>2, <1>4
    <3> QED BY <3>1, <3>2, <3>3, <1>1
  <2> QED BY <2>1, <1>1, RangeByPosition
<1> QED BY <1>3, <1>4

\* Putting an element in front of a list.
LEMMA RangeCons ==
    ASSUME NEW S, NEW s \in Seq(S), NEW e \in S
    PROVE  /\ <<e>> \o s \in Seq(S) /\ Len(<<e>> \o s) = Len(s) + 1
           /\ (<<e>> \o s)[1] = e
           /\ \A i \in 1..Len(s) : (<<e>> \o s)[i + 1] = s[i]
           /\ Range(<<e>> \o s) = {e} \cup Range(s)
           /\ IsInjective(s) /\ e \notin Range(s) => IsInjective(<<e>> \o s)
<1> DEFINE t == <<e>> \o s
<1>1. <<e>> \in Seq(S) /\ Len(<<e>>) = 1 /\ <<e>>[1] = e /\ Len(s) \in Nat
  BY LenFacts
<1>2. /\ t \in Seq(S) /\ Len(t) = Len(s) + 1
      /\ t[1] = e /\ \A i \in 1..Len(s) : t[i + 1] = s[i]
  <2>1. /\ t \in Seq(S) /\ Len(t) = 1 + Len(s)
        /\ \A i \in 1..(1 + Len(s)) : t[i] = IF i <= 1 THEN <<e>>[i] ELSE s[i - 1]
    BY <1>1, ConcatFacts
  <2> HIDE DEF t
  <2>2. \A i \in 1..Len(s) : i + 1 \in 1..(1 + Len(s)) /\ ~(i + 1 <= 1) /\ (i + 1) - 1 = i
    BY <1>1
  <2> QED BY <2>1, <2>2, <1>1
<1> HIDE DEF t
<1>3. Range(s) = {s[i] : i \in 1..Len(s)} /\ Range(t) = {t[i] : i \in 1..Len(t)}
  BY <1>2, RangeByPosition
<1>4. \A j \in 1..Len(t) : j = 1 \/ \E i \in 1..Len(s) : j = i + 1
  <2> SUFFICES ASSUME NEW j \in 1..Len(t), j # 1 PROVE j - 1 \in 1..Len(s) /\ j = (j - 1) + 1
    OBVIOUS
  <2> QED BY <1>1, <1>2
<1>5. Range(t) = {e} \cup Range(s)
  <2>1. ASSUME NEW x \in Range(t) PROVE x \in {e} \cup Range(s)
    <3>1. PICK j \in 1..Len(t) : x = t[j]
      BY <1>3
    <3>2. CASE j = 1
      BY <3>1, <3>2, <1>2
    <3>3. ASSUME NEW i \in 1..Len(s), j = i + 1 PROVE x \in Range(s)
      BY <3>1, <3>3, <1>2, <1>3
    <3> QED BY <3>2, <3>3, <1>4
  <2>2. \A i \in 1..Len(s) : i + 1 \in 1..Len(t)
    BY <1>1, <1>2
  <2>3. 1 \in 1..Len(t)
    BY <1>1, <1>2
  <2> QED BY <2>1, <2>2, <2>3, <1>2, <1>3
<1>6. ASSUME IsInjective(s), e \notin Range(s) PROVE IsInjective(t)
  <2>1. ASSUME NEW i \in 1..Len(t), NEW j \in 1..Len(t), t[i] = t[j] PROVE i = j
    <3>1. \A k, l \in 1..Len(s) : s[k] = s[l] => k = l
      BY <1>6, RangeByPosition
    <3>2. CASE i = 1 /\ j = 1
      BY <3>2
    <3>3. ASSUME NEW k \in 1..Len(s), i = k + 1, j = 1 PROVE FALSE
      BY <3>3, <2>1, <1>2, <1>3, <1>6
    <3>4. ASSUME NEW k \in 1..Len(s), j = k + 1, i = 1 PROVE FALSE
      BY <3>4, <2>1, <1>2, <1>3, <1>6
    <3>5. ASSUME NEW k \in 1..Len(s), i = k + 1, NEW l \in 1..Len(s), j = l + 1 PROVE i = j
      <4>1. s[k] = s[l]
        BY <3>5, <2>1, <1>2
      <4> QED BY <4>1, <3>1, <3>5
    <3> QED BY <3>2, <3>3, <3>4, <3>5, <1>4
  <2> QED BY <2>1, <1>2, RangeByPosition
<1> QED BY <1>2, <1>5, <1>6 DEF t

\* Tail takes the head out.
LEMMA RangeTail ==
    ASSUME NEW S, NEW s \in Seq(S), s # << >>, IsInjective(s)
    PROVE  /\ Range(Tail(s)) = Range(s) \ {Head(s)} /\ Head(s) \in Range(s)
           /\ IsInjective(Tail(s))
<1> DEFINE t == Tail(s)
<1>1. /\ t \in Seq(S) /\ Len(t) = Len(s) - 1 /\ Len(s) \in Nat \ {0}
      /\ \A i \in 1..Len(t) : t[i] = s[i + 1]
      /\ Head(s) = s[1]
  BY HeadTailFacts, LenFacts
<1> HIDE DEF t
<1>2. /\ Range(s) = {s[i] : i \in 1..Len(s)} /\ Range(t) = {t[i] : i \in 1..Len(t)}
      /\ \A i, j \in 1..Len(s) : s[i] = s[j] => i = j
  <2>1. Range(s) = {s[i] : i \in 1..Len(s)} /\ Range(t) = {t[i] : i \in 1..Len(t)}
    BY <1>1, RangeByPosition
  <2>2. \A i, j \in 1..Len(s) : s[i] = s[j] => i = j
    BY RangeByPosition
  <2> QED BY <2>1, <2>2
<1>3. \A i \in 1..Len(t) : i + 1 \in 1..Len(s) /\ i + 1 # 1
  BY <1>1
<1>4. \A j \in 1..Len(s) : j # 1 => \E i \in 1..Len(t) : j = i + 1
  <2> SUFFICES ASSUME NEW j \in 1..Len(s), j # 1 PROVE j - 1 \in 1..Len(t) /\ j = (j - 1) + 1
    OBVIOUS
  <2> QED BY <1>1
<1>5. 1 \in 1..Len(s)
  BY <1>1
<1>6. Range(t) = Range(s) \ {Head(s)}
  <2>1. \A x \in Range(t) : x \in Range(s) \ {Head(s)}
    BY <1>1, <1>2, <1>3, <1>5
  <2>2. ASSUME NEW x \in Range(s) \ {Head(s)} PROVE x \in Range(t)
    <3>1. PICK j \in 1..Len(s) : x = s[j]
      BY <1>2
    <3>2. j # 1
      BY <3>1, <1>1
    <3>3. PICK i \in 1..Len(t) : j = i + 1
      BY <3>2, <1>4
    <3> QED BY <3>1, <3>3, <1>1, <1>2
  <2> QED BY <2>1, <2>2
<1>7. IsInjective(t)
  <2>1. ASSUME NEW i \in 1..Len(t), NEW j \in 1..Len(t), t[i] = t[j] PROVE i = j
    <3>1. i + 1 = j + 1
      BY <2>1, <1>1, <1>2, <1>3
    <3> QED BY <3>1, <1>1
  <2> QED BY <2>1, <1>1, RangeByPosition
<1> QED BY <1>1, <1>2, <1>5, <1>6, <1>7 DEF t

\* A sequence of one element.
LEMMA RangeSingleton ==
    ASSUME NEW e
    PROVE  Range(Append(<< >>, e)) = {e} /\ IsInjective(Append(<< >>, e))
<1>1. << >> \in Seq({e}) /\ e \in {e}
  OBVIOUS
<1>2. Range(Append(<< >>, e)) = Range(<< >>) \cup {e}
  BY <1>1, RangeAppend
<1>3. IsInjective(Append(<< >>, e))
  BY <1>1, RangeAppend, RangeEmpty
<1> QED BY <1>2, <1>3, RangeEmpty
-----------------------------------------------------------------------------
\* What the threads hand over (see Handover).
USE Zenon, SMTT(30)

\* A function on 1..n is a sequence.
LEMMA FunctionSeq ==
    ASSUME NEW n \in Nat, NEW T, NEW u \in [1..n -> T]
    PROVE  u \in Seq(T) /\ Len(u) = n /\ (u # << >> => n # 0)
BY SMTT(30)

\* A sequence after another, whatever its elements are.
LEMMA ConcatAny ==
    ASSUME NEW S, NEW s \in Seq(S), NEW n \in Nat, NEW T, NEW u \in [1..n -> T]
    PROVE  /\ Len(s) \in Nat /\ Len(s \o u) = Len(s) + n
           /\ \A i \in 1..Len(s) : (s \o u)[i] = s[i] /\ i \in 1..(Len(s) + n)
           /\ \A j \in 1..n : (s \o u)[Len(s) + j] = u[j] /\ Len(s) + j \in 1..(Len(s) + n)
           /\ \A i \in 1..(Len(s) + n) : i \in 1..Len(s) \/ \E j \in 1..n : i = Len(s) + j
<1> DEFINE W == S \cup T
           c == s \o u
<1>1. s \in Seq(W) /\ u \in Seq(W) /\ Len(u) = n
  <2>1. s \in Seq(W) /\ u \in Seq(T) /\ Len(u) = n
    BY SeqWider, FunctionSeq
  <2> QED BY <2>1, SeqWider
<1> HIDE DEF W
<1>2. /\ Len(s) \in Nat /\ Len(c) = Len(s) + n
      /\ \A i \in 1..(Len(s) + n) : c[i] = IF i <= Len(s) THEN s[i] ELSE u[i - Len(s)]
  BY <1>1, ConcatFacts, LenFacts
<1> HIDE DEF c
<1> DEFINE m == Len(s)
<1>3. /\ \A i \in 1..m : c[i] = s[i] /\ i \in 1..(m + n)
      /\ \A j \in 1..n : c[m + j] = u[j] /\ m + j \in 1..(m + n)
  <2>1. \A i \in 1..m : i \in 1..(m + n) /\ i <= m
    BY SMTT(30), <1>2
  <2>2. \A j \in 1..n : m + j \in 1..(m + n) /\ ~(m + j <= m) /\ (m + j) - m = j
    BY SMTT(30), <1>2
  <2> QED BY <1>2, <2>1, <2>2
<1>4. \A i \in 1..(Len(s) + n) : i \in 1..Len(s) \/ \E j \in 1..n : i = Len(s) + j
  <2>1. ASSUME NEW i \in 1..(Len(s) + n), i \notin 1..Len(s)
        PROVE  i - Len(s) \in 1..n /\ i = Len(s) + (i - Len(s))
    BY SMTT(30), <1>2, <2>1
  <2> QED BY <2>1
<1> QED BY <1>2, <1>3, <1>4 DEF c

\* Frames that are added do not change what the first ones hold.
LEMMA HoldsKept ==
    ASSUME NEW q, NEW r, NEW k, NEW m, \A i \in 1..k : r[i] = q[i], Holds(q, k, m)
    PROVE  Holds(r, k, m)
<1>1. \A i \in 1..k : r[i].packets = q[i].packets
  OBVIOUS
<1>2. ASSUME NEW p \in 1..m
      PROVE  \E i \in 1..k : \E j \in 1..Len(r[i].packets) : r[i].packets[j] = p
  <2>1. PICK i \in 1..k : \E j \in 1..Len(q[i].packets) : q[i].packets[j] = p
    BY DEF Holds
  <2>2. \E j \in 1..Len(r[i].packets) : r[i].packets[j] = p
    BY <2>1, <1>1
  <2> QED BY <2>2
<1>3. \A i \in 1..k : \A j \in 1..Len(r[i].packets) : r[i].packets[j] \in 1..m
  BY Zenon, <1>1 DEF Holds
<1> QED BY Zenon, <1>2, <1>3 DEF Holds

\* One more frame, whose packets are numbered on.
LEMMA HoldsMore ==
    ASSUME NEW q, NEW k \in Nat, NEW m \in Nat, NEW n \in Nat, Len(q[k + 1].packets) = n,
           \A j \in 1..n : q[k + 1].packets[j] = m + j, Holds(q, k, m)
    PROVE  Holds(q, k + 1, m + n)
<1>1. ASSUME NEW p \in 1..(m + n)
      PROVE  \E i \in 1..(k + 1) : \E j \in 1..Len(q[i].packets) : q[i].packets[j] = p
  <2>1. CASE p \in 1..m
    <3>1. PICK i \in 1..k : \E j \in 1..Len(q[i].packets) : q[i].packets[j] = p
      BY <2>1 DEF Holds
    <3>2. i \in 1..(k + 1)
      BY SMTT(30)
    <3> QED BY <3>1, <3>2
  <2>2. CASE p \notin 1..m
    <3>1. /\ p - m \in 1..Len(q[k + 1].packets) /\ k + 1 \in 1..(k + 1)
          /\ q[k + 1].packets[p - m] = p
      BY SMTT(30), <2>2
    <3> QED BY <3>1
  <2> QED BY <2>1, <2>2
<1>2. ASSUME NEW i \in 1..(k + 1), NEW j \in 1..Len(q[i].packets)
      PROVE  q[i].packets[j] \in 1..(m + n)
  <2>1. CASE i = k + 1
    BY SMTT(30), <2>1
  <2>2. CASE i # k + 1
    <3>1. i \in 1..k
      BY SMTT(30), <2>2
    <3>2. q[i].packets[j] \in 1..m
      BY <3>1 DEF Holds
    <3> QED BY SMTT(30), <3>2
  <2> QED BY <2>1, <2>2
<1> QED BY <1>1, <1>2 DEF Holds

\* Two numbers of packets for the same frames are equal.
LEMMA HoldsOne ==
    ASSUME NEW q, NEW k, NEW m \in Nat, NEW n \in Nat, Holds(q, k, m), Holds(q, k, n)
    PROVE  m = n
<1>1. \A p \in 1..m : p \in 1..n
  BY DEF Holds
<1>2. \A p \in 1..n : p \in 1..m
  BY DEF Holds
<1> QED BY SMTT(30), <1>1, <1>2

\* A record that is added is told after the others.
LEMMA ToldAppend ==
    ASSUME NEW S, NEW w \in Seq(S), NEW x
    PROVE  /\ Len(w) \in Nat /\ Len(Tells(Append(w, x))) = Len(Tells(w)) + 1
           /\ Tells(Append(w, x)) = Append(Tells(w), Told(x))
<1> DEFINE T == S \cup {x}
           v == Append(w, x)
           n == Len(w)
           D == {Told(y) : y \in T}
           a == [i \in 1..n |-> Told(w[i])]
           b == [i \in 1..Len(v) |-> Told(v[i])]
<1>1. /\ w \in Seq(T) /\ n \in Nat /\ v \in Seq(T) /\ Len(v) = n + 1
      /\ \A i \in 1..n : v[i] = w[i]
      /\ v[n + 1] = x
  <2>1. w \in Seq(T) /\ x \in T
    BY SeqWider
  <2> HIDE DEF T
  <2> QED BY SMTT(30), <2>1, AppendFacts, LenFacts
<1>2. (\A i \in 1..n : w[i] \in T) /\ (\A i \in 1..Len(v) : v[i] \in T) /\ x \in T
  <2>1. x \in T
    OBVIOUS
  <2> HIDE DEF T, v
  <2> QED BY <1>1, <2>1, LenFacts
<1>3. /\ \A i \in 1..n : Told(w[i]) \in D
      /\ \A i \in 1..Len(v) : Told(v[i]) \in D
      /\ Told(x) \in D
  <2> HIDE DEF T, v, n
  <2> QED BY <1>2
<1> HIDE DEF T, v, D, n
<1>4. /\ a \in Seq(D) /\ Len(a) = n /\ \A i \in 1..n : a[i] = Told(w[i])
      /\ b \in Seq(D) /\ Len(b) = n + 1 /\ \A i \in 1..(n + 1) : b[i] = Told(v[i])
  BY SMTT(30), <1>1, <1>3
<1> HIDE DEF a, b
<1>5. /\ Append(a, Told(x)) \in Seq(D) /\ Len(Append(a, Told(x))) = n + 1
      /\ \A i \in 1..n : Append(a, Told(x))[i] = a[i]
      /\ Append(a, Told(x))[n + 1] = Told(x)
  BY SMTT(30), <1>3, <1>4, AppendFacts
<1>6. \A i \in 1..(n + 1) : i \in 1..n \/ i = n + 1
  BY SMTT(30), <1>1
<1>7. \A i \in 1..(n + 1) : b[i] = Append(a, Told(x))[i]
  BY SMTT(30), <1>1, <1>4, <1>5, <1>6
<1> DEFINE c == Append(a, Told(x))
<1>8. b = c
  <2>1. c \in Seq(D) /\ b \in Seq(D) /\ Len(c) = n + 1 /\ Len(b) = n + 1
        /\ \A i \in 1..(n + 1) : b[i] = c[i]
    BY <1>4, <1>5, <1>7
  <2> HIDE DEF c
  <2> QED BY SMTT(30), <2>1, <1>1
<1> QED BY <1>1, <1>4, <1>8 DEF a, b, n, v, Tells

\* The frames of the matcher, one by one.
LEMMA HandedFrames ==
    ASSUME NEW q, NEW n, NEW d, NEW r, NEW noTime, NEW done, MatcherHands(q, n, d, r, noTime, done)
    PROVE  /\ Len(q) \in Nat /\ n \in Nat
           /\ \A k \in 1..Len(q) :
                /\ q[k] \in [type : {0, 1}, time_start : Int \cup {noTime},
                             time_end : Int \cup {noTime}, size : Nat, packets : Seq(1..n)]
                /\ Len(q[k].packets) \in Nat
                /\ \A j \in 1..Len(q[k].packets) : q[k].packets[j] \in 1..n
<1> DEFINE F == [type : {0, 1}, time_start : Int \cup {noTime}, time_end : Int \cup {noTime},
                 size : Nat, packets : Seq(1..n)]
<1>1. q \in Seq(F) /\ n \in Nat
  BY DEF MatcherHands
<1>2. Len(q) \in Nat /\ \A k \in 1..Len(q) : q[k] \in F
  <2> HIDE DEF F
  <2> QED BY <1>1, LenFacts
<1>3. \A k \in 1..Len(q) : q[k].packets \in Seq(1..n)
  BY <1>2
<1>4. \A k \in 1..Len(q) : /\ Len(q[k].packets) \in Nat
                           /\ \A j \in 1..Len(q[k].packets) : q[k].packets[j] \in 1..n
  BY <1>3, LenFacts
<1> QED BY <1>1, <1>2, <1>4

LEMMA ItemFields == \A d, r, p : ItemOf(d, r, p).id = p /\ ItemOf(d, r, p).response = r[p]
BY DEF ItemOf

\* What was taken stays what was handed over.
LEMMA TakesKept ==
    ASSUME NEW q, NEW o, NEW k, NEW s, NEW d, NEW e, NEW r, NEW v, Takes(q, k, s, d, r),
           SameTo(k, q, o, d, e, r, v)
    PROVE  Takes(o, k, s, e, v)
<1> USE DEF SameTo
<1>1. \A l \in 1..k : o[l].packets = q[l].packets
  OBVIOUS
<1>2. \A l \in 1..k : \A j \in 1..Len(q[l].packets) :
         ItemOf(e, v, q[l].packets[j]) = ItemOf(d, r, q[l].packets[j])
  BY DEF ItemOf
<1>3. ASSUME NEW i \in 1..Len(s)
      PROVE  \E l \in 1..k : \E j \in 1..Len(o[l].packets) : s[i] = ItemOf(e, v, o[l].packets[j])
  <2>1. PICK l \in 1..k : \E j \in 1..Len(q[l].packets) : s[i] = ItemOf(d, r, q[l].packets[j])
    BY DEF Takes
  <2>2. PICK j \in 1..Len(q[l].packets) : s[i] = ItemOf(d, r, q[l].packets[j])
    BY <2>1
  <2>3. s[i] = ItemOf(e, v, q[l].packets[j])
    BY <2>2, <1>2
  <2> QED BY SMTT(30), <2>3, <1>1
<1>4. ASSUME NEW l \in 1..k, NEW j \in 1..Len(o[l].packets)
      PROVE  \E i \in 1..Len(s) : s[i].id = o[l].packets[j]
  <2>1. o[l].packets = q[l].packets
    BY <1>1
  <2>2. \E i \in 1..Len(s) : s[i].id = q[l].packets[j]
    BY SMTT(30), <2>1 DEF Takes
  <2> QED BY <2>1, <2>2
<1>5. \A i, l \in 1..Len(s) : s[i].id = s[l].id => i = l
  BY DEF Takes
<1> QED BY <1>3, <1>4, <1>5 DEF Takes


\* One more frame is taken.
LEMMA TakesMore ==
    ASSUME NEW q, NEW n, NEW d, NEW r, NEW noTime, NEW done, MatcherHands(q, n, d, r, noTime, done),
           NEW k \in Nat, k < Len(q), NEW S, NEW s \in Seq(S), Takes(q, k, s, d, r)
    PROVE  Takes(q, k + 1, s \o ItemFrame(q[k + 1], d, r).packets, d, r)
<1> DEFINE f == q[k + 1].packets
           L == Len(f)
           ps == [i \in 1..L |-> ItemOf(d, r, f[i])]
           t == s \o ps
<1>1. /\ k + 1 \in 1..Len(q) /\ k + 1 \in 1..(k + 1)
      /\ \A l \in 1..k : l \in 1..(k + 1) /\ l \in 1..Len(q) /\ l # k + 1
      /\ \A l \in 1..(k + 1) : l = k + 1 \/ l \in 1..k
  BY SMTT(30), HandedFrames
<1>2. L \in Nat
  BY <1>1, HandedFrames
<1>3. /\ Len(s) \in Nat /\ Len(t) = Len(s) + L
      /\ \A i \in 1..Len(s) : t[i] = s[i] /\ i \in 1..Len(t)
      /\ \A j \in 1..L : t[Len(s) + j] = ItemOf(d, r, f[j]) /\ Len(s) + j \in 1..Len(t)
      /\ \A i \in 1..Len(t) : i \in 1..Len(s) \/ \E j \in 1..L : i = Len(s) + j
  <2> DEFINE T == {ItemOf(d, r, f[i]) : i \in 1..L}
  <2>1. ps \in [1..L -> T] /\ \A j \in 1..L : ps[j] = ItemOf(d, r, f[j])
    OBVIOUS
  <2> HIDE DEF T, ps, L, f
  <2>2. /\ Len(s) \in Nat /\ Len(t) = Len(s) + L
        /\ \A i \in 1..Len(s) : t[i] = s[i] /\ i \in 1..(Len(s) + L)
        /\ \A j \in 1..L : t[Len(s) + j] = ps[j] /\ Len(s) + j \in 1..(Len(s) + L)
        /\ \A i \in 1..(Len(s) + L) : i \in 1..Len(s) \/ \E j \in 1..L : i = Len(s) + j
    BY <1>2, <2>1, ConcatAny
  <2> HIDE DEF t
  <2> QED BY <2>1, <2>2
<1> HIDE DEF t
<1>4. \A i \in 1..Len(s) : t[i].id = s[i].id
  BY <1>3
<1>5. \A j \in 1..L : t[Len(s) + j].id = f[j]
  BY SMTT(30), <1>3, ItemFields
<1>6. ASSUME NEW i \in 1..Len(t)
      PROVE  \E l \in 1..(k + 1) : \E j \in 1..Len(q[l].packets) : t[i] = ItemOf(d, r, q[l].packets[j])
  <2>1. CASE i \in 1..Len(s)
    <3>1. PICK l \in 1..k : \E j \in 1..Len(q[l].packets) : s[i] = ItemOf(d, r, q[l].packets[j])
      BY <2>1 DEF Takes
    <3> QED BY <3>1, <2>1, <1>1, <1>3
  <2>2. CASE \E j \in 1..L : i = Len(s) + j
    <3>1. PICK j \in 1..L : i = Len(s) + j
      BY <2>2
    <3>2. t[i] = ItemOf(d, r, q[k + 1].packets[j])
      BY <3>1, <1>3
    <3> QED BY <3>2, <1>1
  <2> QED BY <2>1, <2>2, <1>3
<1>7. ASSUME NEW l \in 1..(k + 1), NEW j \in 1..Len(q[l].packets)
      PROVE  \E i \in 1..Len(t) : t[i].id = q[l].packets[j]
  <2>1. CASE l = k + 1
    BY <2>1, <1>3, <1>5
  <2>2. CASE l \in 1..k
    <3>1. PICK i \in 1..Len(s) : s[i].id = q[l].packets[j]
      BY <2>2 DEF Takes
    <3> QED BY <3>1, <1>3, <1>4
  <2> QED BY <2>1, <2>2, <1>1
<1>8. \A a, b \in 1..Len(q) : \A c \in 1..Len(q[a].packets), e \in 1..Len(q[b].packets) :
         q[a].packets[c] = q[b].packets[e] => a = b /\ c = e
  BY DEF MatcherHands
<1>9. ASSUME NEW i \in 1..Len(s), NEW j \in 1..L PROVE t[i].id # t[Len(s) + j].id
  <2>1. PICK l \in 1..k : \E m \in 1..Len(q[l].packets) : s[i] = ItemOf(d, r, q[l].packets[m])
    BY DEF Takes
  <2>2. PICK m \in 1..Len(q[l].packets) : s[i] = ItemOf(d, r, q[l].packets[m])
    BY <2>1
  <2>3. s[i].id = q[l].packets[m]
    BY SMTT(30), <2>2, ItemFields
  <2>4. q[l].packets[m] # f[j]
    BY <1>1, <1>8
  <2> QED BY <2>3, <2>4, <1>4, <1>5
<1>10. ASSUME NEW i \in 1..Len(t), NEW l \in 1..Len(t), t[i].id = t[l].id PROVE i = l
  <2>1. CASE i \in 1..Len(s) /\ l \in 1..Len(s)
    BY <2>1, <1>4, <1>10 DEF Takes
  <2>2. CASE i \in 1..Len(s) /\ \E j \in 1..L : l = Len(s) + j
    BY <2>2, <1>9, <1>10
  <2>3. CASE l \in 1..Len(s) /\ \E j \in 1..L : i = Len(s) + j
    BY <2>3, <1>9, <1>10
  <2>4. ASSUME NEW j \in 1..L, NEW m \in 1..L, i = Len(s) + j, l = Len(s) + m PROVE i = l
    <3>1. f[j] = f[m]
      BY <2>4, <1>5, <1>10
    <3>2. j = m
      BY <3>1, <1>1, <1>8
    <3> QED BY <3>2, <2>4
  <2> QED BY <2>1, <2>2, <2>3, <2>4, <1>3
<1>11. Takes(q, k + 1, t, d, r)
  BY <1>6, <1>7, <1>10 DEF Takes
<1>12. ItemFrame(q[k + 1], d, r).packets = ps
  <2>1. q[k + 1] \in [type : {0, 1}, time_start : Int \cup {noTime}, time_end : Int \cup {noTime},
                      size : Nat, packets : Seq(1..n)]
    BY <1>1, HandedFrames
  <2> HIDE DEF ps
  <2>2. [q[k + 1] EXCEPT !.packets = ps].packets = ps
    BY <2>1
  <2> QED BY <2>2 DEF ItemFrame, ps
<1> QED BY <1>11, <1>12 DEF t

\* The packets taken are the matcher's, and no two of the items share one.
LEMMA ItemsApart ==
    ASSUME NEW q, NEW n, NEW d, NEW r, NEW noTime, NEW done, MatcherHands(q, n, d, r, noTime, done),
           NEW k \in 0..Len(q), NEW s, Takes(q, k, s, d, r)
    PROVE  /\ \A i \in 1..Len(s) : /\ s[i].id \in 1..n /\ s[i].response = r[s[i].id]
                                   /\ s[i].response \in 0..n
                                   /\ s[i].response # 0 => s[i].id < s[i].response
           /\ \A i, l \in 1..Len(s) : s[i].response # s[l].id
           /\ \A i, l \in 1..Len(s) : s[i].response = s[l].response /\ s[i].response # 0 => i = l
           /\ \A i, l \in 1..Len(s) : s[i].id = s[l].id => i = l
<1>0. \A l \in 1..k : l \in 1..Len(q)
  BY SMTT(30), HandedFrames
<1>1. ASSUME NEW i \in 1..Len(s)
      PROVE  /\ \E l \in 1..Len(q) : \E j \in 1..Len(q[l].packets) : s[i].id = q[l].packets[j]
             /\ s[i].id \in 1..n /\ s[i].response = r[s[i].id]
  <2>1. PICK l \in 1..k : \E j \in 1..Len(q[l].packets) : s[i] = ItemOf(d, r, q[l].packets[j])
    BY DEF Takes
  <2>2. PICK j \in 1..Len(q[l].packets) : s[i] = ItemOf(d, r, q[l].packets[j])
    BY <2>1
  <2>3. s[i].id = q[l].packets[j] /\ s[i].response = r[q[l].packets[j]]
    BY SMTT(30), <2>2, ItemFields
  <2> QED BY SMTT(30), <2>3, <1>0, HandedFrames
<1>2. \A p \in 1..n : r[p] \in 0..n /\ (r[p] # 0 => p < r[p])
  BY DEF MatcherHands
<1>3. \A p, o \in 1..n : r[p] = r[o] /\ r[p] # 0 => p = o
  BY DEF MatcherHands
<1>4. \A l \in 1..Len(q) : \A j \in 1..Len(q[l].packets) : \A p \in 1..n : r[p] # q[l].packets[j]
  BY DEF MatcherHands
<1>5. \A i, l \in 1..Len(s) : s[i].id = s[l].id => i = l
  BY DEF Takes
<1>6. ASSUME NEW i \in 1..Len(s), NEW l \in 1..Len(s) PROVE s[i].response # s[l].id
  <2>1. PICK m \in 1..Len(q) : \E j \in 1..Len(q[m].packets) : s[l].id = q[m].packets[j]
    BY <1>1
  <2>2. s[i].id \in 1..n /\ s[i].response = r[s[i].id]
    BY <1>1
  <2> QED BY <2>1, <2>2, <1>4
<1>7. ASSUME NEW i \in 1..Len(s), NEW l \in 1..Len(s), s[i].response = s[l].response,
             s[i].response # 0
      PROVE  i = l
  <2>1. /\ s[i].id \in 1..n /\ s[i].response = r[s[i].id]
        /\ s[l].id \in 1..n /\ s[l].response = r[s[l].id]
    BY <1>1
  <2>2. s[i].id = s[l].id
    BY <2>1, <1>3, <1>7
  <2> QED BY <2>2, <1>5
<1>8. \A i \in 1..Len(s) : /\ s[i].id \in 1..n /\ s[i].response = r[s[i].id]
                           /\ s[i].response \in 0..n
                           /\ s[i].response # 0 => s[i].id < s[i].response
  BY <1>1, <1>2
<1> QED BY <1>5, <1>6, <1>7, <1>8

\* The next packet and its response, of m packets that were read, are in no record.
LEMMA RecordsNew ==
    ASSUME NEW q, NEW n, NEW d, NEW r, NEW noTime, NEW done, NEW k, NEW s,
           Given(q, n, d, r, noTime, done, k, s), NEW w, NEW todo, NEW end,
           OutputHands(w, s, todo, end), todo # << >>, Head(todo).id # 0
    PROVE  NewTo(Head(todo), n, w)
<1> USE DEF Given
<1> DEFINE h == Head(todo)
           c == Len(w) + 1
<1>1. Len(w) \in Nat /\ Len(s) \in Nat
  <2>1. PICK S : w \in Seq([file : Nat, item : S]) /\ s \in Seq(S)
    BY DEF OutputHands
  <2> QED BY <2>1, LenFacts
<1>2. Len(w) < Len(s) /\ h = s[c] /\ \A i \in 1..Len(w) : w[i].item = s[i]
  BY DEF OutputHands
<1>3. c \in 1..Len(s) /\ \A i \in 1..Len(w) : i \in 1..Len(s) /\ i # c
  BY SMTT(30), <1>1, <1>2
<1> HIDE DEF c
<1>4. /\ s[c].id \in 1..n /\ s[c].response \in 0..n
      /\ s[c].response # 0 => s[c].id < s[c].response
      /\ \A i \in 1..Len(s) : s[i].response # s[c].id /\ s[c].response # s[i].id
      /\ \A i \in 1..Len(s) : s[c].response = s[i].response /\ s[c].response # 0 => i = c
      /\ \A i \in 1..Len(s) : s[c].id = s[i].id => i = c
  BY SMTT(30), <1>3, ItemsApart
<1> HIDE DEF h
<1>5. h.id \in 1..n /\ (h.response = 0 \/ h.response \in h.id + 1 .. n)
  <2>1. n \in Nat
    BY HandedFrames
  <2>2. h.id \in 1..n /\ h.response \in 0..n /\ (h.response # 0 => h.id < h.response)
    BY <1>2, <1>4
  <2>3. \A a \in 1..n, b \in 0..n : (b # 0 => a < b) => b = 0 \/ b \in a + 1 .. n
    BY SMTT(30), <2>1
  <2> QED BY <2>2, <2>3
<1>6. ASSUME NEW i \in 1..Len(w)
      PROVE  /\ h.id \notin {w[i].item.id, w[i].item.response}
             /\ h.response # 0 => h.response \notin {w[i].item.id, w[i].item.response}
  BY <1>2, <1>3, <1>4
<1> QED BY <1>5, <1>6 DEF h, NewTo

\* When all was put out, taken and recorded, the records are of all packets.
LEMMA AllTold ==
    ASSUME NEW q, NEW n, NEW d, NEW r, NEW noTime, NEW done, MatcherHands(q, n, d, r, noTime, done),
           NEW k \in 0..Len(q), NEW s, Takes(q, k, s, d, r),
           NEW w, NEW todo, NEW end, OutputHands(w, s, todo, end)
    PROVE  done /\ k = Len(q) /\ end =>
             \A p : (\E i \in 1..Len(w) : p = w[i].item.id \/ (p = w[i].item.response /\ p # 0))
                       <=> p \in 1..n
<1>1. \A i \in 1..Len(s) : s[i].id \in 1..n /\ s[i].response = r[s[i].id] /\ s[i].response \in 0..n
  BY SMTT(30), ItemsApart
<1>2. \A p \in 0..n : p # 0 => p \in 1..n
  BY SMTT(30), HandedFrames
<1>3. SUFFICES ASSUME done, k = Len(q), end
               PROVE  \A p : (\E i \in 1..Len(w) : \/ p = w[i].item.id
                                                   \/ p = w[i].item.response /\ p # 0)
                                <=> p \in 1..n
  OBVIOUS
<1>4. Len(w) = Len(s) /\ \A i \in 1..Len(s) : w[i].item = s[i]
  BY <1>3 DEF OutputHands
<1>5. ASSUME NEW p \in 1..n
      PROVE  p # 0 /\ \E i \in 1..Len(s) : p = s[i].id \/ p = s[i].response
  <2>1. PICK l \in 1..Len(q) : \E j \in 1..Len(q[l].packets) : p \in {q[l].packets[j], r[q[l].packets[j]]}
    BY <1>3 DEF MatcherHands
  <2>2. PICK j \in 1..Len(q[l].packets) : p \in {q[l].packets[j], r[q[l].packets[j]]}
    BY <2>1
  <2>3. PICK i \in 1..Len(s) : s[i].id = q[l].packets[j]
    BY <1>3 DEF Takes
  <2>4. p # 0
    BY SMTT(30)
  <2> QED BY <2>2, <2>3, <2>4, <1>1
<1>6. ASSUME NEW i \in 1..Len(w), NEW p, p = w[i].item.id \/ (p = w[i].item.response /\ p # 0)
      PROVE  p \in 1..n
  BY SMTT(30), <1>1, <1>2, <1>4, <1>6
<1>7. ASSUME NEW p \in 1..n
      PROVE  \E i \in 1..Len(w) : p = w[i].item.id \/ (p = w[i].item.response /\ p # 0)
  BY SMTT(30), <1>4, <1>5
<1> QED BY <1>6, <1>7

\* The matcher, which took k frames of the input and knows n packets from them, knows
\* no packet that was not read, and all packets when all frames were taken.
LEMMA PacketsRead ==
    ASSUME NEW q, NEW t, NEW z, NEW noTime, NEW done, InputHands(q, t, z, noTime, done),
           NEW k \in 0..Len(q), NEW n \in Nat, Holds(q, k, n)
    PROVE  Len(t) \in Nat /\ n <= Len(t)
<1>1. Len(t) \in Nat
  <2>1. t \in Seq(Int)
    BY DEF InputHands
  <2> QED BY <2>1, LenFacts
<1>2. Len(q) \in Nat
  <2>1. PICK S : q \in Seq(S)
    BY DEF InputHands
  <2> QED BY <2>1, LenFacts
<1>3. \A i \in 1..k : i \in 1..Len(q)
  BY SMTT(30), <1>2
<1>4. ASSUME NEW p \in 1..n PROVE p \in 1..Len(t)
  <2>1. PICK i \in 1..k : \E j \in 1..Len(q[i].packets) : q[i].packets[j] = p
    BY DEF Holds
  <2>2. \A j \in 1..Len(q[i].packets) : q[i].packets[j] \in 1..Len(t)
    BY <1>3 DEF InputHands
  <2> QED BY <2>1, <2>2
<1>5. n <= Len(t)
  BY SMTT(30), <1>1, <1>4
<1> QED BY <1>1, <1>5

\* The next frame numbers the packets on.
LEMMA TakesNext ==
    ASSUME NEW q, NEW t, NEW z, NEW noTime, NEW done, InputHands(q, t, z, noTime, done),
           NEW k \in Nat, k < Len(q), NEW n \in Nat, Holds(q, k, n)
    PROVE  /\ q[k + 1] \in [type : {0, 1}, time_start : Int \cup {noTime},
                            time_end : Int \cup {noTime}, size : Nat, packets : Seq(Nat)]
           /\ Len(q[k + 1].packets) \in Nat
           /\ Holds(q, k + 1, n + Len(q[k + 1].packets))
<1> DEFINE F == [type : {0, 1}, time_start : Int \cup {noTime}, time_end : Int \cup {noTime},
                 size : Nat, packets : Seq(Nat)]
           f == q[k + 1]
<1>1. q \in Seq(F)
  BY DEF InputHands
<1>2. Len(q) \in Nat /\ \A i \in 1..Len(q) : q[i] \in F
  <2> HIDE DEF F
  <2> QED BY <1>1, LenFacts
<1>3. k + 1 \in 1..Len(q) /\ (k + 1) - 1 = k
  BY SMTT(30), <1>2
<1>4. f \in F /\ f.packets \in Seq(Nat)
  BY <1>2, <1>3
<1>5. Len(f.packets) \in Nat
  BY <1>4, LenFacts
<1>6. \A j \in 1..Len(f.packets) : f.packets[j] = n + j
  <2>1. Holds(q, (k + 1) - 1, n)
    BY <1>3
  <2> QED BY <1>3, <2>1 DEF InputHands
<1>7. Holds(q, k + 1, n + Len(f.packets))
  BY <1>5, <1>6, HoldsMore
<1> QED BY <1>4, <1>5, <1>7

\* A frame of the input with the packets the matcher reads in it: it is one the matcher
\* assumes.
LEMMA FrameForMatcher ==
    ASSUME NEW q, NEW t, NEW z, NEW noTime, NEW done, InputHands(q, t, z, noTime, done),
           NEW k \in 1..Len(q), NEW keys, NEW qnames,
           NEW kind \in [1..Len(q[k].packets) -> PacketKinds(keys, qnames)]
    PROVE  LET g == DataFrame(q[k], t, z, kind) IN
           /\ Loadable(g, noTime, keys, qnames)
           /\ g.type = q[k].type /\ Len(g.packets) = Len(q[k].packets)
<1> DEFINE g == DataFrame(q[k], t, z, kind)
<1> DEFINE f == q[k]
           n == Len(f.packets)
           P == [ts : Int, request : BOOLEAN, key : keys, qname : qnames, size : Nat]
           d(i) == [ts |-> t[f.packets[i]], request |-> kind[i].request, key |-> kind[i].key,
                    qname |-> kind[i].qname, size |-> z[f.packets[i]]]
           ps == [i \in 1..n |-> d(i)]
           F == [type : {0, 1}, time_start : Int \cup {noTime}, time_end : Int \cup {noTime},
                 size : Nat, packets : Seq(Nat)]
<1>1. /\ f \in F /\ (f.time_start = noTime <=> f.time_end = noTime)
      /\ f.packets # << >> => f.time_start # noTime /\ f.type = 0
      /\ \A j \in 1..n : f.packets[j] \in 1..Len(t)
  <2>1. q \in Seq(F)
    BY DEF InputHands
  <2>2. f \in F
    <3> HIDE DEF F
    <3> QED BY <2>1, LenFacts
  <2> QED BY <2>2 DEF InputHands
<1>2. n \in Nat /\ (n = 0 <=> f.packets = << >>)
  BY <1>1, LenFacts
<1>3. \A i \in 1..n : d(i) \in P
  <2>1. t \in Seq(Int) /\ z \in Seq(Nat) /\ Len(z) = Len(t)
    BY DEF InputHands
  <2>2. \A p \in 1..Len(t) : t[p] \in Int /\ z[p] \in Nat
    BY <2>1, LenFacts
  <2>3. \A i \in 1..n : /\ t[f.packets[i]] \in Int /\ z[f.packets[i]] \in Nat
                        /\ kind[i].request \in BOOLEAN /\ kind[i].key \in keys
                        /\ kind[i].qname \in qnames
    BY <1>1, <2>2 DEF PacketKinds
  <2> HIDE DEF f, n
  <2> QED BY <2>3
<1> HIDE DEF d, n, P
<1>4. ps \in Seq(P) /\ Len(ps) = n /\ (ps # << >> => n # 0)
  <2>1. ps \in [1..n -> P]
    BY <1>3
  <2> HIDE DEF ps
  <2> QED BY <1>2, <2>1, FunctionSeq
<1>5. g = [f EXCEPT !.packets = ps]
  BY DEF ps, d, n, DataFrame
<1> HIDE DEF ps, f, g
<1>6. /\ g \in [type : {0, 1}, time_start : Int \cup {noTime}, time_end : Int \cup {noTime},
                size : Nat, packets : Seq(P)]
      /\ g.time_start = f.time_start /\ g.time_end = f.time_end /\ g.type = f.type
      /\ g.packets = ps
  BY <1>1, <1>4, <1>5
<1>7. Loadable(g, noTime, keys, qnames) /\ g.type = q[k].type /\ Len(g.packets) = Len(q[k].packets)
  BY <1>1, <1>2, <1>4, <1>6 DEF P, f, n, Loadable
<1> QED BY <1>7 DEF g

\* A frame of the matcher with its packets as the output sees them: it is one the
\* output assumes.
LEMMA FrameForOutput ==
    ASSUME NEW q, NEW n, NEW d, NEW r, NEW noTime, NEW done, MatcherHands(q, n, d, r, noTime, done),
           NEW k \in 1..Len(q)
    PROVE  /\ Deliverable(ItemFrame(q[k], d, r), noTime)
           /\ ItemFrame(q[k], d, r).type = q[k].type
<1> DEFINE g == ItemFrame(q[k], d, r)
<1> DEFINE f == q[k]
           m == Len(f.packets)
           e(i) == ItemOf(d, r, f.packets[i])
           ps == [i \in 1..m |-> e(i)]
           I == [id : Nat, ts : Int, request : BOOLEAN, response : Nat]
<1>1. /\ f \in [type : {0, 1}, time_start : Int \cup {noTime}, time_end : Int \cup {noTime},
                size : Nat, packets : Seq(1..n)]
      /\ m \in Nat /\ (\A j \in 1..m : f.packets[j] \in 1..n) /\ n \in Nat
  BY HandedFrames
<1>2. f.packets # << >> => f.type = 0 /\ f.time_start # noTime
  BY DEF MatcherHands
<1>3. m = 0 <=> f.packets = << >>
  BY <1>1, LenFacts
<1>4. \A i \in 1..m : e(i) \in I /\ e(i).id # 0
  <2>1. \A p \in 1..n : d[p].ts \in Int /\ d[p].request \in BOOLEAN /\ r[p] \in 0..n
    BY DEF MatcherHands
  <2>2. (\A p \in 1..n : p \in Nat /\ p # 0) /\ (\A p \in 0..n : p \in Nat)
    BY SMTT(30), <1>1
  <2>3. \A p \in 1..n : ItemOf(d, r, p) \in I /\ ItemOf(d, r, p).id # 0
    BY <2>1, <2>2 DEF ItemOf
  <2> QED BY <2>3, <1>1
<1> HIDE DEF e, m, I
<1>5. ps \in Seq(I) /\ Len(ps) = m /\ (\A i \in 1..m : ps[i] = e(i)) /\ (ps # << >> => m # 0)
  <2>1. ps \in [1..m -> I] /\ \A i \in 1..m : ps[i] = e(i)
    BY <1>4
  <2> HIDE DEF ps
  <2> QED BY <1>1, <2>1, FunctionSeq
<1>6. g = [f EXCEPT !.packets = ps]
  BY DEF e, m, ItemFrame
<1> HIDE DEF ps, f, g
<1>7. g.packets = ps /\ g.type = f.type /\ g.time_start = f.time_start
  BY <1>1, <1>6
<1>8. f.type \in {0, 1} /\ f.time_start \in Int \cup {noTime}
  BY <1>1
<1>9. Deliverable(g, noTime)
  BY <1>2, <1>3, <1>4, <1>5, <1>7, <1>8 DEF Deliverable, I
<1> QED BY <1>7, <1>9 DEF f, g

\* Frames that are put into the queue leave alone those that were taken.
LEMMA HoldsGrown ==
    ASSUME NEW q, NEW t, NEW z, NEW noTime, NEW done, InputHands(q, t, z, noTime, done),
           NEW o, o = q \/ \E f : o = Append(q, f), NEW k \in 0..Len(q), NEW n, Holds(q, k, n)
    PROVE  k \in 0..Len(o) /\ Holds(o, k, n) /\ (k # 0 => o[k] = q[k])
<1>1. PICK S : q \in Seq(S)
  BY DEF InputHands
<1>2. k \in 0..Len(o) /\ \A i \in 1..Len(q) : o[i] = q[i]
  <2>1. ASSUME NEW f, o = Append(q, f) PROVE k \in 0..Len(o) /\ \A i \in 1..Len(q) : o[i] = q[i]
    <3>1. q \in Seq(S \cup {f}) /\ f \in S \cup {f}
      BY <1>1, SeqWider
    <3> QED BY SMTT(30), <2>1, <3>1, AppendFacts, LenFacts
  <2> QED BY <2>1
<1>3. Len(q) \in Nat
  BY <1>1, LenFacts
<1>4. (\A i \in 1..k : i \in 1..Len(q)) /\ (k # 0 => k \in 1..Len(q))
  BY SMTT(30), <1>3
<1>5. Holds(o, k, n)
  BY <1>2, <1>4, HoldsKept
<1> QED BY <1>2, <1>4, <1>5

LEMMA TakesGrown ==
    ASSUME NEW q, NEW n, NEW d, NEW r, NEW noTime, NEW done, NEW k, NEW s,
           Given(q, n, d, r, noTime, done, k, s), NEW o, NEW e, NEW v, Kept(q, o, n, d, e, r, v),
           Len(o) \in Nat
    PROVE  k \in 0..Len(o) /\ Takes(o, k, s, e, v) /\ (k # 0 => o[k] = q[k])
<1> USE DEF Given, Kept
<1>1. Len(q) \in Nat
  BY HandedFrames
<1>2. k \in 0..Len(o) /\ (\A i \in 1..k : i \in 1..Len(q)) /\ (k # 0 => k \in 1..Len(q))
  BY SMTT(30), <1>1
<1>3. Takes(q, k, s, d, r) /\ SameTo(k, q, o, d, e, r, v)
  BY <1>2, HandedFrames DEF SameTo
<1> HIDE DEF Given, Kept
<1>4. Takes(o, k, s, e, v)
  BY <1>3, TakesKept
<1> QED BY <1>2, <1>4 DEF Kept

\* What the records w tell of.
LEMMA ToldFacts ==
    ASSUME NEW w, Len(w) \in Nat
    PROVE  \A p : p \in Named(Tells(w)) <=>
             \E i \in 1..Len(w) : p = w[i].item.id \/ (p = w[i].item.response /\ p # 0)
<1> DEFINE u == Tells(w)
<1>1. \A x : Told(x).packet = x.item.id /\ Told(x).response = x.item.response
  BY DEF Told
<1>2. Len(u) = Len(w) /\ \A i \in 1..Len(w) : u[i] = Told(w[i])
  BY SMTT(30) DEF Tells
<1>3. \A i \in 1..Len(w) : u[i].packet = w[i].item.id /\ u[i].response = w[i].item.response
  BY <1>1, <1>2
<1> HIDE DEF u
<1>4. \A p : p \in Named(u) <=>
         \E i \in 1..Len(w) : p = w[i].item.id \/ (p = w[i].item.response /\ p # 0)
  BY SMTT(30), <1>2, <1>3 DEF Named
<1> QED BY <1>4 DEF u

\* The packets of the next frame come after those handed over before.
LEMMA LenLoaded ==
    ASSUME NEW q, NEW n, NEW d, NEW r, NEW noTime, NEW done, MatcherHands(q, n, d, r, noTime, done),
           NEW T, NEW u \in Seq(T)
    PROVE  Len(d \o u) = Len(d) + Len(u)
<1>1. PICK S : d \in Seq(S)
  BY DEF MatcherHands
<1>2. Len(u) \in Nat /\ u \in [1..Len(u) -> T]
  BY SMTT(30)
<1> QED BY SMTT(30), <1>1, <1>2, ConcatAny

\* The final frame is the last one of its queue.
LEMMA LastIn ==
    ASSUME NEW q, NEW t, NEW z, NEW noTime, NEW done, InputHands(q, t, z, noTime, done),
           NEW k \in 0..Len(q), k # 0, q[k].type = 1
    PROVE  k = Len(q)
<1>1. k \in 1..Len(q)
  BY SMTT(30)
<1> QED BY <1>1 DEF InputHands

LEMMA LastOut ==
    ASSUME NEW q, NEW n, NEW d, NEW r, NEW noTime, NEW done, MatcherHands(q, n, d, r, noTime, done),
           NEW k \in 0..Len(q), k # 0, q[k].type = 1
    PROVE  k = Len(q)
<1>1. k \in 1..Len(q)
  BY SMTT(30)
<1> QED BY <1>1 DEF MatcherHands

=============================================================================
