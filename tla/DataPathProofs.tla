--------------------------- MODULE DataPathProofs ---------------------------
(***************************************************************************)
(* What holds of the data path for any sessions: traffic of any length cut *)
(* by the network anywhere, any values, any rules, and a ring of any size. *)
(***************************************************************************)
EXTENDS DataPath, SetInduction, SequenceTheorems, FiniteSetTheorems

-----------------------------------------------------------------------------
(* Lists *)

LEMMA ListIs ==
    ASSUME NEW s, IsList(s)
    PROVE  Len(s) \in Nat /\ DOMAIN s = 1..Len(s) /\ s \in Seq(Range(s))
<1>1. Len(s) \in Nat /\ DOMAIN s = 1..Len(s) /\ s = [i \in 1..Len(s) |-> s[i]]
  BY DEF IsList
<1>2. \A i \in 1..Len(s) : s[i] \in Range(s)
  BY <1>1 DEF Range
<1> QED BY <1>1, <1>2

LEMMA SeqIsList ==
    ASSUME NEW S, NEW s \in Seq(S)
    PROVE  IsList(s)
BY LenProperties DEF IsList

LEMMA ListOf ==
    ASSUME NEW n \in Nat, NEW s, s = [i \in 1..n |-> s[i]]
    PROVE  IsList(s) /\ Len(s) = n
<1>1. \A i \in 1..n : s[i] \in Range(s)
  BY DEF Range
<1>2. s \in Seq(Range(s)) /\ Len(s) = n
  BY <1>1
<1> QED BY <1>2, SeqIsList

\* Two lists are in the sequences over one set.
LEMMA InOneSeq ==
    ASSUME NEW a, NEW b, IsList(a), IsList(b)
    PROVE  a \in Seq(Range(a) \cup Range(b)) /\ b \in Seq(Range(a) \cup Range(b))
BY ListIs, SeqMonotonic

LEMMA SameList ==
    ASSUME NEW a, NEW b, IsList(a), IsList(b), Len(a) = Len(b),
           \A i \in 1..Len(a) : a[i] = b[i]
    PROVE  a = b
BY InOneSeq, SeqEqual

\* Concatenation, as what the lemmas say of it.
a ++ b == a \o b

LEMMA Joined ==
    ASSUME NEW a, NEW b, IsList(a), IsList(b)
    PROVE  /\ IsList(a ++ b) /\ Len(a ++ b) = Len(a) + Len(b)
           /\ \A i \in 1..Len(a) : (a ++ b)[i] = a[i]
           /\ \A i \in 1..Len(b) : (a ++ b)[Len(a) + i] = b[i]
<1> DEFINE S == Range(a) \cup Range(b)
<1>1. a \in Seq(S) /\ b \in Seq(S)
  BY InOneSeq
<1> HIDE DEF S
<1>2. /\ a ++ b \in Seq(S) /\ Len(a ++ b) = Len(a) + Len(b)
      /\ \A i \in 1..(Len(a) + Len(b)) : (a ++ b)[i] = IF i <= Len(a) THEN a[i] ELSE b[i - Len(a)]
  BY <1>1, ConcatProperties DEF ++
<1>3. Len(a) \in Nat /\ Len(b) \in Nat
  BY ListIs
<1>4. \A i \in 1..Len(a) : (a ++ b)[i] = a[i]
  BY <1>2, <1>3
<1>5. ASSUME NEW i \in 1..Len(b) PROVE (a ++ b)[Len(a) + i] = b[i]
  <2>1. Len(a) + i \in 1..(Len(a) + Len(b)) /\ ~(Len(a) + i <= Len(a)) /\ (Len(a) + i) - Len(a) = i
    BY <1>3
  <2> QED BY <1>2, <2>1
<1> QED BY <1>2, <1>4, <1>5, SeqIsList

LEMMA JoinedTwice ==
    ASSUME NEW a, NEW b, NEW c, IsList(a), IsList(b), IsList(c)
    PROVE  (a ++ b) ++ c = a ++ (b ++ c)
<1> DEFINE S == (Range(a) \cup Range(b)) \cup Range(c)
<1>1. a \in Seq(S) /\ b \in Seq(S) /\ c \in Seq(S)
  BY ListIs, SeqMonotonic
<1> HIDE DEF S
<1> QED BY <1>1, ConcatAssociative DEF ++

LEMMA NoList ==
    /\ IsList(<<>>) /\ Len(<<>>) = 0
    /\ \A a : IsList(a) => /\ a ++ <<>> = a /\ <<>> ++ a = a
                           /\ (a = <<>> <=> Len(a) = 0)
<1>1. IsList(<<>>) /\ Len(<<>>) = 0
  BY DEF IsList
<1>2. ASSUME NEW a, IsList(a) PROVE a ++ <<>> = a /\ <<>> ++ a = a /\ (a = <<>> <=> Len(a) = 0)
  <2>1. a \in Seq(Range(a))
    BY <1>2, ListIs
  <2>2. a ++ <<>> = a /\ <<>> ++ a = a
    BY <2>1, ConcatEmptySeq DEF ++
  <2>3. Len(a) = 0 => a = <<>>
    BY <1>1, <1>2, SameList
  <2> QED BY <1>1, <2>2, <2>3
<1> QED BY <1>1, <1>2

One(x) == <<x>>

LEMMA Singled ==
    ASSUME NEW x
    PROVE  IsList(One(x)) /\ Len(One(x)) = 1 /\ One(x)[1] = x
<1>1. PICK one : one = One(x)
  OBVIOUS
<1>2. one = [i \in 1..1 |-> one[i]] /\ one[1] = x
  BY <1>1 DEF One
<1> QED BY <1>1, <1>2, ListOf

LEMMA PartOf ==
    ASSUME NEW s, IsList(s), NEW m \in Nat, NEW n \in Nat, 1 <= m, m <= n + 1, n <= Len(s)
    PROVE  /\ IsList(SubSeq(s, m, n)) /\ Len(SubSeq(s, m, n)) = (n - m) + 1
           /\ \A i \in 1..((n - m) + 1) : SubSeq(s, m, n)[i] = s[(m + i) - 1]
<1>1. Len(s) \in Nat /\ s \in Seq(Range(s))
  BY ListIs
<1>2. \A i \in m..n : s[i] \in Range(s)
  <2>1. \A i \in m..n : i \in 1..Len(s)
    BY <1>1
  <2> QED BY <1>1, <2>1, ElementOfSeq
<1>3. /\ SubSeq(s, m, n) \in Seq(Range(s))
      /\ Len(SubSeq(s, m, n)) = IF m <= n THEN n - m + 1 ELSE 0
      /\ \A i \in 1..(n - m + 1) : SubSeq(s, m, n)[i] = s[m + i - 1]
  BY <1>2, SubSeqProperties
<1>4. Len(SubSeq(s, m, n)) = (n - m) + 1
  BY <1>3
<1>5. ASSUME NEW i \in 1..((n - m) + 1) PROVE SubSeq(s, m, n)[i] = s[(m + i) - 1]
  <2>1. i \in 1..(n - m + 1) /\ m + i - 1 = (m + i) - 1
    OBVIOUS
  <2> QED BY <1>3, <2>1
<1> QED BY <1>3, <1>4, <1>5, SeqIsList

\* A list that is cut is its parts, and a list put together is cut where it was joined.
LEMMA Rejoined ==
    ASSUME NEW s, IsList(s), NEW n \in 0..Len(s)
    PROVE  /\ IsList(SubSeq(s, 1, n)) /\ Len(SubSeq(s, 1, n)) = n
           /\ IsList(SubSeq(s, n + 1, Len(s))) /\ Len(SubSeq(s, n + 1, Len(s))) = Len(s) - n
           /\ SubSeq(s, 1, n) ++ SubSeq(s, n + 1, Len(s)) = s
<1> DEFINE a == SubSeq(s, 1, n)   b == SubSeq(s, n + 1, Len(s))
<1>0. Len(s) \in Nat /\ n \in Nat /\ n <= Len(s)
  BY ListIs
<1>1. IsList(a) /\ Len(a) = n /\ \A i \in 1..n : a[i] = s[i]
  <2>1. /\ IsList(a) /\ Len(a) = (n - 1) + 1
        /\ \A i \in 1..((n - 1) + 1) : a[i] = s[(1 + i) - 1]
    BY <1>0, PartOf
  <2> HIDE DEF a
  <2>2. (n - 1) + 1 = n /\ \A i \in 1..n : (1 + i) - 1 = i
    BY <1>0
  <2> QED BY <2>1, <2>2
<1>2. IsList(b) /\ Len(b) = Len(s) - n /\ \A i \in 1..(Len(s) - n) : b[i] = s[n + i]
  <2>1. /\ IsList(b) /\ Len(b) = (Len(s) - (n + 1)) + 1
        /\ \A i \in 1..((Len(s) - (n + 1)) + 1) : b[i] = s[((n + 1) + i) - 1]
    BY <1>0, PartOf
  <2> HIDE DEF b
  <2>2. (Len(s) - (n + 1)) + 1 = Len(s) - n /\ \A i \in 1..(Len(s) - n) : ((n + 1) + i) - 1 = n + i
    BY <1>0
  <2> QED BY <2>1, <2>2
<1> HIDE DEF a, b
<1>3. /\ IsList(a ++ b) /\ Len(a ++ b) = Len(s)
      /\ \A i \in 1..n : (a ++ b)[i] = s[i]
      /\ \A i \in 1..(Len(s) - n) : (a ++ b)[n + i] = s[n + i]
  BY <1>0, <1>1, <1>2, Joined
<1>4. ASSUME NEW i \in 1..Len(s) PROVE (a ++ b)[i] = s[i]
  <2>1. CASE i <= n
    BY <1>0, <1>3, <2>1
  <2>2. CASE ~(i <= n)
    <3>1. i - n \in 1..(Len(s) - n) /\ n + (i - n) = i
      BY <1>0, <2>2
    <3> QED BY <1>3, <3>1
  <2> QED BY <2>1, <2>2
<1>5. a ++ b = s
  BY <1>3, <1>4, SameList
<1> QED BY <1>1, <1>2, <1>5 DEF a, b

\* Of two ways to put a list together, the longer beginning goes on as the shorter's rest does.
LEMMA LongerBeginning ==
    ASSUME NEW a, NEW b, NEW c, NEW d, IsList(a), IsList(b), IsList(c), IsList(d),
           a ++ b = c ++ d, Len(c) <= Len(a)
    PROVE  \E e : IsList(e) /\ Len(e) = Len(a) - Len(c) /\ a = c ++ e /\ d = e ++ b
<1> DEFINE n == Len(c)   e == SubSeq(a, n + 1, Len(a))
<1>0. Len(a) \in Nat /\ Len(b) \in Nat /\ Len(c) \in Nat /\ Len(d) \in Nat
  BY ListIs
<1>7. n \in 0..Len(a)
  BY <1>0
<1> HIDE DEF n
<1>1. /\ IsList(SubSeq(a, 1, n)) /\ Len(SubSeq(a, 1, n)) = n
      /\ IsList(e) /\ Len(e) = Len(a) - n /\ SubSeq(a, 1, n) ++ e = a
  BY <1>7, Rejoined
<1>8. n = Len(c)
  BY DEF n
<1> HIDE DEF e
<1>2. ASSUME NEW i \in 1..n PROVE SubSeq(a, 1, n)[i] = c[i]
  <2>1. (SubSeq(a, 1, n) ++ e)[i] = SubSeq(a, 1, n)[i]
    <3>1. \A k \in 1..Len(SubSeq(a, 1, n)) : (SubSeq(a, 1, n) ++ e)[k] = SubSeq(a, 1, n)[k]
      BY <1>1, Joined
    <3> QED BY <1>1, <3>1
  <2>2. i \in 1..Len(a) /\ (a ++ b)[i] = a[i]
    BY <1>0, <1>8, Joined
  <2>3. (c ++ d)[i] = c[i]
    BY <1>8, Joined
  <2> QED BY <1>1, <2>1, <2>2, <2>3
<1>3. SubSeq(a, 1, n) = c
  BY <1>1, <1>2, <1>8, SameList
<1>4. a = c ++ e
  BY <1>1, <1>3
<1>5. c ++ (e ++ b) = c ++ d
  <2>1. (c ++ e) ++ b = c ++ (e ++ b)
    BY <1>1, JoinedTwice
  <2> QED BY <1>4, <2>1
<1>6. d = e ++ b
  <2>1. /\ IsList(e ++ b)
    BY <1>1, Joined
  <2>4. /\ Len(c ++ (e ++ b)) = Len(c) + Len(e ++ b)
        /\ \A i \in 1..Len(e ++ b) : (c ++ (e ++ b))[Len(c) + i] = (e ++ b)[i]
    BY <2>1, Joined
  <2>5. /\ Len(c ++ d) = Len(c) + Len(d)
        /\ \A i \in 1..Len(d) : (c ++ d)[Len(c) + i] = d[i]
    BY Joined
  <2>2. Len(e ++ b) \in Nat
    BY <2>1, ListIs
  <2>3. Len(e ++ b) = Len(d)
    BY <1>0, <1>5, <2>2, <2>4, <2>5
  <2>6. \A i \in 1..Len(d) : (e ++ b)[i] = d[i]
    BY <1>5, <2>3, <2>4, <2>5
  <2> QED BY <2>1, <2>3, <2>6, SameList
<1> QED BY <1>1, <1>4, <1>6, <1>8

LEMMA SameBeginning ==
    ASSUME NEW a, NEW b, NEW c, NEW d, IsList(a), IsList(b), IsList(c), IsList(d),
           a ++ b = c ++ d, Len(c) = Len(a)
    PROVE  a = c /\ b = d
<1>1. Len(a) \in Nat
  BY ListIs
<1>4. Len(c) <= Len(a)
  BY <1>1
<1>2. PICK e : IsList(e) /\ Len(e) = Len(a) - Len(c) /\ a = c ++ e /\ d = e ++ b
  <2>1. IsList(a) /\ IsList(b) /\ IsList(c) /\ IsList(d) /\ a ++ b = c ++ d
    OBVIOUS
  <2> QED BY ONLY <1>4, <2>1, LongerBeginning
<1>3. e = <<>>
  BY <1>1, <1>2, NoList
<1> QED BY <1>2, <1>3, NoList

LEMMA CutWhereJoined ==
    ASSUME NEW a, NEW b, IsList(a), IsList(b)
    PROVE  /\ SubSeq(a ++ b, 1, Len(a)) = a
           /\ SubSeq(a ++ b, Len(a) + 1, Len(a ++ b)) = b
<1>0. Len(a) \in Nat /\ Len(b) \in Nat
  BY ListIs
<1>1. IsList(a ++ b) /\ Len(a) \in 0..Len(a ++ b)
  BY <1>0, Joined
<1> DEFINE first == SubSeq(a ++ b, 1, Len(a))   rest == SubSeq(a ++ b, Len(a) + 1, Len(a ++ b))
<1>2. IsList(first) /\ Len(first) = Len(a) /\ IsList(rest) /\ first ++ rest = a ++ b
  BY <1>1, Rejoined
<1> HIDE DEF first, rest
<1>3. first = a /\ rest = b
  BY <1>2, SameBeginning
<1> QED BY <1>3 DEF first, rest

LEMMA MiddleOf ==
    ASSUME NEW a, NEW b, NEW c, IsList(a), IsList(b), IsList(c)
    PROVE  LET all == a ++ (b ++ c)
           IN /\ IsList(all) /\ Len(all) = (Len(a) + Len(b)) + Len(c)
              /\ SubSeq(all, Len(a) + 1, Len(a) + Len(b)) = b
              /\ SubSeq(all, (Len(a) + Len(b)) + 1, Len(all)) = c
<1>1. PICK all, front, back : all = a ++ (b ++ c) /\ front = a ++ b /\ back = b ++ c
  OBVIOUS
<1>2. /\ IsList(front) /\ Len(front) = Len(a) + Len(b) /\ all = front ++ c
      /\ IsList(back) /\ Len(back) = Len(b) + Len(c) /\ all = a ++ back
  BY <1>1, Joined, JoinedTwice
<1>3. Len(a) \in Nat /\ Len(b) \in Nat /\ Len(c) \in Nat
  BY ListIs
<1>4. /\ IsList(all) /\ Len(all) = Len(front) + Len(c)
      /\ \A i \in 1..Len(back) : all[Len(a) + i] = back[i]
      /\ SubSeq(all, Len(front) + 1, Len(all)) = c
  <2>1. SubSeq(front ++ c, Len(front) + 1, Len(front ++ c)) = c
    BY <1>2, CutWhereJoined
  <2>2. IsList(front ++ c) /\ Len(front ++ c) = Len(front) + Len(c)
    BY <1>2, Joined
  <2>3. \A i \in 1..Len(back) : (a ++ back)[Len(a) + i] = back[i]
    BY <1>2, Joined
  <2> QED BY <1>2, <2>1, <2>2, <2>3
<1>5. \A i \in 1..Len(b) : back[i] = b[i]
  BY <1>1, Joined
<1>6. PICK part, m, n : part = SubSeq(all, m, n) /\ m = Len(a) + 1 /\ n = Len(a) + Len(b)
  OBVIOUS
<1>7. m \in Nat /\ n \in Nat /\ 1 <= m /\ m <= n + 1 /\ n <= Len(all) /\ (n - m) + 1 = Len(b)
  BY <1>2, <1>3, <1>4, <1>6
<1>8. /\ IsList(part) /\ Len(part) = (n - m) + 1
      /\ \A i \in 1..((n - m) + 1) : part[i] = all[(m + i) - 1]
  BY ONLY <1>4, <1>6, <1>7, PartOf
<1>9. ASSUME NEW i \in 1..Len(b) PROVE part[i] = b[i]
  <2>1. part[i] = all[(m + i) - 1]
    BY <1>7, <1>8
  <2>2. (m + i) - 1 = Len(a) + i /\ i \in 1..Len(back)
    BY <1>2, <1>3, <1>6
  <2> QED BY <1>4, <1>5, <2>1, <2>2
<1>10. part = b
  BY <1>7, <1>8, <1>9, SameList
<1> QED BY <1>1, <1>2, <1>4, <1>6, <1>10

\* A list and what comes first in it.
LEMMA FirstOf ==
    ASSUME NEW x, NEW s, IsList(s)
    PROVE  /\ IsList(One(x) ++ s) /\ Len(One(x) ++ s) = Len(s) + 1
           /\ (One(x) ++ s)[1] = x /\ One(x) ++ s # <<>>
           /\ \A i \in 1..Len(s) : (One(x) ++ s)[i + 1] = s[i]
           /\ Head(One(x) ++ s) = x /\ Tail(One(x) ++ s) = s
           /\ SubSeq(One(x) ++ s, 2, Len(s) + 1) = s
<1>0. PICK one : one = One(x)
  OBVIOUS
<1> DEFINE t == one ++ s
<1>7. IsList(one) /\ Len(one) = 1 /\ one[1] = x
  BY <1>0, Singled
<1>1. /\ IsList(t) /\ Len(t) = 1 + Len(s) /\ Len(s) \in Nat
      /\ t[1] = x
      /\ \A i \in 1..Len(s) : t[1 + i] = s[i]
  <2>0. IsList(one) /\ IsList(s)
    BY <1>7
  <2>1. /\ IsList(one ++ s) /\ Len(one ++ s) = Len(one) + Len(s)
        /\ \A i \in 1..Len(one) : (one ++ s)[i] = one[i]
        /\ \A i \in 1..Len(s) : (one ++ s)[Len(one) + i] = s[i]
    BY ONLY <2>0, Joined
  <2>2. Len(s) \in Nat /\ 1 \in 1..Len(one)
    BY <1>7, ListIs
  <2>3. PICK u : u = one ++ s
    OBVIOUS
  <2>4. /\ IsList(u) /\ Len(u) = Len(one) + Len(s)
        /\ \A i \in 1..Len(one) : u[i] = one[i]
        /\ \A i \in 1..Len(s) : u[Len(one) + i] = s[i]
    BY <2>1, <2>3
  <2>5. /\ IsList(u) /\ Len(u) = 1 + Len(s) /\ u[1] = x
        /\ \A i \in 1..Len(s) : u[1 + i] = s[i]
    BY <1>7, <2>2, <2>4
  <2> QED BY <2>2, <2>3, <2>5
<1>2. SubSeq(t, 1 + 1, Len(t)) = s
  BY <1>7, CutWhereJoined
<1> HIDE DEF t
<1>8. 1 + 1 = 2 /\ 1 + Len(s) = Len(s) + 1
  BY <1>1
<1>3. t # <<>>
  BY <1>1, NoList
<1>4. Head(t) = x
  BY <1>1 DEF Head
<1>5. Tail(t) = s
  <2>1. t \in Seq(Range(t))
    BY <1>1, ListIs
  <2> QED BY <1>2, <1>3, <1>8, <2>1, TailIsSubSeq
<1>6. Len(t) = Len(s) + 1 /\ \A i \in 1..Len(s) : t[i + 1] = s[i]
  BY <1>1
<1>9. SubSeq(t, 2, Len(s) + 1) = s
  BY <1>1, <1>2, <1>8
<1> QED BY <1>0, <1>1, <1>3, <1>4, <1>5, <1>6, <1>9 DEF t

\* Every list that is not empty has a first.
LEMMA Begins ==
    ASSUME NEW s, IsList(s), s # <<>>
    PROVE  IsList(Tail(s)) /\ Len(Tail(s)) = Len(s) - 1 /\ s = One(s[1]) ++ Tail(s)
<1>1. Len(s) \in Nat /\ Len(s) # 0 /\ s \in Seq(Range(s))
  BY ListIs, NoList
<1>2. Tail(s) = SubSeq(s, 2, Len(s))
  BY <1>1, TailIsSubSeq
<1>3. /\ IsList(SubSeq(s, 1, 1)) /\ Len(SubSeq(s, 1, 1)) = 1
      /\ IsList(SubSeq(s, 1 + 1, Len(s))) /\ Len(SubSeq(s, 1 + 1, Len(s))) = Len(s) - 1
      /\ SubSeq(s, 1, 1) ++ SubSeq(s, 1 + 1, Len(s)) = s
  <2>1. 1 \in 0..Len(s)
    BY <1>1
  <2> QED BY <2>1, Rejoined
<1>4. SubSeq(s, 1, 1) = One(s[1])
  <2>1. IsList(One(s[1])) /\ Len(One(s[1])) = 1 /\ One(s[1])[1] = s[1]
    BY Singled
  <2>2. SubSeq(s, 1, 1)[1] = s[1]
    <3>1. \A i \in 1..((1 - 1) + 1) : SubSeq(s, 1, 1)[i] = s[(1 + i) - 1]
      BY <1>1, PartOf
    <3> QED BY <3>1
  <2>3. \A i \in 1..1 : i = 1
    OBVIOUS
  <2> QED BY <1>3, <2>1, <2>2, <2>3, SameList
<1>5. 1 + 1 = 2
  OBVIOUS
<1> QED BY <1>2, <1>3, <1>4, <1>5

\* FlattenSeq puts lists together from the first to the last.
Lists(seqs) == IsList(seqs) /\ \A i \in 1..Len(seqs) : IsList(seqs[i])
Rests(rest, seqs) ==
    /\ \A k \in 0..Len(seqs) : IsList(rest[k])
    /\ rest[0] = FlattenSeq(seqs)
    /\ rest[Len(seqs)] = <<>>
    /\ \A k \in 1..Len(seqs) : rest[k - 1] = seqs[k] ++ rest[k]

\* What is flattened is a list, and so is what has been flattened so far.
LEMMA FlattenPrefix ==
    ASSUME NEW seqs, Lists(seqs)
    PROVE  \E upTo : /\ \A k \in 0..Len(seqs) : IsList(upTo[k])
                     /\ upTo[0] = <<>>
                     /\ upTo[Len(seqs)] = FlattenSeq(seqs)
                     /\ \A k \in 1..Len(seqs) : upTo[k] = upTo[k - 1] ++ seqs[k]
<1> DEFINE n == Len(seqs)
<1>0. n \in Nat /\ IsList(seqs)
  BY ListIs DEF Lists
<1>1. CASE n = 0
  <2>1. seqs = <<>> /\ FlattenSeq(seqs) = <<>>
    BY <1>0, <1>1, NoList DEF FlattenSeq
  <2>2. PICK upTo : upTo = [k \in 0..0 |-> <<>>]
    OBVIOUS
  <2>3. \A k \in 0..0 : upTo[k] = <<>> /\ k = 0
    BY <2>2
  <2>4. \A k \in 1..0 : FALSE
    OBVIOUS
  <2> QED BY <1>1, <2>1, <2>3, <2>4, NoList
<1>2. CASE n # 0
  <2>1. PICK flat : Flattens(flat, seqs, n) /\ FlattenSeq(seqs) = flat[n]
    BY <1>0, <1>2, FlattenSteps
  <2>2. \A i \in 1..n : flat[i] = IF i = 1 THEN seqs[i] ELSE flat[i - 1] ++ seqs[i]
    BY <2>1 DEF Flattens, ++
  <2> DEFINE upTo == [k \in 0..n |-> IF k = 0 THEN <<>> ELSE flat[k]]
  <2>3. ASSUME NEW k \in 1..n PROVE upTo[k] = upTo[k - 1] ++ seqs[k]
    <3>1. IsList(seqs[k])
      BY DEF Lists
    <3>2. upTo[k] = flat[k] /\ (k # 1 => upTo[k - 1] = flat[k - 1]) /\ (k = 1 => upTo[k - 1] = <<>>)
      BY <1>0
    <3>3. CASE k = 1
      <4>1. <<>> ++ seqs[k] = seqs[k]
        BY <3>1, NoList
      <4> QED BY <2>2, <3>2, <3>3, <4>1
    <3>4. CASE k # 1
      BY <2>2, <3>2, <3>4
    <3> QED BY <3>3, <3>4
  <2>4. upTo[0] = <<>> /\ upTo[n] = FlattenSeq(seqs)
    BY <1>0, <1>2, <2>1
  <2> HIDE DEF upTo
  <2> DEFINE S == {k \in Nat : k <= n => IsList(upTo[k])}
  <2>5. 0 \in S
    BY <2>4, NoList
  <2>6. ASSUME NEW k \in Nat, k \in S PROVE k + 1 \in S
    <3>1. CASE k + 1 <= n
      <4>1. IsList(upTo[k]) /\ k + 1 \in 1..n /\ (k + 1) - 1 = k
        BY <1>0, <2>6, <3>1
      <4>2. IsList(seqs[k + 1]) /\ upTo[k + 1] = upTo[k] ++ seqs[k + 1]
        BY <2>3, <4>1 DEF Lists
      <4>3. IsList(upTo[k + 1])
        BY <4>1, <4>2, Joined
      <4> QED BY <4>3
    <3>2. CASE ~(k + 1 <= n)
      BY <3>2
    <3> QED BY <3>1, <3>2
  <2> HIDE DEF S
  <2>7. \A k \in Nat : k \in S
    BY <2>5, <2>6, HoldsAllNaturals
  <2>8. \A k \in 0..n : IsList(upTo[k])
    BY <1>0, <2>7 DEF S
  <2> QED BY <2>3, <2>4, <2>8
<1> QED BY <1>1, <1>2

LEMMA FlattenRests ==
    ASSUME NEW seqs, Lists(seqs)
    PROVE  IsList(FlattenSeq(seqs)) /\ \E rest : Rests(rest, seqs)
<1> DEFINE n == Len(seqs)   all == FlattenSeq(seqs)
<1>0. n \in Nat /\ \A i \in 1..n : IsList(seqs[i])
  BY ListIs DEF Lists
<1>1. PICK upTo : /\ \A k \in 0..n : IsList(upTo[k])
                  /\ upTo[0] = <<>>
                  /\ upTo[n] = all
                  /\ \A k \in 1..n : upTo[k] = upTo[k - 1] ++ seqs[k]
  BY FlattenPrefix
<1>2. IsList(all)
  BY <1>0, <1>1
<1> HIDE DEF n, all
<1> DEFINE IsRest(k, r) == IsList(r) /\ all = upTo[k] ++ r
           S == {j \in Nat : j <= n => \E r : IsRest(n - j, r)}
<1>3. IsRest(n, <<>>)
  BY <1>0, <1>1, <1>2, NoList
<1>4. ASSUME NEW k \in 1..n, NEW r, IsRest(k, r) PROVE IsRest(k - 1, seqs[k] ++ r)
  <2>1. k - 1 \in 0..n /\ IsList(upTo[k - 1]) /\ IsList(seqs[k])
    BY <1>0, <1>1
  <2>2. upTo[k] = upTo[k - 1] ++ seqs[k]
    BY <1>1
  <2>3. (upTo[k - 1] ++ seqs[k]) ++ r = upTo[k - 1] ++ (seqs[k] ++ r)
    BY <1>4, <2>1, JoinedTwice
  <2> QED BY <1>4, <2>1, <2>2, <2>3, Joined
<1>5. 0 \in S
  BY <1>0, <1>3
<1>6. ASSUME NEW j \in Nat, j \in S PROVE j + 1 \in S
  <2>1. CASE j + 1 <= n
    <3>1. n - j \in 1..n /\ j <= n /\ n - (j + 1) = (n - j) - 1
      BY <1>0, <2>1
    <3>2. PICK r : IsRest(n - j, r)
      BY <1>6, <3>1
    <3> DEFINE k == n - j
    <3> HIDE DEF k, IsRest
    <3>3. IsRest(k - 1, seqs[k] ++ r)
      BY <1>4, <3>1, <3>2 DEF k
    <3>4. IsRest(n - (j + 1), seqs[k] ++ r)
      BY <3>1, <3>3 DEF k
    <3> QED BY <3>4
  <2>2. CASE ~(j + 1 <= n)
    BY <2>2
  <2> QED BY <2>1, <2>2
<1> HIDE DEF S
<1>7. \A j \in Nat : j \in S
  BY <1>5, <1>6, HoldsAllNaturals
<1>8. ASSUME NEW k \in 0..n PROVE \E r : IsRest(k, r)
  <2>1. n - k \in Nat /\ n - k <= n /\ n - (n - k) = k
    BY <1>0
  <2>2. \E r : IsRest(n - (n - k), r)
    BY <1>7, <2>1 DEF S
  <2> HIDE DEF IsRest
  <2> QED BY <2>1, <2>2
<1>9. ASSUME NEW k \in 0..n, NEW r, NEW q, IsRest(k, r), IsRest(k, q) PROVE r = q
  <2>1. IsList(upTo[k]) /\ IsList(r) /\ IsList(q) /\ upTo[k] ++ r = upTo[k] ++ q
    BY <1>1, <1>9
  <2> QED BY ONLY <2>1, SameBeginning
<1> DEFINE rest == [k \in 0..n |-> CHOOSE r : IsRest(k, r)]
<1>10. \A k \in 0..n : IsRest(k, rest[k])
  <2> HIDE DEF IsRest
  <2> QED BY <1>8
<1> HIDE DEF rest
<1>11. rest[n] = <<>>
  <2>1. n \in 0..n
    BY <1>0
  <2> QED BY <1>3, <1>9, <1>10, <2>1
<1>12. rest[0] = all
  <2>1. 0 \in 0..n /\ IsRest(0, all)
    BY <1>0, <1>1, <1>2, NoList
  <2> QED BY <1>9, <1>10, <2>1
<1>13. ASSUME NEW k \in 1..n PROVE rest[k - 1] = seqs[k] ++ rest[k]
  <2>1. k \in 0..n /\ k - 1 \in 0..n
    BY <1>0
  <2>2. IsRest(k - 1, seqs[k] ++ rest[k]) /\ IsRest(k - 1, rest[k - 1])
    BY <1>4, <1>10, <2>1
  <2> HIDE DEF IsRest
  <2> QED BY <1>9, <2>1, <2>2
<1>14. \A k \in 0..n : IsList(rest[k])
  BY <1>10
<1>15. Rests(rest, seqs)
  BY <1>11, <1>12, <1>13, <1>14 DEF Rests, n, all
<1> QED BY <1>2, <1>15 DEF all

LEMMA FlattenMore ==
    ASSUME NEW seqs, Lists(seqs), NEW more, Lists(more), Len(more) = Len(seqs) + 1,
           \A i \in 1..Len(seqs) : more[i] = seqs[i]
    PROVE  FlattenSeq(more) = FlattenSeq(seqs) ++ more[Len(seqs) + 1]
<1> DEFINE n == Len(seqs)
<1>0. n \in Nat /\ Len(more) = n + 1
  BY ListIs DEF Lists
<1>1. PICK upTo : /\ \A k \in 0..n : IsList(upTo[k])
                  /\ upTo[0] = <<>>
                  /\ upTo[n] = FlattenSeq(seqs)
                  /\ \A k \in 1..n : upTo[k] = upTo[k - 1] ++ seqs[k]
  BY FlattenPrefix
<1>2. PICK then : /\ \A k \in 0..(n + 1) : IsList(then[k])
                  /\ then[0] = <<>>
                  /\ then[n + 1] = FlattenSeq(more)
                  /\ \A k \in 1..(n + 1) : then[k] = then[k - 1] ++ more[k]
  BY <1>0, FlattenPrefix
<1> DEFINE S == {k \in Nat : k <= n => then[k] = upTo[k]}
<1>3. 0 \in S
  BY <1>1, <1>2
<1>4. ASSUME NEW k \in Nat, k \in S PROVE k + 1 \in S
  <2>1. CASE k + 1 <= n
    <3>1. k + 1 \in 1..n /\ k + 1 \in 1..(n + 1) /\ (k + 1) - 1 = k /\ then[k] = upTo[k]
      BY <1>0, <1>4, <2>1
    <3>2. upTo[k + 1] = upTo[k] ++ seqs[k + 1] /\ then[k + 1] = then[k] ++ more[k + 1]
      BY <1>1, <1>2, <3>1
    <3> QED BY <3>1, <3>2
  <2>2. CASE ~(k + 1 <= n)
    BY <2>2
  <2> QED BY <2>1, <2>2
<1> HIDE DEF S
<1>5. n \in S
  BY <1>0, <1>3, <1>4, HoldsAllNaturals
<1>6. then[n] = upTo[n]
  BY <1>0, <1>5 DEF S
<1>7. then[n + 1] = then[n] ++ more[n + 1]
  <2>1. n + 1 \in 1..(n + 1) /\ (n + 1) - 1 = n
    BY <1>0
  <2> QED BY <1>2, <2>1
<1> QED BY <1>1, <1>2, <1>6, <1>7

LEMMA FlattenOne ==
    ASSUME NEW seqs, Lists(seqs), Len(seqs) = 1
    PROVE  FlattenSeq(seqs) = seqs[1]
<1>1. PICK rest : Rests(rest, seqs)
  BY FlattenRests
<1>2. rest[1 - 1] = seqs[1] ++ rest[1] /\ rest[1] = <<>> /\ rest[0] = FlattenSeq(seqs)
  BY <1>1 DEF Rests
<1>3. IsList(seqs[1]) /\ 1 - 1 = 0
  BY DEF Lists
<1> QED BY <1>2, <1>3, NoList

\* A list whose elements are of one list's, by the place.
LEMMA MapIs ==
    ASSUME NEW s, IsList(s), NEW f, f = [i \in DOMAIN s |-> f[i]]
    PROVE  IsList(f) /\ Len(f) = Len(s) /\ DOMAIN f = 1..Len(s)
BY ListIs, ListOf

\* Append, for what is of no known set.
LEMMA Appended ==
    ASSUME NEW s, IsList(s), NEW x
    PROVE  /\ IsList(Append(s, x)) /\ Len(Append(s, x)) = Len(s) + 1
           /\ \A i \in 1..Len(s) : Append(s, x)[i] = s[i]
           /\ Append(s, x)[Len(s) + 1] = x
<1> DEFINE S == Range(s) \cup {x}
<1>1. s \in Seq(S) /\ x \in S
  BY ListIs, SeqMonotonic
<1> HIDE DEF S
<1>2. /\ Append(s, x) \in Seq(S) /\ Len(Append(s, x)) = Len(s) + 1
      /\ \A i \in 1..Len(s) : Append(s, x)[i] = s[i]
      /\ Append(s, x)[Len(s) + 1] = x
  BY <1>1, AppendProperties
<1>3. IsList(Append(s, x))
  BY <1>2, SeqIsList
<1> QED BY <1>2, <1>3

\* Two runs from the same place that take the same steps end in the same place.
LEMMA SameRun ==
    ASSUME NEW n \in Nat, NEW f, NEW g, f[0] = g[0],
           \A i \in 1..n : f[i - 1] = g[i - 1] => f[i] = g[i]
    PROVE  f[n] = g[n]
<1> DEFINE S == {k \in Nat : k <= n => f[k] = g[k]}
<1>1. 0 \in S
  OBVIOUS
<1>2. ASSUME NEW k \in Nat, k \in S PROVE k + 1 \in S
  <2>1. CASE k + 1 <= n
    <3>1. k + 1 \in 1..n /\ (k + 1) - 1 = k /\ f[k] = g[k]
      BY <1>2, <2>1
    <3> QED BY <3>1
  <2>2. CASE ~(k + 1 <= n)
    BY <2>2
  <2> QED BY <2>1, <2>2
<1> HIDE DEF S
<1>3. n \in S
  BY <1>1, <1>2, HoldsAllNaturals
<1> QED BY <1>3 DEF S

\* Two elements before a list.
Two(x, y) == <<x, y>>

LEMMA TwoIs ==
    ASSUME NEW x, NEW y
    PROVE  IsList(Two(x, y)) /\ Len(Two(x, y)) = 2 /\ Two(x, y)[1] = x /\ Two(x, y)[2] = y
<1>1. PICK pair : pair = Two(x, y)
  OBVIOUS
<1>2. pair = [i \in 1..2 |-> pair[i]] /\ pair[1] = x /\ pair[2] = y
  BY <1>1 DEF Two
<1>3. IsList(pair) /\ Len(pair) = 2
  BY <1>2, ListOf
<1> QED BY <1>1, <1>2, <1>3

LEMMA TwoBefore ==
    ASSUME NEW x, NEW y, NEW s, IsList(s)
    PROVE  /\ IsList(Two(x, y) ++ s) /\ Len(Two(x, y) ++ s) = Len(s) + 2
           /\ (Two(x, y) ++ s)[1] = x /\ (Two(x, y) ++ s)[2] = y
           /\ SubSeq(Two(x, y) ++ s, 3, Len(s) + 2) = s
           /\ Two(x, y) ++ s # <<>>
<1>1. PICK pair : pair = Two(x, y)
  OBVIOUS
<1>3. IsList(pair) /\ Len(pair) = 2 /\ pair[1] = x /\ pair[2] = y
  BY <1>1, TwoIs
<1>4. Len(s) \in Nat
  BY ListIs
<1>5. PICK all : all = pair ++ s
  OBVIOUS
<1>6. /\ IsList(all) /\ Len(all) = Len(pair) + Len(s)
      /\ \A i \in 1..Len(pair) : all[i] = pair[i]
      /\ SubSeq(all, Len(pair) + 1, Len(all)) = s
  BY <1>3, <1>5, Joined, CutWhereJoined
<1>7. /\ Len(all) = Len(s) + 2 /\ all[1] = x /\ all[2] = y
      /\ SubSeq(all, 3, Len(s) + 2) = s
  <2>1. Len(pair) + 1 = 3 /\ Len(pair) + Len(s) = Len(s) + 2 /\ 1 \in 1..Len(pair) /\ 2 \in 1..Len(pair)
    BY <1>3, <1>4
  <2> QED BY <1>3, <1>6, <2>1
<1>8. all # <<>>
  BY <1>4, <1>6, <1>7, NoList
<1> QED BY <1>1, <1>5, <1>6, <1>7, <1>8

-----------------------------------------------------------------------------
(* What PostgresCodec encodes it decodes *)

LEMMA UnitIs == \A tag, value : Unit(tag, value)[1] = tag /\ Unit(tag, value)[2] = value
BY DEF Unit

\* A string up to its NUL.
LEMMA ReadsString ==
    ASSUME NEW chars, NEW x, IsList(x), NEW items, NEW ok
    PROVE  ReadString(Reader(String(chars) ++ x, items, ok)) = Reader(x, Append(items, chars), TRUE)
<1> DEFINE reader == Reader(String(chars) ++ x, items, ok)
<1>1. PICK rest : rest = String(chars) ++ x
  OBVIOUS
<1>2. /\ IsList(rest) /\ Len(rest) = Len(x) + 2
      /\ rest[1] = Unit("chars", chars) /\ rest[2] = Nul
      /\ SubSeq(rest, 3, Len(x) + 2) = x
  <2>1. PICK u, v : u = Unit("chars", chars) /\ v = Nul
    OBVIOUS
  <2>2. rest = Two(u, v) ++ x
    BY <1>1, <2>1 DEF String, Two
  <2> QED BY <2>1, <2>2, TwoBefore
<1>3. Len(x) \in Nat /\ DOMAIN rest = 1..(Len(x) + 2)
  BY <1>2, ListIs
<1> DEFINE nuls == {i \in DOMAIN rest : rest[i] = Nul}
<1>4. 2 \in nuls /\ \A i \in nuls : i \in Nat /\ 2 <= i
  <2>1. rest[1] # Nul
    BY <1>2, UnitIs DEF Nul
  <2> QED BY <1>2, <1>3, <2>1
<1> HIDE DEF nuls
<1>5. Min(nuls) = 2
  <2>1. \A i \in nuls : (\A k \in nuls : i <= k) => i = 2
    BY <1>4
  <2> QED BY <1>4, <2>1 DEF Min
<1>6. ReadString(reader) = Advance(reader, 2, rest[1][2])
  BY <1>1, <1>4, <1>5 DEF ReadString, Reader, nuls
<1>7. rest[1][2] = chars
  BY <1>2, UnitIs
<1>8. Advance(reader, 2, chars) = Reader(SubSeq(rest, 2 + 1, Len(rest)), Append(items, chars), TRUE)
  BY <1>1 DEF Advance, Reader
<1>9. 2 + 1 = 3
  OBVIOUS
<1> QED BY <1>2, <1>6, <1>7, <1>8, <1>9

LEMMA ReaderIs ==
    ASSUME NEW rest, NEW items, NEW ok
    PROVE  /\ Reader(rest, items, ok).rest = rest
           /\ Reader(rest, items, ok).items = items
           /\ Reader(rest, items, ok).ok = ok
BY DEF Reader

\* A pair of items, one read after the other.
LEMMA ItemsRead ==
    ASSUME NEW a, NEW b
    PROVE  LET items == Append(Append(<<>>, a), b)
           IN IsList(items) /\ Len(items) = 2 /\ items[1] = a /\ items[2] = b
<1>1. /\ IsList(Append(<<>>, a)) /\ Len(Append(<<>>, a)) = 0 + 1
      /\ Append(<<>>, a)[0 + 1] = a
  BY NoList, Appended
<1>2. PICK one : one = Append(<<>>, a)
  OBVIOUS
<1>3. IsList(one) /\ Len(one) = 1 /\ one[1] = a
  BY <1>1, <1>2
<1>4. /\ IsList(Append(one, b)) /\ Len(Append(one, b)) = Len(one) + 1
      /\ \A i \in 1..Len(one) : Append(one, b)[i] = one[i]
      /\ Append(one, b)[Len(one) + 1] = b
  BY <1>3, Appended
<1>5. 1 \in 1..Len(one) /\ Len(one) + 1 = 2
  BY <1>3
<1> QED BY <1>2, <1>3, <1>4, <1>5

LEMMA ReadsField ==
    ASSUME NEW field, field = Field(field.name, field.oid, field.number),
           NEW x, IsList(x), NEW items, NEW ok
    PROVE  ReadField(Reader(EncodeField(field) ++ x, items, ok)) = Reader(x, Append(items, field), TRUE)
<1>0. PICK fixed : fixed = Unit("fixed", <<field.oid, field.number>>)
  OBVIOUS
<1>7. /\ fixed[1] = "fixed" /\ fixed[2][1] = field.oid /\ fixed[2][2] = field.number
  <2>1. PICK both : both = <<field.oid, field.number>>
    OBVIOUS
  <2>2. both[1] = field.oid /\ both[2] = field.number
    BY <2>1
  <2> QED BY <1>0, <2>1, <2>2, UnitIs
<1>1. IsList(One(fixed)) /\ IsList(String(field.name))
  <2>1. String(field.name) = Two(Unit("chars", field.name), Nul)
    BY DEF String, Two
  <2> QED BY <2>1, Singled, TwoIs
<1>3. PICK after : after = One(fixed) ++ x
  OBVIOUS
<1>4. /\ IsList(after) /\ after # <<>> /\ Head(after) = fixed
      /\ SubSeq(after, 2, Len(after)) = x
  BY <1>3, FirstOf
<1>2. EncodeField(field) ++ x = String(field.name) ++ after
  <2>1. EncodeField(field) = String(field.name) ++ One(fixed)
    BY <1>0 DEF EncodeField, One, ++
  <2> QED BY <1>1, <1>3, <2>1, JoinedTwice
<1>5. PICK reader : reader = Reader(EncodeField(field) ++ x, items, ok)
  OBVIOUS
<1>13. reader.rest = EncodeField(field) ++ x /\ reader.items = items
  BY <1>5, ReaderIs
<1>6. PICK name : name = ReadString(Reader(reader.rest, <<>>, TRUE))
  OBVIOUS
<1>14. name = Reader(after, Append(<<>>, field.name), TRUE)
  <2>1. name = ReadString(Reader(String(field.name) ++ after, <<>>, TRUE))
    BY <1>2, <1>6, <1>13
  <2> QED BY <1>4, <2>1, ReadsString
<1>8. name.rest = after /\ name.items = Append(<<>>, field.name) /\ name.ok
  BY <1>14 DEF Reader
<1>9. PICK two : two = ReadFixed(name, "fixed")
  OBVIOUS
<1>10. two.rest = x /\ two.items = Append(Append(<<>>, field.name), fixed[2]) /\ two.ok
  <2>1. two = Advance(name, 1, fixed[2])
    BY <1>4, <1>7, <1>8, <1>9 DEF ReadFixed, Is
  <2>2. two = Reader(SubSeq(after, 1 + 1, Len(after)), Append(Append(<<>>, field.name), fixed[2]), TRUE)
    BY <1>8, <2>1 DEF Advance
  <2>3. 1 + 1 = 2
    OBVIOUS
  <2>4. two = Reader(x, Append(Append(<<>>, field.name), fixed[2]), TRUE)
    BY <1>4, <2>2, <2>3
  <2> QED BY <2>4 DEF Reader
<1>11. two.items[1] = field.name /\ two.items[2] = fixed[2]
  BY <1>10, ItemsRead
<1>12. ReadField(reader)
        = Reader(two.rest, Append(items, Field(two.items[1], two.items[2][1], two.items[2][2])), TRUE)
  BY <1>6, <1>8, <1>9, <1>10, <1>13 DEF ReadField
<1>15. Field(two.items[1], two.items[2][1], two.items[2][2]) = field
  BY <1>7, <1>11
<1> QED BY <1>5, <1>10, <1>12, <1>15

-----------------------------------------------------------------------------
(* Repeat goes through a list one step at a time *)

LEMMA OneMore ==
    ASSUME NEW s, IsList(s)
    PROVE  /\ SubSeq(s, 1, 0) = <<>>
           /\ SubSeq(s, 1, Len(s)) = s
           /\ \A i \in 1..Len(s) : Append(SubSeq(s, 1, i - 1), s[i]) = SubSeq(s, 1, i)
<1>0. Len(s) \in Nat
  BY ListIs
<1>1. /\ IsList(SubSeq(s, 1, 0)) /\ Len(SubSeq(s, 1, 0)) = 0
  BY <1>0, Rejoined
<1>2. /\ IsList(SubSeq(s, 1, Len(s))) /\ Len(SubSeq(s, 1, Len(s))) = Len(s)
      /\ \A i \in 1..Len(s) : SubSeq(s, 1, Len(s))[i] = s[i]
  <2>1. Len(SubSeq(s, 1, Len(s))) = Len(s) /\ IsList(SubSeq(s, 1, Len(s)))
    BY <1>0, Rejoined
  <2>2. \A i \in 1..((Len(s) - 1) + 1) : SubSeq(s, 1, Len(s))[i] = s[(1 + i) - 1]
    BY <1>0, PartOf
  <2>3. (Len(s) - 1) + 1 = Len(s) /\ \A i \in 1..Len(s) : (1 + i) - 1 = i
    BY <1>0
  <2> QED BY <2>1, <2>2, <2>3
<1>3. ASSUME NEW i \in 1..Len(s) PROVE Append(SubSeq(s, 1, i - 1), s[i]) = SubSeq(s, 1, i)
  <2>1. PICK a : a = SubSeq(s, 1, i - 1)
    OBVIOUS
  <2>2. PICK b : b = SubSeq(s, 1, i)
    OBVIOUS
  <2>3. i \in Nat /\ i - 1 \in Nat /\ 1 <= i /\ i <= Len(s) /\ i - 1 <= Len(s) /\ i - 1 + 1 = i
    BY <1>0
  <2>4. IsList(a) /\ Len(a) = i - 1 /\ IsList(b) /\ Len(b) = i
    BY <1>0, <2>1, <2>2, <2>3, Rejoined
  <2>5. \A j \in 1..i : b[j] = s[j]
    <3>1. \A j \in 1..((i - 1) + 1) : b[j] = s[(1 + j) - 1]
      BY <2>2, <2>3, PartOf
    <3> QED BY <2>3, <3>1
  <2>6. \A j \in 1..(i - 1) : a[j] = s[j]
    <3>1. \A j \in 1..(((i - 1) - 1) + 1) : a[j] = s[(1 + j) - 1]
      BY <2>1, <2>3, PartOf
    <3> QED BY <2>3, <3>1
  <2>7. /\ IsList(Append(a, s[i])) /\ Len(Append(a, s[i])) = Len(a) + 1
        /\ \A j \in 1..Len(a) : Append(a, s[i])[j] = a[j]
        /\ Append(a, s[i])[Len(a) + 1] = s[i]
    BY <2>4, Appended
  <2>8. PICK c : c = Append(a, s[i])
    OBVIOUS
  <2>9. IsList(c) /\ Len(c) = i /\ \A j \in 1..i : c[j] = b[j]
    BY <2>3, <2>4, <2>5, <2>6, <2>7, <2>8
  <2>10. c = b
    BY <2>4, <2>9, SameList
  <2> QED BY <2>1, <2>2, <2>8, <2>10
<1>4. SubSeq(s, 1, Len(s)) = s
  BY <1>2, SameList
<1> QED BY <1>1, <1>3, <1>4, NoList

\* A run is a function that takes a step of the reader at every place.
LEMMA RunOfStrings ==
    ASSUME NEW n \in Nat, NEW h, h = [i \in 0..n |-> h[i]],
           \A i \in 1..n : h[i - 1].ok /\ h[i] = ReadString(h[i - 1])
    PROVE  Repeat(n, ReadString, h[0]) = h[n]
<1> DEFINE Run(f) == f = [i \in 0..n |-> IF i = 0 THEN h[0]
                                         ELSE IF f[i - 1].ok THEN ReadString(f[i - 1]) ELSE Failed]
<1>1. Run(h)
  <2>1. ASSUME NEW i \in 0..n
        PROVE  h[i] = IF i = 0 THEN h[0] ELSE IF h[i - 1].ok THEN ReadString(h[i - 1]) ELSE Failed
    <3>1. CASE i = 0
      BY <3>1
    <3>2. CASE i # 0
      <4>1. i \in 1..n
        BY <3>2
      <4> QED BY <3>2, <4>1
    <3> QED BY <3>1, <3>2
  <2> QED BY <2>1
<1>2. PICK f : f = CHOOSE g : Run(g)
  OBVIOUS
<1>3. Repeat(n, ReadString, h[0]) = f[n]
  BY <1>2 DEF Repeat
<1>4. Run(f)
  <2> HIDE DEF Run
  <2> QED BY <1>1, <1>2
<1>5. f[0] = h[0] /\ \A i \in 1..n : f[i - 1] = h[i - 1] => f[i] = h[i]
  <2>1. \A i \in 0..n : f[i] = IF i = 0 THEN h[0]
                               ELSE IF f[i - 1].ok THEN ReadString(f[i - 1]) ELSE Failed
    BY <1>4
  <2>2. 0 \in 0..n /\ \A i \in 1..n : i \in 0..n /\ i # 0
    OBVIOUS
  <2> HIDE DEF Run
  <2> QED BY <2>1, <2>2
<1> QED BY <1>3, <1>5, SameRun

LEMMA RunOfFields ==
    ASSUME NEW n \in Nat, NEW h, h = [i \in 0..n |-> h[i]],
           \A i \in 1..n : h[i - 1].ok /\ h[i] = ReadField(h[i - 1])
    PROVE  Repeat(n, ReadField, h[0]) = h[n]
<1> DEFINE Run(f) == f = [i \in 0..n |-> IF i = 0 THEN h[0]
                                         ELSE IF f[i - 1].ok THEN ReadField(f[i - 1]) ELSE Failed]
<1>1. Run(h)
  <2>1. ASSUME NEW i \in 0..n
        PROVE  h[i] = IF i = 0 THEN h[0] ELSE IF h[i - 1].ok THEN ReadField(h[i - 1]) ELSE Failed
    <3>1. CASE i = 0
      BY <3>1
    <3>2. CASE i # 0
      <4>1. i \in 1..n
        BY <3>2
      <4> QED BY <3>2, <4>1
    <3> QED BY <3>1, <3>2
  <2> QED BY <2>1
<1>2. PICK f : f = CHOOSE g : Run(g)
  OBVIOUS
<1>3. Repeat(n, ReadField, h[0]) = f[n]
  BY <1>2 DEF Repeat
<1>4. Run(f)
  <2> HIDE DEF Run
  <2> QED BY <1>1, <1>2
<1>5. f[0] = h[0] /\ \A i \in 1..n : f[i - 1] = h[i - 1] => f[i] = h[i]
  <2>1. \A i \in 0..n : f[i] = IF i = 0 THEN h[0]
                               ELSE IF f[i - 1].ok THEN ReadField(f[i - 1]) ELSE Failed
    BY <1>4
  <2>2. 0 \in 0..n /\ \A i \in 1..n : i \in 0..n /\ i # 0
    OBVIOUS
  <2> HIDE DEF Run
  <2> QED BY <2>1, <2>2
<1> QED BY <1>3, <1>5, SameRun

LEMMA RunOfValues ==
    ASSUME NEW n \in Nat, NEW h, h = [i \in 0..n |-> h[i]],
           \A i \in 1..n : h[i - 1].ok /\ h[i] = ReadValue(h[i - 1])
    PROVE  Repeat(n, ReadValue, h[0]) = h[n]
<1> DEFINE Run(f) == f = [i \in 0..n |-> IF i = 0 THEN h[0]
                                         ELSE IF f[i - 1].ok THEN ReadValue(f[i - 1]) ELSE Failed]
<1>1. Run(h)
  <2>1. ASSUME NEW i \in 0..n
        PROVE  h[i] = IF i = 0 THEN h[0] ELSE IF h[i - 1].ok THEN ReadValue(h[i - 1]) ELSE Failed
    <3>1. CASE i = 0
      BY <3>1
    <3>2. CASE i # 0
      <4>1. i \in 1..n
        BY <3>2
      <4> QED BY <3>2, <4>1
    <3> QED BY <3>1, <3>2
  <2> QED BY <2>1
<1>2. PICK f : f = CHOOSE g : Run(g)
  OBVIOUS
<1>3. Repeat(n, ReadValue, h[0]) = f[n]
  BY <1>2 DEF Repeat
<1>4. Run(f)
  <2> HIDE DEF Run
  <2> QED BY <1>1, <1>2
<1>5. f[0] = h[0] /\ \A i \in 1..n : f[i - 1] = h[i - 1] => f[i] = h[i]
  <2>1. \A i \in 0..n : f[i] = IF i = 0 THEN h[0]
                               ELSE IF f[i - 1].ok THEN ReadValue(f[i - 1]) ELSE Failed
    BY <1>4
  <2>2. 0 \in 0..n /\ \A i \in 1..n : i \in 0..n /\ i # 0
    OBVIOUS
  <2> HIDE DEF Run
  <2> QED BY <2>1, <2>2
<1> QED BY <1>3, <1>5, SameRun

LEMMA RunOfLenencs ==
    ASSUME NEW n \in Nat, NEW h, h = [i \in 0..n |-> h[i]],
           \A i \in 1..n : h[i - 1].ok /\ h[i] = ReadLenenc(h[i - 1])
    PROVE  Repeat(n, ReadLenenc, h[0]) = h[n]
<1> DEFINE Run(f) == f = [i \in 0..n |-> IF i = 0 THEN h[0]
                                         ELSE IF f[i - 1].ok THEN ReadLenenc(f[i - 1]) ELSE Failed]
<1>1. Run(h)
  <2>1. ASSUME NEW i \in 0..n
        PROVE  h[i] = IF i = 0 THEN h[0] ELSE IF h[i - 1].ok THEN ReadLenenc(h[i - 1]) ELSE Failed
    <3>1. CASE i = 0
      BY <3>1
    <3>2. CASE i # 0
      <4>1. i \in 1..n
        BY <3>2
      <4> QED BY <3>2, <4>1
    <3> QED BY <3>1, <3>2
  <2> QED BY <2>1
<1>2. PICK f : f = CHOOSE g : Run(g)
  OBVIOUS
<1>3. Repeat(n, ReadLenenc, h[0]) = f[n]
  BY <1>2 DEF Repeat
<1>4. Run(f)
  <2> HIDE DEF Run
  <2> QED BY <1>1, <1>2
<1>5. f[0] = h[0] /\ \A i \in 1..n : f[i - 1] = h[i - 1] => f[i] = h[i]
  <2>1. \A i \in 0..n : f[i] = IF i = 0 THEN h[0]
                               ELSE IF f[i - 1].ok THEN ReadLenenc(f[i - 1]) ELSE Failed
    BY <1>4
  <2>2. 0 \in 0..n /\ \A i \in 1..n : i \in 0..n /\ i # 0
    OBVIOUS
  <2> HIDE DEF Run
  <2> QED BY <2>1, <2>2
<1> QED BY <1>3, <1>5, SameRun

LEMMA RunOfParams ==
    ASSUME NEW n \in Nat, NEW h, h = [i \in 0..n |-> h[i]],
           \A i \in 1..n : h[i - 1].ok /\ h[i] = ReadParam(h[i - 1])
    PROVE  Repeat(n, ReadParam, h[0]) = h[n]
<1> DEFINE Run(f) == f = [i \in 0..n |-> IF i = 0 THEN h[0]
                                         ELSE IF f[i - 1].ok THEN ReadParam(f[i - 1]) ELSE Failed]
<1>1. Run(h)
  <2>1. ASSUME NEW i \in 0..n
        PROVE  h[i] = IF i = 0 THEN h[0] ELSE IF h[i - 1].ok THEN ReadParam(h[i - 1]) ELSE Failed
    <3>1. CASE i = 0
      BY <3>1
    <3>2. CASE i # 0
      <4>1. i \in 1..n
        BY <3>2
      <4> QED BY <3>2, <4>1
    <3> QED BY <3>1, <3>2
  <2> QED BY <2>1
<1>2. PICK f : f = CHOOSE g : Run(g)
  OBVIOUS
<1>3. Repeat(n, ReadParam, h[0]) = f[n]
  BY <1>2 DEF Repeat
<1>4. Run(f)
  <2> HIDE DEF Run
  <2> QED BY <1>1, <1>2
<1>5. f[0] = h[0] /\ \A i \in 1..n : f[i - 1] = h[i - 1] => f[i] = h[i]
  <2>1. \A i \in 0..n : f[i] = IF i = 0 THEN h[0]
                               ELSE IF f[i - 1].ok THEN ReadParam(f[i - 1]) ELSE Failed
    BY <1>4
  <2>2. 0 \in 0..n /\ \A i \in 1..n : i \in 0..n /\ i # 0
    OBVIOUS
  <2> HIDE DEF Run
  <2> QED BY <2>1, <2>2
<1> QED BY <1>3, <1>5, SameRun
LEMMA FieldIsList == \A field : IsList(EncodeField(field))
<1> SUFFICES ASSUME NEW field PROVE IsList(EncodeField(field))
  OBVIOUS
<1>1. PICK fixed : fixed = Unit("fixed", <<field.oid, field.number>>)
  OBVIOUS
<1>2. PICK name : name = String(field.name)
  OBVIOUS
<1>3. IsList(name) /\ IsList(One(fixed))
  BY <1>2, TwoIs, Singled DEF String, Two
<1>4. EncodeField(field) = name ++ One(fixed)
  BY <1>1, <1>2 DEF EncodeField, One, ++
<1> QED BY <1>3, <1>4, Joined

LEMMA ReadsFields ==
    ASSUME NEW body, IsList(body),
           \A i \in DOMAIN body : body[i] = Field(body[i].name, body[i].oid, body[i].number)
    PROVE  /\ IsList(Flatten(EncodeField, body))
           /\ Repeat(Len(body), ReadField, Reader(Flatten(EncodeField, body), <<>>, TRUE))
                = Reader(<<>>, body, TRUE)
<1>0. Len(body) \in Nat /\ DOMAIN body = 1..Len(body)
  BY ListIs
<1>1. PICK seqs : seqs = [i \in DOMAIN body |-> EncodeField(body[i])]
  OBVIOUS
<1>2. Lists(seqs) /\ Len(seqs) = Len(body) /\ FlattenSeq(seqs) = Flatten(EncodeField, body)
  <2>1. seqs = [i \in DOMAIN body |-> seqs[i]]
    BY <1>1
  <2>2. IsList(seqs) /\ Len(seqs) = Len(body)
    BY <2>1, MapIs
  <2> QED BY <1>0, <1>1, <2>2, FieldIsList DEF Lists, Flatten
<1>3. PICK rest : IsList(FlattenSeq(seqs)) /\ Rests(rest, seqs)
  BY <1>2, FlattenRests
<1>4. PICK h : h = [i \in 0..Len(body) |-> Reader(rest[i], SubSeq(body, 1, i), TRUE)]
  OBVIOUS
<1>5. h = [i \in 0..Len(body) |-> h[i]]
  BY <1>4
<1>6. ASSUME NEW i \in 1..Len(body) PROVE h[i - 1].ok /\ h[i] = ReadField(h[i - 1])
  <2>1. i \in 0..Len(body) /\ i - 1 \in 0..Len(body)
    BY <1>0
  <2>2. rest[i - 1] = EncodeField(body[i]) ++ rest[i] /\ IsList(rest[i])
    BY <1>0, <1>1, <1>2, <1>3, <2>1 DEF Rests
  <2>3. h[i - 1] = Reader(EncodeField(body[i]) ++ rest[i], SubSeq(body, 1, i - 1), TRUE)
    BY <1>4, <2>1, <2>2
  <2>4. ReadField(h[i - 1]) = Reader(rest[i], Append(SubSeq(body, 1, i - 1), body[i]), TRUE)
    <3>1. PICK field, x, items : field = body[i] /\ x = rest[i] /\ items = SubSeq(body, 1, i - 1)
      OBVIOUS
    <3>2. field = Field(field.name, field.oid, field.number) /\ IsList(x)
      BY <1>0, <2>2, <3>1
    <3>3. ReadField(Reader(EncodeField(field) ++ x, items, TRUE)) = Reader(x, Append(items, field), TRUE)
      BY ONLY <3>2, ReadsField
    <3> QED BY <2>3, <3>1, <3>3
  <2>5. Append(SubSeq(body, 1, i - 1), body[i]) = SubSeq(body, 1, i)
    BY OneMore
  <2>6. h[i] = Reader(rest[i], SubSeq(body, 1, i), TRUE)
    BY <1>4, <2>1
  <2>7. h[i - 1].ok
    BY <2>3 DEF Reader
  <2> QED BY <2>4, <2>5, <2>6, <2>7
<1>7. Repeat(Len(body), ReadField, h[0]) = h[Len(body)]
  BY <1>0, <1>5, <1>6, RunOfFields
<1>8. h[0] = Reader(Flatten(EncodeField, body), <<>>, TRUE)
  <2>1. h[0] = Reader(rest[0], SubSeq(body, 1, 0), TRUE)
    BY <1>0, <1>4
  <2>2. rest[0] = Flatten(EncodeField, body)
    BY <1>2, <1>3 DEF Rests
  <2> QED BY <2>1, <2>2, OneMore
<1>9. h[Len(body)] = Reader(<<>>, body, TRUE)
  <2>1. h[Len(body)] = Reader(rest[Len(body)], SubSeq(body, 1, Len(body)), TRUE)
    BY <1>0, <1>4
  <2>2. rest[Len(body)] = <<>>
    BY <1>2, <1>3 DEF Rests
  <2> QED BY <2>1, <2>2, OneMore
<1> QED BY <1>2, <1>3, <1>7, <1>8, <1>9

\* A cell's characters.
LEMMA TextIsList ==
    ASSUME NEW text, IsText(text)
    PROVE  IsList(text)
BY SeqIsList DEF IsText

LEMMA FlatIs ==
    ASSUME NEW cell, IsCell(cell)
    PROVE  /\ IsList(Flat(cell))
           /\ Flat(cell) = <<>> => cell \in {Null, Text(<<>>)}
<1>0. /\ IsList(cell.leaves) /\ DOMAIN cell.leaves = 1..Len(cell.leaves)
      /\ \A l \in DOMAIN cell.leaves : IsList(cell.leaves[l].text)
  BY ListIs, TextIsList DEF IsCell
<1>1. CASE cell.shape = "null"
  <2>1. cell.leaves = <<>> /\ cell = Cell(cell.shape, cell.leaves)
    BY <1>1 DEF IsCell
  <2> QED BY <1>1, <2>1, NoList DEF Flat, Null
<1>2. CASE cell.shape = "bytes"
  <2>1. Flat(cell) = One(Token("word"))
    BY <1>2 DEF Flat, One
  <2>2. PICK word : word = Token("word")
    OBVIOUS
  <2>3. IsList(One(word)) /\ Len(One(word)) = 1
    BY Singled
  <2> QED BY <2>1, <2>2, <2>3, NoList
<1>3. CASE cell.shape = "text"
  <2>1. 1 \in DOMAIN cell.leaves /\ cell = Text(cell.leaves[1].text)
    BY <1>0, <1>3 DEF IsCell
  <2>2. Flat(cell) = cell.leaves[1].text
    BY <1>3 DEF Flat
  <2> QED BY <1>0, <2>1, <2>2
<1>4. CASE cell.shape = "scalar" /\ cell.leaves[1].role # "string"
  <2>1. 1 \in DOMAIN cell.leaves /\ cell.leaves[1].text # <<>>
    BY <1>0, <1>4 DEF IsCell
  <2>2. Flat(cell) = cell.leaves[1].text
    BY <1>4 DEF Flat
  <2> QED BY <1>0, <2>1, <2>2
<1>5. CASE cell.shape \notin {"null", "bytes", "text"} /\ ~(cell.shape = "scalar" /\ cell.leaves[1].role # "string")
  <2>1. PICK flat : flat = Flatten(LAMBDA leaf : Append(leaf.text, Gap), cell.leaves)
    OBVIOUS
  <2>2. Flat(cell) = One(Gap) ++ flat
    BY <1>5, <2>1 DEF Flat, One, ++
  <2>3. PICK seqs : seqs = [l \in DOMAIN cell.leaves |-> Append(cell.leaves[l].text, Gap)]
    OBVIOUS
  <2>4. seqs = [l \in DOMAIN cell.leaves |-> seqs[l]]
    BY <2>3
  <2>5. IsList(seqs) /\ Len(seqs) = Len(cell.leaves)
    BY <1>0, <2>4, MapIs
  <2>6. \A l \in 1..Len(cell.leaves) : IsList(seqs[l])
    BY <1>0, <2>3, Appended
  <2>7. IsList(FlattenSeq(seqs))
    BY <2>5, <2>6, FlattenRests DEF Lists
  <2>8. flat = FlattenSeq(seqs)
    BY <2>1, <2>3 DEF Flatten
  <2> QED BY <2>2, <2>7, <2>8, FirstOf
<1> QED BY <1>1, <1>2, <1>3, <1>4, <1>5
LEMMA BytesAre ==
    ASSUME NEW cell, IsCell(cell)
    PROVE  /\ Size(cell) \in Nat /\ IsList(BytesOf(cell)) /\ Len(BytesOf(cell)) = Size(cell)
           /\ cell # Null => CellOf(BytesOf(cell)) = cell
<1>1. Size(cell) \in Nat
  BY FlatIs, ListIs DEF Size
<1>2. PICK units : units = BytesOf(cell)
  OBVIOUS
<1>3. units = [i \in 1..Size(cell) |-> units[i]] /\ \A i \in 1..Size(cell) : units[i] = <<"of", cell, i>>
  BY <1>2 DEF BytesOf
<1>4. IsList(units) /\ Len(units) = Size(cell)
  BY <1>1, <1>3, ListOf
<1>5. ASSUME cell # Null PROVE CellOf(units) = cell
  <2>1. CASE units = <<>>
    <3>1. Size(cell) = 0
      BY <1>4, <2>1, NoList
    <3>2. Flat(cell) = <<>>
      BY <3>1, FlatIs, NoList DEF Size
    <3> QED BY <1>5, <2>1, <3>2, FlatIs DEF CellOf
  <2>2. CASE units # <<>>
    <3>1. 1 \in 1..Size(cell)
      BY <1>1, <1>4, <2>2, NoList
    <3>2. units[1] = <<"of", cell, 1>>
      BY <1>3, <3>1
    <3>3. Is(units[1], "of") /\ units[1][2] = cell
      BY <3>2 DEF Is
    <3> QED BY <1>2, <2>2, <3>3 DEF CellOf
  <2> QED BY <2>1, <2>2
<1> QED BY <1>1, <1>2, <1>4, <1>5

LEMMA ValueIsList ==
    ASSUME NEW cell, IsCell(cell)
    PROVE  IsList(EncodeValue(cell))
<1>1. PICK size, none, bytes : size = Unit("size", Size(cell)) /\ none = Unit("size", -1) /\ bytes = BytesOf(cell)
  OBVIOUS
<1>2. IsList(One(none)) /\ IsList(One(size) ++ bytes)
  BY <1>1, Singled, BytesAre, FirstOf
<1> QED BY <1>1, <1>2 DEF EncodeValue, One, ++

LEMMA ReadsValue ==
    ASSUME NEW cell, NEW x, NEW items, NEW ok, IsCell(cell), IsList(x)
    PROVE  ReadValue(Reader(EncodeValue(cell) ++ x, items, ok)) = Reader(x, Append(items, cell), TRUE)
<1>1. PICK size, none, bytes, reader :
         /\ size = Unit("size", Size(cell)) /\ none = Unit("size", -1) /\ bytes = BytesOf(cell)
         /\ reader = Reader(EncodeValue(cell) ++ x, items, ok)
  OBVIOUS
<1>2. size[2] = Size(cell) /\ none[2] = -1 /\ IsList(bytes) /\ Len(bytes) = Size(cell) /\ Size(cell) \in Nat
  BY <1>1, BytesAre, UnitIs
<1>3. reader.rest = EncodeValue(cell) ++ x /\ reader.items = items
  BY <1>1 DEF Reader
<1>4. CASE cell = Null
  <2>1. reader.rest = One(none) ++ x
    BY <1>1, <1>3, <1>4 DEF EncodeValue, One
  <2>2. reader.rest # <<>> /\ Head(reader.rest) = none /\ SubSeq(reader.rest, 2, Len(reader.rest)) = x
    BY <2>1, FirstOf
  <2>3. ReadValue(reader) = Advance(reader, 1, Null)
    BY <1>2, <2>2 DEF ReadValue
  <2>4. 1 + 1 = 2
    OBVIOUS
  <2>5. Advance(reader, 1, Null) = Reader(x, Append(items, cell), TRUE)
    BY <1>3, <1>4, <2>2, <2>4 DEF Advance
  <2> QED BY <1>1, <2>3, <2>5
<1>5. CASE cell # Null
  <2>1. PICK rest : rest = reader.rest
    OBVIOUS
  <2>2. PICK tail, one, n : tail = bytes ++ x /\ one = One(size) /\ n = Size(cell)
    OBVIOUS
  <2>3. IsList(one) /\ Len(one) = 1
    BY <2>2, Singled
  <2>4. rest = one ++ (bytes ++ x)
    <3>1. rest = (one ++ bytes) ++ x
      BY <1>1, <1>3, <1>5, <2>1, <2>2 DEF EncodeValue, One, ++
    <3> QED BY <1>2, <2>3, <3>1, JoinedTwice
  <2>5. IsList(tail) /\ rest = One(size) ++ tail
    BY <1>2, <2>2, <2>4, Joined
  <2>6. rest # <<>> /\ Head(rest) = size
    BY <2>5, FirstOf
  <2>7. /\ Len(rest) = (1 + n) + Len(x)
        /\ SubSeq(rest, 1 + 1, 1 + n) = bytes
        /\ SubSeq(rest, (1 + n) + 1, Len(rest)) = x
    <3>1. IsList(one) /\ IsList(bytes) /\ IsList(x)
      BY <1>2, <2>3
    <3>2. LET all == one ++ (bytes ++ x)
          IN /\ IsList(all) /\ Len(all) = (Len(one) + Len(bytes)) + Len(x)
             /\ SubSeq(all, Len(one) + 1, Len(one) + Len(bytes)) = bytes
             /\ SubSeq(all, (Len(one) + Len(bytes)) + 1, Len(all)) = x
      BY ONLY <3>1, MiddleOf
    <3> QED BY <1>2, <2>2, <2>3, <2>4, <3>2
  <2>9. n \in Nat /\ Len(x) \in Nat
    BY <1>2, <2>2, ListIs
  <2>10. ~(n < -1) /\ ~(n = -1) /\ ~(n >= Len(rest)) /\ 1 + 1 = 2 /\ 1 + n = n + 1
    BY <2>7, <2>9
  <2>8. ReadValue(reader) = Advance(reader, n + 1, CellOf(SubSeq(rest, 2, n + 1)))
    BY <1>2, <2>1, <2>2, <2>6, <2>10 DEF ReadValue
  <2>11. SubSeq(rest, 2, n + 1) = bytes
    BY <2>7, <2>10
  <2>12. SubSeq(rest, (n + 1) + 1, Len(rest)) = x
    BY <2>7, <2>10
  <2>13. CellOf(bytes) = cell
    BY <1>1, <1>5, BytesAre
  <2>14. Advance(reader, n + 1, cell) = Reader(x, Append(items, cell), TRUE)
    BY <1>3, <2>1, <2>12 DEF Advance
  <2> QED BY <1>1, <2>8, <2>11, <2>13, <2>14
<1> QED BY <1>4, <1>5
LEMMA ReadsValues ==
    ASSUME NEW body, IsList(body),
           \A i \in DOMAIN body : IsCell(body[i])
    PROVE  /\ IsList(Flatten(EncodeValue, body))
           /\ Repeat(Len(body), ReadValue, Reader(Flatten(EncodeValue, body), <<>>, TRUE))
                = Reader(<<>>, body, TRUE)
<1>0. Len(body) \in Nat /\ DOMAIN body = 1..Len(body)
  BY ListIs
<1>1. PICK seqs : seqs = [i \in DOMAIN body |-> EncodeValue(body[i])]
  OBVIOUS
<1>2. Lists(seqs) /\ Len(seqs) = Len(body) /\ FlattenSeq(seqs) = Flatten(EncodeValue, body)
  <2>1. seqs = [i \in DOMAIN body |-> seqs[i]]
    BY <1>1
  <2>2. IsList(seqs) /\ Len(seqs) = Len(body)
    BY <2>1, MapIs
  <2> QED BY <1>0, <1>1, <2>2, ValueIsList DEF Lists, Flatten
<1>3. PICK rest : IsList(FlattenSeq(seqs)) /\ Rests(rest, seqs)
  BY <1>2, FlattenRests
<1>4. PICK h : h = [i \in 0..Len(body) |-> Reader(rest[i], SubSeq(body, 1, i), TRUE)]
  OBVIOUS
<1>5. h = [i \in 0..Len(body) |-> h[i]]
  BY <1>4
<1>6. ASSUME NEW i \in 1..Len(body) PROVE h[i - 1].ok /\ h[i] = ReadValue(h[i - 1])
  <2>1. i \in 0..Len(body) /\ i - 1 \in 0..Len(body)
    BY <1>0
  <2>2. rest[i - 1] = EncodeValue(body[i]) ++ rest[i] /\ IsList(rest[i])
    BY <1>0, <1>1, <1>2, <1>3, <2>1 DEF Rests
  <2>3. h[i - 1] = Reader(EncodeValue(body[i]) ++ rest[i], SubSeq(body, 1, i - 1), TRUE)
    BY <1>4, <2>1, <2>2
  <2>4. ReadValue(h[i - 1]) = Reader(rest[i], Append(SubSeq(body, 1, i - 1), body[i]), TRUE)
    <3>1. PICK cell, x, items : cell = body[i] /\ x = rest[i] /\ items = SubSeq(body, 1, i - 1)
      OBVIOUS
    <3>2. IsCell(cell) /\ IsList(x)
      BY <1>0, <2>2, <3>1
    <3>3. ReadValue(Reader(EncodeValue(cell) ++ x, items, TRUE)) = Reader(x, Append(items, cell), TRUE)
      BY ONLY <3>2, ReadsValue
    <3> QED BY <2>3, <3>1, <3>3
  <2>5. Append(SubSeq(body, 1, i - 1), body[i]) = SubSeq(body, 1, i)
    BY OneMore
  <2>6. h[i] = Reader(rest[i], SubSeq(body, 1, i), TRUE)
    BY <1>4, <2>1
  <2>7. h[i - 1].ok
    BY <2>3 DEF Reader
  <2> QED BY <2>4, <2>5, <2>6, <2>7
<1>7. Repeat(Len(body), ReadValue, h[0]) = h[Len(body)]
  BY <1>0, <1>5, <1>6, RunOfValues
<1>8. h[0] = Reader(Flatten(EncodeValue, body), <<>>, TRUE)
  <2>1. h[0] = Reader(rest[0], SubSeq(body, 1, 0), TRUE)
    BY <1>0, <1>4
  <2>2. rest[0] = Flatten(EncodeValue, body)
    BY <1>2, <1>3 DEF Rests
  <2> QED BY <2>1, <2>2, OneMore
<1>9. h[Len(body)] = Reader(<<>>, body, TRUE)
  <2>1. h[Len(body)] = Reader(rest[Len(body)], SubSeq(body, 1, Len(body)), TRUE)
    BY <1>0, <1>4
  <2>2. rest[Len(body)] = <<>>
    BY <1>2, <1>3 DEF Rests
  <2> QED BY <2>1, <2>2, OneMore
<1> QED BY <1>2, <1>3, <1>7, <1>8, <1>9


-----------------------------------------------------------------------------
(* A row of MySQL *)

LEMMA LenencIsList ==
    ASSUME NEW cell, IsCell(cell)
    PROVE  IsList(LenencValue(cell))
<1>1. PICK size, none, wide, bytes :
         /\ size = Unit("size", Size(cell)) /\ none = Unit("null", 0)
         /\ wide = Unit("wide", 0) /\ bytes = BytesOf(cell)
  OBVIOUS
<1>2. IsList(One(none)) /\ IsList(One(size) ++ bytes) /\ IsList(Two(wide, size) ++ bytes)
  BY <1>1, Singled, TwoIs, BytesAre, Joined
<1> QED BY <1>1, <1>2 DEF LenencValue, LenencInt, One, Two, ++

LEMMA ReadsLenenc ==
    ASSUME NEW cell, NEW x, NEW items, NEW ok, IsCell(cell), IsList(x)
    PROVE  ReadLenenc(Reader(LenencValue(cell) ++ x, items, ok)) = Reader(x, Append(items, cell), TRUE)
<1>1. PICK size, none, wide, bytes, reader, rest, n :
         /\ size = Unit("size", Size(cell)) /\ none = Unit("null", 0)
         /\ wide = Unit("wide", 0) /\ bytes = BytesOf(cell)
         /\ reader = Reader(LenencValue(cell) ++ x, items, ok)
         /\ rest = LenencValue(cell) ++ x
         /\ n = Size(cell)
  OBVIOUS
<1>2. /\ size[2] = n /\ size[1] = "size" /\ none[1] = "null" /\ wide[1] = "wide"
      /\ IsList(bytes) /\ Len(bytes) = n /\ n \in Nat /\ Len(x) \in Nat
  BY <1>1, BytesAre, UnitIs, ListIs
<1>3. reader.rest = rest /\ reader.items = items
  BY <1>1 DEF Reader
<1>4. CASE cell = Null
  <2>1. rest = One(none) ++ x
    BY <1>1, <1>4 DEF LenencValue, One
  <2>2. rest # <<>> /\ Head(rest) = none /\ SubSeq(rest, 2, Len(rest)) = x
    BY <2>1, FirstOf
  <2>3. ReadLenenc(reader) = Advance(reader, 1, Null)
    BY <1>2, <1>3, <2>2 DEF ReadLenenc, Is
  <2>4. 1 + 1 = 2
    OBVIOUS
  <2>5. Advance(reader, 1, Null) = Reader(x, Append(items, cell), TRUE)
    BY <1>3, <1>4, <2>2, <2>4 DEF Advance
  <2> QED BY <1>1, <2>3, <2>5
<1>5. ASSUME cell # Null, NEW before, NEW at, IsList(before), Len(before) = at, at \in {1, 2},
             rest = before ++ (bytes ++ x), rest # <<>>, Head(rest)[1] # "null",
             at = IF Head(rest)[1] = "wide" THEN 2 ELSE 1, rest[at] = size
      PROVE  ReadLenenc(reader) = Reader(x, Append(items, cell), TRUE)
  <2>1. /\ Len(rest) = (at + n) + Len(x)
        /\ SubSeq(rest, at + 1, at + n) = bytes
        /\ SubSeq(rest, (at + n) + 1, Len(rest)) = x
    <3>1. IsList(before) /\ IsList(bytes) /\ IsList(x)
      BY <1>2, <1>5
    <3>2. LET all == before ++ (bytes ++ x)
          IN /\ IsList(all) /\ Len(all) = (Len(before) + Len(bytes)) + Len(x)
             /\ SubSeq(all, Len(before) + 1, Len(before) + Len(bytes)) = bytes
             /\ SubSeq(all, (Len(before) + Len(bytes)) + 1, Len(all)) = x
      BY ONLY <3>1, MiddleOf
    <3> QED BY <1>2, <1>5, <3>2
  <2>2. ~(Len(rest) < at) /\ ~(Len(rest) < at + n)
    <3>1. at \in Nat /\ n \in Nat /\ Len(x) \in Nat /\ Len(rest) = (at + n) + Len(x)
      BY <1>2, <1>5, <2>1
    <3> QED BY ONLY <3>1
  <2>3. ReadLenenc(reader) = Advance(reader, at + n, CellOf(SubSeq(rest, at + 1, at + n)))
    BY <1>2, <1>3, <1>5, <2>2 DEF ReadLenenc, Is
  <2>4. CellOf(bytes) = cell
    BY <1>1, <1>5, BytesAre
  <2>5. Advance(reader, at + n, cell) = Reader(x, Append(items, cell), TRUE)
    BY <1>3, <2>1 DEF Advance
  <2> QED BY <2>1, <2>3, <2>4, <2>5
<1>6. CASE cell # Null /\ Size(cell) < OneByte
  <2>1. PICK one, tail : one = One(size) /\ tail = bytes ++ x
    OBVIOUS
  <2>2. IsList(one) /\ Len(one) = 1 /\ IsList(tail)
    BY <1>2, <2>1, Singled, Joined
  <2>3. rest = one ++ (bytes ++ x)
    <3>1. rest = (one ++ bytes) ++ x
      BY <1>1, <1>6, <2>1 DEF LenencValue, LenencInt, One, ++
    <3> QED BY <1>2, <2>2, <3>1, JoinedTwice
  <2>4. rest # <<>> /\ Head(rest) = size /\ rest[1] = size
    BY <2>1, <2>2, <2>3, FirstOf
  <2> QED BY <1>1, <1>2, <1>5, <1>6, <2>2, <2>3, <2>4
<1>7. CASE cell # Null /\ ~(Size(cell) < OneByte)
  <2>1. PICK two, tail : two = Two(wide, size) /\ tail = bytes ++ x
    OBVIOUS
  <2>2. IsList(two) /\ Len(two) = 2 /\ IsList(tail)
    BY <1>2, <2>1, TwoIs, Joined
  <2>3. rest = two ++ (bytes ++ x)
    <3>1. rest = (two ++ bytes) ++ x
      BY <1>1, <1>7, <2>1 DEF LenencValue, LenencInt, Two, ++
    <3> QED BY <1>2, <2>2, <3>1, JoinedTwice
  <2>4. rest # <<>> /\ rest[1] = wide /\ rest[2] = size
    BY <2>1, <2>2, <2>3, TwoBefore
  <2>5. Head(rest) = wide
    BY <2>4 DEF Head
  <2> QED BY <1>1, <1>2, <1>5, <1>7, <2>2, <2>3, <2>4, <2>5
<1> QED BY <1>4, <1>6, <1>7

LEMMA ReadsRow ==
    ASSUME NEW body, IsList(body),
           \A i \in DOMAIN body : IsCell(body[i])
    PROVE  /\ IsList(Flatten(LenencValue, body))
           /\ Repeat(Len(body), ReadLenenc, Reader(Flatten(LenencValue, body), <<>>, TRUE))
                = Reader(<<>>, body, TRUE)
<1>0. Len(body) \in Nat /\ DOMAIN body = 1..Len(body)
  BY ListIs
<1>1. PICK seqs : seqs = [i \in DOMAIN body |-> LenencValue(body[i])]
  OBVIOUS
<1>2. Lists(seqs) /\ Len(seqs) = Len(body) /\ FlattenSeq(seqs) = Flatten(LenencValue, body)
  <2>1. seqs = [i \in DOMAIN body |-> seqs[i]]
    BY <1>1
  <2>2. IsList(seqs) /\ Len(seqs) = Len(body)
    BY <2>1, MapIs
  <2> QED BY <1>0, <1>1, <2>2, LenencIsList DEF Lists, Flatten
<1>3. PICK rest : IsList(FlattenSeq(seqs)) /\ Rests(rest, seqs)
  BY <1>2, FlattenRests
<1>4. PICK h : h = [i \in 0..Len(body) |-> Reader(rest[i], SubSeq(body, 1, i), TRUE)]
  OBVIOUS
<1>5. h = [i \in 0..Len(body) |-> h[i]]
  BY <1>4
<1>6. ASSUME NEW i \in 1..Len(body) PROVE h[i - 1].ok /\ h[i] = ReadLenenc(h[i - 1])
  <2>1. i \in 0..Len(body) /\ i - 1 \in 0..Len(body)
    BY <1>0
  <2>2. rest[i - 1] = LenencValue(body[i]) ++ rest[i] /\ IsList(rest[i])
    BY <1>0, <1>1, <1>2, <1>3, <2>1 DEF Rests
  <2>3. h[i - 1] = Reader(LenencValue(body[i]) ++ rest[i], SubSeq(body, 1, i - 1), TRUE)
    BY <1>4, <2>1, <2>2
  <2>4. ReadLenenc(h[i - 1]) = Reader(rest[i], Append(SubSeq(body, 1, i - 1), body[i]), TRUE)
    <3>1. PICK cell, x, items : cell = body[i] /\ x = rest[i] /\ items = SubSeq(body, 1, i - 1)
      OBVIOUS
    <3>2. IsCell(cell) /\ IsList(x)
      BY <1>0, <2>2, <3>1
    <3>3. ReadLenenc(Reader(LenencValue(cell) ++ x, items, TRUE)) = Reader(x, Append(items, cell), TRUE)
      BY ONLY <3>2, ReadsLenenc
    <3> QED BY <2>3, <3>1, <3>3
  <2>5. Append(SubSeq(body, 1, i - 1), body[i]) = SubSeq(body, 1, i)
    BY OneMore
  <2>6. h[i] = Reader(rest[i], SubSeq(body, 1, i), TRUE)
    BY <1>4, <2>1
  <2>7. h[i - 1].ok
    BY <2>3 DEF Reader
  <2> QED BY <2>4, <2>5, <2>6, <2>7
<1>7. Repeat(Len(body), ReadLenenc, h[0]) = h[Len(body)]
  BY <1>0, <1>5, <1>6, RunOfLenencs
<1>8. h[0] = Reader(Flatten(LenencValue, body), <<>>, TRUE)
  <2>1. h[0] = Reader(rest[0], SubSeq(body, 1, 0), TRUE)
    BY <1>0, <1>4
  <2>2. rest[0] = Flatten(LenencValue, body)
    BY <1>2, <1>3 DEF Rests
  <2> QED BY <2>1, <2>2, OneMore
<1>9. h[Len(body)] = Reader(<<>>, body, TRUE)
  <2>1. h[Len(body)] = Reader(rest[Len(body)], SubSeq(body, 1, Len(body)), TRUE)
    BY <1>0, <1>4
  <2>2. rest[Len(body)] = <<>>
    BY <1>2, <1>3 DEF Rests
  <2> QED BY <2>1, <2>2, OneMore
<1> QED BY <1>2, <1>3, <1>7, <1>8, <1>9


-----------------------------------------------------------------------------
(* The parameters of a startup message *)

LEMMA FlattenLong ==
    ASSUME NEW seqs, Lists(seqs), \A i \in 1..Len(seqs) : seqs[i] # <<>>
    PROVE  Len(FlattenSeq(seqs)) >= Len(seqs)
<1> DEFINE n == Len(seqs)
<1>0. n \in Nat /\ \A i \in 1..n : IsList(seqs[i]) /\ Len(seqs[i]) \in Nat \ {0}
  BY ListIs, NoList DEF Lists
<1>1. PICK upTo : /\ \A k \in 0..n : IsList(upTo[k])
                  /\ upTo[0] = <<>>
                  /\ upTo[n] = FlattenSeq(seqs)
                  /\ \A k \in 1..n : upTo[k] = upTo[k - 1] ++ seqs[k]
  BY FlattenPrefix
<1> HIDE DEF n
<1> DEFINE S == {k \in Nat : k <= n => Len(upTo[k]) >= k}
<1>2. 0 \in S
  BY <1>1, NoList
<1>3. ASSUME NEW k \in Nat, k \in S PROVE k + 1 \in S
  <2>1. CASE k + 1 <= n
    <3>1. k + 1 \in 1..n /\ (k + 1) - 1 = k /\ k \in 0..n /\ k <= n
      BY <1>0, <2>1
    <3>2. upTo[k + 1] = upTo[k] ++ seqs[k + 1] /\ IsList(upTo[k]) /\ IsList(seqs[k + 1])
      BY <1>0, <1>1, <3>1
    <3>6. PICK a, b, c : a = upTo[k] /\ b = seqs[k + 1] /\ c = upTo[k + 1]
      OBVIOUS
    <3>3. Len(c) = Len(a) + Len(b)
      <4>1. IsList(a) /\ IsList(b) /\ c = a ++ b
        BY <3>2, <3>6
      <4> QED BY ONLY <4>1, Joined
    <3>4. Len(a) \in Nat /\ Len(a) >= k /\ Len(b) \in Nat \ {0}
      BY <1>0, <1>3, <3>1, <3>2, <3>6, ListIs
    <3>5. Len(upTo[k + 1]) >= k + 1
      <4>1. Len(c) >= k + 1
        BY <3>3, <3>4
      <4> QED BY <3>6, <4>1
    <3> QED BY <3>5
  <2>2. CASE ~(k + 1 <= n)
    BY <2>2
  <2> QED BY <2>1, <2>2
<1> HIDE DEF S
<1>4. n \in S
  BY <1>0, <1>2, <1>3, HoldsAllNaturals
<1>5. Len(upTo[n]) >= n
  BY <1>0, <1>4 DEF S
<1> QED BY <1>1, <1>5 DEF n

LEMMA PairIs ==
    ASSUME NEW a, NEW b
    PROVE  Append(Append(<<>>, a), b) = <<a, b>>
<1>1. PICK items : items = Append(Append(<<>>, a), b)
  OBVIOUS
<1>2. IsList(items) /\ Len(items) = 2 /\ items[1] = a /\ items[2] = b
  BY <1>1, ItemsRead
<1>3. IsList(Two(a, b)) /\ Len(Two(a, b)) = 2 /\ Two(a, b)[1] = a /\ Two(a, b)[2] = b
  BY TwoIs
<1>4. \A i \in 1..2 : i = 1 \/ i = 2
  OBVIOUS
<1>5. items = Two(a, b)
  BY <1>2, <1>3, <1>4, SameList
<1> QED BY <1>1, <1>5 DEF Two

EncodeParam(pair) == String(pair[1]) ++ String(pair[2])

LEMMA ParamIsList == \A pair : IsList(EncodeParam(pair)) /\ EncodeParam(pair) # <<>>
<1> SUFFICES ASSUME NEW pair PROVE IsList(EncodeParam(pair)) /\ EncodeParam(pair) # <<>>
  OBVIOUS
<1>1. PICK u, v, w : u = Unit("chars", pair[1]) /\ v = Unit("chars", pair[2]) /\ w = Nul
  OBVIOUS
<1>2. EncodeParam(pair) = Two(u, w) ++ Two(v, w)
  BY <1>1 DEF EncodeParam, String, Two
<1>3. IsList(Two(v, w))
  BY TwoIs
<1> QED BY <1>2, <1>3, TwoBefore

LEMMA ReadsParam ==
    ASSUME NEW pair, NEW x, NEW items, IsList(x), pair = <<pair[1], pair[2]>>, pair[1] # NoName
    PROVE  ReadParam(Reader(EncodeParam(pair) ++ x, items, TRUE)) = Reader(x, Append(items, pair), TRUE)
<1>1. PICK reader, k, v, after, key, value :
         /\ reader = Reader(EncodeParam(pair) ++ x, items, TRUE)
         /\ k = pair[1] /\ v = pair[2]
         /\ after = String(v) ++ x
         /\ key = ReadString(Reader(reader.rest, <<>>, TRUE))
         /\ value = ReadString(key)
  OBVIOUS
<1>2. IsList(String(k)) /\ IsList(String(v)) /\ IsList(after)
  <2>1. IsList(String(k)) /\ IsList(String(v))
    BY TwoIs DEF String, Two
  <2> QED BY <1>1, <2>1, Joined
<1>3. reader.rest = String(k) ++ after /\ reader.items = items
  <2>1. EncodeParam(pair) ++ x = String(k) ++ after
    BY <1>1, <1>2, JoinedTwice DEF EncodeParam
  <2> QED BY <1>1, <2>1 DEF Reader
<1>4. reader.rest # <<>>
  <2>1. String(k) ++ after = Two(Unit("chars", k), Nul) ++ after
    BY DEF String, Two
  <2> QED BY <1>2, <1>3, <2>1, TwoBefore
<1>5. key = Reader(after, Append(<<>>, k), TRUE)
  <2>1. key = ReadString(Reader(String(k) ++ after, <<>>, TRUE))
    BY <1>1, <1>3
  <2> QED BY <1>2, <2>1, ReadsString
<1>6. value = Reader(x, Append(Append(<<>>, k), v), TRUE)
  <2>1. PICK one : one = Append(<<>>, k)
    OBVIOUS
  <2>2. value = ReadString(Reader(String(v) ++ x, one, TRUE))
    BY <1>1, <1>5, <2>1
  <2>3. ReadString(Reader(String(v) ++ x, one, TRUE)) = Reader(x, Append(one, v), TRUE)
    BY ReadsString
  <2> QED BY <2>1, <2>2, <2>3
<1>7. key.ok /\ key.items[1] = k
  <2>1. Append(<<>>, k)[0 + 1] = k
    BY NoList, Appended
  <2> QED BY <1>5, <2>1 DEF Reader
<1>8. value.ok /\ value.rest = x /\ value.items = pair
  <2>1. Append(Append(<<>>, k), v) = pair
    <3>1. Append(Append(<<>>, k), v) = <<k, v>>
      BY PairIs
    <3>2. pair = <<k, v>>
      BY <1>1
    <3> QED BY ONLY <3>1, <3>2
  <2>2. value = Reader(x, pair, TRUE)
    BY <1>6, <2>1
  <2> QED BY ONLY <2>2 DEF Reader
<1>9. ReadParam(reader) = Reader(value.rest, Append(items, value.items), TRUE)
  BY <1>1, <1>3, <1>4, <1>7, <1>8 DEF ReadParam
<1> QED BY <1>1, <1>8, <1>9

\* The NUL behind the last parameter is where the reader stays.
LEMMA StaysAtEnd ==
    ASSUME NEW items
    PROVE  ReadParam(Reader(One(Nul), items, TRUE)) = Reader(One(Nul), items, TRUE)
<1>1. PICK reader, one, key :
         /\ one = One(Nul)
         /\ reader = Reader(one, items, TRUE)
         /\ key = ReadString(Reader(one, <<>>, TRUE))
  OBVIOUS
<1>2. IsList(one) /\ Len(one) = 1 /\ one[1] = Nul /\ one # <<>> /\ DOMAIN one = 1..1
  BY <1>1, Singled, NoList, ListIs
<1> DEFINE nuls == {i \in DOMAIN one : one[i] = Nul}
<1>3. 1 \in nuls /\ \A i \in nuls : i = 1
  BY <1>2
<1> HIDE DEF nuls
<1>4. Min(nuls) = 1
  BY <1>3 DEF Min
<1>5. key = Advance(Reader(one, <<>>, TRUE), 1, NoName)
  BY <1>1, <1>3, <1>4 DEF ReadString, Reader, nuls
<1>6. key.ok /\ key.items = Append(<<>>, NoName)
  BY <1>5 DEF Advance, Reader
<1>7. key.items[1] = NoName
  <2>1. Append(<<>>, NoName)[0 + 1] = NoName
    BY NoList, Appended
  <2> QED BY <1>6, <2>1
<1>8. reader.rest = one
  BY <1>1 DEF Reader
<1>9. ReadParam(reader) = reader
  BY <1>1, <1>2, <1>6, <1>7, <1>8 DEF ReadParam
<1> QED BY <1>1, <1>9
LEMMA ReadsParams ==
    ASSUME NEW body, IsList(body),
           \A i \in DOMAIN body : body[i] = <<body[i][1], body[i][2]>> /\ body[i][1] # NoName
    PROVE  /\ IsList(Flatten(EncodeParam, body))
           /\ ReadParams(Reader(Flatten(EncodeParam, body) ++ One(Nul), <<>>, TRUE))
                = Reader(One(Nul), body, TRUE)
<1> DEFINE n == Len(body)
<1>0. n \in Nat /\ DOMAIN body = 1..n
  BY ListIs
<1>1. PICK seqs, one, payload : /\ seqs = [i \in DOMAIN body |-> EncodeParam(body[i])]
                                /\ one = One(Nul)
                                /\ payload = Flatten(EncodeParam, body) ++ one
  OBVIOUS
<1>2. Lists(seqs) /\ Len(seqs) = n /\ FlattenSeq(seqs) = Flatten(EncodeParam, body)
  <2>1. seqs = [i \in DOMAIN body |-> seqs[i]]
    BY <1>1
  <2>2. IsList(seqs) /\ Len(seqs) = n
    BY <2>1, MapIs
  <2> QED BY <1>0, <1>1, <2>2, ParamIsList DEF Lists, Flatten
<1>3. PICK rest : IsList(FlattenSeq(seqs)) /\ Rests(rest, seqs)
  BY <1>2, FlattenRests
<1>4. IsList(one) /\ Len(one) = 1
  BY <1>1, Singled
<1>5. PICK m : m = Len(payload)
  OBVIOUS
<1>6. m \in Nat /\ n <= m
  <2>1. \A i \in 1..Len(seqs) : seqs[i] # <<>>
    BY <1>0, <1>1, <1>2, ParamIsList
  <2>2. Len(FlattenSeq(seqs)) >= n
    BY <1>2, <2>1, FlattenLong
  <2>3. PICK flat : flat = FlattenSeq(seqs)
    OBVIOUS
  <2>4. IsList(flat) /\ payload = flat ++ one /\ Len(flat) >= n
    BY <1>1, <1>2, <1>3, <2>2, <2>3
  <2>5. Len(payload) = Len(flat) + Len(one)
    BY <1>4, <2>4, Joined
  <2>6. Len(flat) \in Nat
    BY <2>4, ListIs
  <2> QED BY <1>0, <1>4, <1>5, <2>4, <2>5, <2>6
<1> DEFINE Stays == Reader(one, body, TRUE)
           Goes(i) == Reader(rest[i] ++ one, SubSeq(body, 1, i), TRUE)
<1>7. PICK h : h = [i \in 0..m |-> IF i <= n THEN Goes(i) ELSE Stays]
  OBVIOUS
<1>8. h = [i \in 0..m |-> h[i]] /\ \A i \in 0..m : h[i] = IF i <= n THEN Goes(i) ELSE Stays
  BY <1>7
<1>9. Goes(n) = Stays
  <2>1. rest[n] = <<>>
    BY <1>2, <1>3 DEF Rests
  <2> QED BY <1>4, <2>1, NoList, OneMore
<1>10. ASSUME NEW i \in 1..n PROVE Goes(i) = ReadParam(Goes(i - 1))
  <2>1. i \in 0..n /\ i - 1 \in 0..n
    BY <1>0
  <2>2. rest[i - 1] = EncodeParam(body[i]) ++ rest[i] /\ IsList(rest[i])
    BY <1>0, <1>1, <1>2, <1>3, <2>1 DEF Rests
  <2>3. PICK pair, x, items : pair = body[i] /\ x = rest[i] ++ one /\ items = SubSeq(body, 1, i - 1)
    OBVIOUS
  <2>4. IsList(x) /\ rest[i - 1] ++ one = EncodeParam(pair) ++ x
    BY <1>4, <2>2, <2>3, Joined, JoinedTwice, ParamIsList
  <2>5. pair = <<pair[1], pair[2]>> /\ pair[1] # NoName
    BY <1>0, <2>3
  <2>6. ReadParam(Reader(EncodeParam(pair) ++ x, items, TRUE)) = Reader(x, Append(items, pair), TRUE)
    BY ONLY <2>4, <2>5, ReadsParam
  <2>7. Append(SubSeq(body, 1, i - 1), body[i]) = SubSeq(body, 1, i)
    BY OneMore
  <2> QED BY <2>3, <2>4, <2>6, <2>7
<1>11. ASSUME NEW i \in 1..m PROVE h[i - 1].ok /\ h[i] = ReadParam(h[i - 1])
  <2>1. i \in 0..m /\ i - 1 \in 0..m
    BY <1>6
  <2>2. ReadParam(Stays) = Stays
    BY <1>1, StaysAtEnd
  <2>3. h[i - 1].ok
    BY <1>8, <2>1 DEF Reader
  <2>4. h[i] = ReadParam(h[i - 1])
    <3> HIDE DEF Goes, Stays
    <3>1. CASE i <= n
      <4>1. i \in 1..n /\ i - 1 <= n
        BY <1>0, <1>6, <3>1
      <4> QED BY <1>8, <1>10, <2>1, <3>1, <4>1
    <3>2. CASE ~(i <= n) /\ i - 1 = n
      BY <1>0, <1>8, <1>9, <2>1, <2>2, <3>2
    <3>3. CASE ~(i <= n) /\ ~(i - 1 = n)
      <4>1. ~(i - 1 <= n)
        BY <1>0, <1>6, <3>3
      <4> QED BY <1>8, <2>1, <2>2, <3>3, <4>1
    <3> QED BY <3>1, <3>2, <3>3
  <2> QED BY <2>3, <2>4
<1>12. Repeat(m, ReadParam, h[0]) = h[m]
  BY <1>6, <1>8, <1>11, RunOfParams
<1>13. h[0] = Reader(payload, <<>>, TRUE)
  <2>1. h[0] = Goes(0)
    BY <1>0, <1>6, <1>8
  <2>2. rest[0] = Flatten(EncodeParam, body)
    BY <1>2, <1>3 DEF Rests
  <2> QED BY <1>1, <2>1, <2>2, OneMore
<1>14. h[m] = Stays
  <2> HIDE DEF Goes, Stays
  <2>1. CASE m <= n
    <3>1. m = n
      BY <1>0, <1>6, <2>1
    <3> QED BY <1>6, <1>8, <1>9, <2>1, <3>1
  <2>2. CASE ~(m <= n)
    BY <1>6, <1>8, <2>2
  <2> QED BY <2>1, <2>2
<1>15. ReadParams(Reader(payload, <<>>, TRUE)) = Repeat(m, ReadParam, Reader(payload, <<>>, TRUE))
  BY <1>5 DEF ReadParams, Reader
<1> QED BY <1>1, <1>2, <1>3, <1>12, <1>13, <1>14, <1>15

-----------------------------------------------------------------------------
(* Whole messages of PostgreSQL *)

\* The two strings of a Parse.
LEMMA ReadsTwoStrings ==
    ASSUME NEW a, NEW b, NEW x, IsList(x)
    PROVE  Repeat(2, ReadString, Reader(String(a) ++ (String(b) ++ x), <<>>, TRUE))
             = Reader(x, <<a, b>>, TRUE)
<1>1. PICK mid, one, r, q, t : /\ mid = String(b) ++ x
                               /\ one = Append(<<>>, a)
                               /\ r = Reader(String(a) ++ mid, <<>>, TRUE)
                               /\ q = Reader(mid, one, TRUE)
                               /\ t = Reader(x, Append(one, b), TRUE)
  OBVIOUS
<1>8. PICK h : h = [i \in 0..2 |-> IF i = 0 THEN r ELSE IF i = 1 THEN q ELSE t]
  OBVIOUS
<1>2. h = [i \in 0..2 |-> h[i]] /\ h[0] = r /\ h[1] = q /\ h[2] = t
  BY <1>8
<1>3. IsList(mid)
  <2>1. IsList(String(b))
    BY TwoIs DEF String, Two
  <2> QED BY <1>1, <2>1, Joined
<1>4. h[1] = ReadString(h[0]) /\ h[2] = ReadString(h[1])
  <2>1. ReadString(r) = q
    <3>1. ReadString(Reader(String(a) ++ mid, <<>>, TRUE)) = Reader(mid, Append(<<>>, a), TRUE)
      BY <1>3, ReadsString
    <3> QED BY <1>1, <3>1
  <2>2. ReadString(q) = t
    <3>1. ReadString(Reader(String(b) ++ x, one, TRUE)) = Reader(x, Append(one, b), TRUE)
      BY ReadsString
    <3> QED BY <1>1, <3>1
  <2> QED BY <1>2, <2>1, <2>2
<1>5. h[0].ok /\ h[1].ok
  BY <1>1, <1>2 DEF Reader
<1>6. ASSUME NEW i \in 1..2 PROVE h[i - 1].ok /\ h[i] = ReadString(h[i - 1])
  <2>1. (i = 1 /\ i - 1 = 0) \/ (i = 2 /\ i - 1 = 1)
    OBVIOUS
  <2> QED BY <1>4, <1>5, <2>1
<1>7. Repeat(2, ReadString, h[0]) = h[2]
  BY <1>2, <1>6, RunOfStrings
<1> QED BY <1>1, <1>2, <1>7, PairIs
LEMMA FrameIs ==
    ASSUME NEW type, NEW payload, IsList(payload)
    PROVE  /\ IsList(Frame(type, payload)) /\ Len(Frame(type, payload)) = Len(payload) + 2
           /\ Frame(type, payload)[2] = Unit("len", Len(payload) + 1)
<1>1. Frame(type, payload) = Two(Unit("type", type), Unit("len", Len(payload) + 1)) ++ payload
  BY DEF Frame, Two, ++
<1> QED BY <1>1, TwoBefore

LEMMA FrameWhole ==
    ASSUME NEW type, NEW payload, NEW e, IsList(payload), IsList(e), Len(payload) + 1 <= MaxFrame
    PROVE  DecodeRegular(Frame(type, payload) ++ e) = ReadPayload(type, payload, e)
<1>1. PICK u, v, two, n, after, got :
         /\ u = Unit("type", type) /\ v = Unit("len", Len(payload) + 1)
         /\ two = Two(u, v) /\ n = Len(payload)
         /\ after = payload ++ e /\ got = Frame(type, payload) ++ e
  OBVIOUS
<1>2. /\ IsList(two) /\ Len(two) = 2 /\ n \in Nat /\ Len(e) \in Nat
      /\ u[2] = type /\ v[2] = n + 1
  BY <1>1, TwoIs, ListIs, UnitIs
<1>3. IsList(after)
  BY <1>1, Joined
<1>4. got = two ++ (payload ++ e)
  <2>1. Frame(type, payload) = two ++ payload
    BY <1>1 DEF Frame, Two, ++
  <2> QED BY <1>1, <1>2, <2>1, JoinedTwice
<1>5. got[1] = u /\ got[2] = v
  <2>1. got = Two(u, v) ++ after
    BY <1>1, <1>4
  <2> QED BY <1>3, <2>1, TwoBefore
<1>6. /\ Len(got) = (2 + n) + Len(e)
      /\ SubSeq(got, 2 + 1, 2 + n) = payload
      /\ SubSeq(got, (2 + n) + 1, Len(got)) = e
  <2>1. IsList(two) /\ IsList(payload) /\ IsList(e)
    BY <1>2
  <2>2. LET all == two ++ (payload ++ e)
        IN /\ IsList(all) /\ Len(all) = (Len(two) + Len(payload)) + Len(e)
           /\ SubSeq(all, Len(two) + 1, Len(two) + Len(payload)) = payload
           /\ SubSeq(all, (Len(two) + Len(payload)) + 1, Len(all)) = e
    BY ONLY <2>1, MiddleOf
  <2> QED BY <1>1, <1>2, <1>4, <2>2
<1>7. PICK length : length = n + 1
  OBVIOUS
<1>8. /\ ~(Len(got) < 2) /\ length \in 1..MaxFrame /\ ~(Len(got) < length + 1)
      /\ length + 1 = 2 + n /\ length + 2 = (2 + n) + 1 /\ 2 + 1 = 3
  BY <1>1, <1>2, <1>6, <1>7, FramesAssumption
<1>9. SubSeq(got, 3, length + 1) = payload /\ SubSeq(got, length + 2, Len(got)) = e
  BY <1>6, <1>8
<1>10. DecodeRegular(got) = ReadPayload(type, payload, e)
  BY <1>2, <1>5, <1>7, <1>8, <1>9 DEF DecodeRegular
<1> QED BY <1>1, <1>10

\* Of a part of a frame nothing is made.
LEMMA FramePart ==
    ASSUME NEW type, NEW payload, NEW b, NEW e, IsList(payload), IsList(b), IsList(e),
           Frame(type, payload) = b ++ e, e # <<>>, Len(payload) + 1 <= MaxFrame
    PROVE  DecodeRegular(b).status = "more"
<1>1. PICK all, n : all = Frame(type, payload) /\ n = Len(payload)
  OBVIOUS
<1>2. IsList(all) /\ Len(all) = n + 2 /\ all[2] = Unit("len", n + 1)
  BY <1>1, FrameIs
<1>3. n \in Nat /\ Len(b) \in Nat /\ Len(e) \in Nat /\ Len(e) # 0
  BY <1>1, ListIs, NoList
<1>4. Len(all) = Len(b) + Len(e) /\ \A i \in 1..Len(b) : all[i] = b[i]
  BY <1>1, Joined
<1>5. Len(b) < n + 2
  BY <1>2, <1>3, <1>4
<1>6. CASE Len(b) < 2
  BY <1>6 DEF DecodeRegular, More, Result
<1>7. CASE ~(Len(b) < 2)
  <2>1. b[2] = Unit("len", n + 1)
    BY <1>2, <1>3, <1>4, <1>7
  <2>2. PICK length : length = b[2][2]
    OBVIOUS
  <2>3. length = n + 1
    BY <2>1, <2>2, UnitIs
  <2>4. length \in 1..MaxFrame /\ Len(b) < length + 1 /\ Len(b) >= 2
    BY <1>1, <1>3, <1>5, <1>7, <2>3, FramesAssumption
  <2>5. DecodeRegular(b) = More(b)
    BY <1>7, <2>2, <2>4 DEF DecodeRegular
  <2> QED BY <2>5 DEF More, Result
<1> QED BY <1>6, <1>7
\* What the payload of a message is, by its kind; a startup message has no type.
PgType(kind) == CASE kind = "RowDescription" -> "T" [] kind = "DataRow" -> "D"
                  [] kind = "Query" -> "Q" [] kind = "Parse" -> "P" [] OTHER -> kind
PgPayload(kind, body) ==
    CASE kind = "RowDescription" -> One(Unit("count", Len(body))) ++ Flatten(EncodeField, body)
      [] kind = "DataRow" -> One(Unit("count", Len(body))) ++ Flatten(EncodeValue, body)
      [] kind = "Query" -> String(body)
      [] kind = "Parse" -> String(body.statement) ++ (String(body.query)
                              ++ (One(Unit("count", Len(body.types))) ++ body.types))
      [] OTHER -> body
Early == {"SSLRequest", "Startup"}
Later == {"RowDescription", "DataRow", "Query", "Parse", "Z", "C", "E", "B", "S"}

LEMMA PayloadRead ==
    ASSUME NEW m, NEW e, IsList(e), m.kind \in Later, IsPgMessage(m)
    PROVE  /\ IsList(PgPayload(m.kind, m.body))
           /\ PgEncode(m) = Frame(PgType(m.kind), PgPayload(m.kind, m.body))
           /\ ReadPayload(PgType(m.kind), PgPayload(m.kind, m.body), e) = Result("message", m, e)
<1>1. PICK kind, body : kind = m.kind /\ body = m.body
  OBVIOUS
<1>2. m = PgMessage(kind, body) /\ kind \in Later
  BY <1>1 DEF IsPgMessage
<1> DEFINE payload == PgPayload(kind, body)
           Goal == /\ IsList(payload) /\ PgEncode(m) = Frame(PgType(kind), payload)
                   /\ ReadPayload(PgType(kind), payload, e) = Result("message", m, e)
<1>3. ASSUME kind = "RowDescription" PROVE Goal
  <2>1. PICK count, flat : count = Unit("count", Len(body)) /\ flat = Flatten(EncodeField, body)
    OBVIOUS
  <2>2. /\ IsList(body)
        /\ \A i \in DOMAIN body : body[i] = Field(body[i].name, body[i].oid, body[i].number)
    BY <1>1, <1>3 DEF IsPgMessage
  <2>3. IsList(flat) /\ Repeat(Len(body), ReadField, Reader(flat, <<>>, TRUE)) = Reader(<<>>, body, TRUE)
    BY <2>1, <2>2, ReadsFields
  <2>4. payload = One(count) ++ flat
    BY <1>3, <2>1 DEF PgPayload
  <2>5. IsList(payload) /\ payload # <<>> /\ Head(payload) = count /\ Tail(payload) = flat
    BY <2>3, <2>4, FirstOf
  <2>6. PgEncode(m) = Frame("T", payload)
    BY <1>1, <1>3, <2>1, <2>4 DEF PgEncode, One, ++
  <2>7. Counted(payload, ReadField) = Reader(<<>>, body, TRUE)
    BY <2>1, <2>3, <2>5, UnitIs DEF Counted
  <2>8. ReadPayload("T", payload, e) = Result("message", m, e)
    BY <1>2, <1>3, <2>7 DEF ReadPayload, Read, Reader
  <2>9. PgType(kind) = "T"
    BY <1>3 DEF PgType
  <2> HIDE DEF payload
  <2> QED BY <2>5, <2>6, <2>8, <2>9
<1>4. ASSUME kind = "DataRow" PROVE Goal
  <2>1. PICK count, flat : count = Unit("count", Len(body)) /\ flat = Flatten(EncodeValue, body)
    OBVIOUS
  <2>2. IsList(body) /\ \A i \in DOMAIN body : IsCell(body[i])
    BY <1>1, <1>4 DEF IsPgMessage
  <2>3. IsList(flat) /\ Repeat(Len(body), ReadValue, Reader(flat, <<>>, TRUE)) = Reader(<<>>, body, TRUE)
    BY <2>1, <2>2, ReadsValues
  <2>4. payload = One(count) ++ flat
    BY <1>4, <2>1 DEF PgPayload
  <2>5. IsList(payload) /\ payload # <<>> /\ Head(payload) = count /\ Tail(payload) = flat
    BY <2>3, <2>4, FirstOf
  <2>6. PgEncode(m) = Frame("D", payload)
    BY <1>1, <1>4, <2>1, <2>4 DEF PgEncode, One, ++
  <2>7. Counted(payload, ReadValue) = Reader(<<>>, body, TRUE)
    BY <2>1, <2>3, <2>5, UnitIs DEF Counted
  <2>8. ReadPayload("D", payload, e) = Result("message", m, e)
    BY <1>2, <1>4, <2>7 DEF ReadPayload, Read, Reader
  <2>9. PgType(kind) = "D"
    BY <1>4 DEF PgType
  <2> HIDE DEF payload
  <2> QED BY <2>5, <2>6, <2>8, <2>9
<1>5. ASSUME kind = "Query" PROVE Goal
  <2>1. payload = String(body) /\ PgType(kind) = "Q"
    BY <1>5 DEF PgPayload, PgType
  <2>2. PgEncode(m) = Frame("Q", payload)
    BY <1>1, <1>5, <2>1 DEF PgEncode
  <2>3. IsList(payload)
    BY <2>1, TwoIs DEF String, Two
  <2>4. PICK query : query = ReadString(Reader(payload, <<>>, TRUE))
    OBVIOUS
  <2>5. query = Reader(<<>>, Append(<<>>, body), TRUE)
    <3>1. payload = String(body) ++ <<>>
      BY <2>1, <2>3, NoList
    <3> QED BY <2>4, <3>1, NoList, ReadsString
  <2>6. query.ok /\ query.items[1] = body
    <3>1. Append(<<>>, body)[0 + 1] = body
      BY NoList, Appended
    <3> QED BY <2>5, <3>1 DEF Reader
  <2>7. PICK one : one = [query EXCEPT !.items = query.items[1]]
    OBVIOUS
  <2>8. one.ok /\ one.items = body
    BY <2>5, <2>6, <2>7 DEF Reader
  <2>9. ReadPayload("Q", payload, e) = Result("message", PgMessage("Query", one.items), e)
    BY <2>4, <2>6, <2>7, <2>8 DEF ReadPayload, Read
  <2> HIDE DEF payload
  <2> QED BY <1>2, <1>5, <2>1, <2>2, <2>3, <2>8, <2>9
<1>6. ASSUME kind = "Parse" PROVE Goal
  <2>1. PICK count, types, s, q, last, mid :
           /\ count = Unit("count", Len(body.types)) /\ types = body.types
           /\ s = String(body.statement) /\ q = String(body.query)
           /\ last = One(count) ++ types /\ mid = q ++ last
    OBVIOUS
  <2>2. /\ body = [statement |-> body.statement, query |-> body.query, types |-> types]
        /\ IsList(types)
    BY <1>1, <1>6, <2>1 DEF IsPgMessage
  <2>3. payload = s ++ mid /\ PgType(kind) = "P"
    BY <1>6, <2>1 DEF PgPayload, PgType
  <2>4. IsList(s) /\ IsList(q) /\ IsList(One(count))
    BY <2>1, TwoIs, Singled DEF String, Two
  <2>5. /\ IsList(last) /\ last # <<>> /\ Head(last) = count /\ Len(last) = Len(types) + 1
        /\ SubSeq(last, 2, Len(types) + 1) = types
    BY <2>1, <2>2, FirstOf
  <2>6. IsList(mid) /\ IsList(payload)
    BY <2>1, <2>3, <2>4, <2>5, Joined
  <2>7. PgEncode(m) = Frame("P", payload)
    <3>1. PgEncode(m) = Frame("P", ((s ++ q) ++ One(count)) ++ types)
      BY <1>1, <1>6, <2>1 DEF PgEncode, One, ++
    <3>2. IsList(s ++ q)
      BY <2>4, Joined
    <3>3. ((s ++ q) ++ One(count)) ++ types = (s ++ q) ++ last
      BY <2>1, <2>2, <2>4, <3>2, JoinedTwice
    <3>4. (s ++ q) ++ last = s ++ mid
      BY <2>1, <2>4, <2>5, JoinedTwice
    <3> QED BY <2>3, <3>1, <3>3, <3>4
  <2>8. PICK strings : strings = Repeat(2, ReadString, Reader(payload, <<>>, TRUE))
    OBVIOUS
  <2>9. strings = Reader(last, <<body.statement, body.query>>, TRUE)
    BY <2>1, <2>3, <2>5, <2>8, ReadsTwoStrings
  <2>10. /\ strings.ok /\ strings.rest = last
         /\ strings.items[1] = body.statement /\ strings.items[2] = body.query
    <3>1. PICK pair : pair = <<body.statement, body.query>>
      OBVIOUS
    <3>2. pair[1] = body.statement /\ pair[2] = body.query
      BY <3>1
    <3> QED BY <2>9, <3>1, <3>2 DEF Reader
  <2>11. PICK n : n = Len(types)
    OBVIOUS
  <2>12. n \in Nat /\ count[2] = n /\ ~(Len(last) <= n)
    BY <2>1, <2>2, <2>5, <2>11, ListIs, UnitIs
  <2>13. ReadParse(payload) = Reader(<<>>, body, TRUE)
    BY <2>2, <2>5, <2>8, <2>10, <2>11, <2>12 DEF ReadParse
  <2>14. ReadPayload("P", payload, e) = Result("message", m, e)
    BY <1>2, <1>6, <2>13 DEF ReadPayload, Read, Reader
  <2> HIDE DEF payload
  <2> QED BY <2>3, <2>6, <2>7, <2>14
<1>7. ASSUME kind \in {"Z", "C", "E", "B", "S"} PROVE Goal
  <2>1. payload = body /\ PgType(kind) = kind
    BY <1>7 DEF PgPayload, PgType
  <2>2. IsList(body)
    BY <1>1, <1>7 DEF IsPgMessage
  <2>3. PgEncode(m) = Frame(kind, body)
    BY <1>1, <1>7 DEF PgEncode
  <2>4. ReadPayload(kind, body, e) = Result("message", m, e)
    BY <1>2, <1>7 DEF ReadPayload
  <2> HIDE DEF payload
  <2> QED BY <2>1, <2>2, <2>3, <2>4
<1>8. Goal
  <2> HIDE DEF Goal
  <2>1. \/ kind = "RowDescription" \/ kind = "DataRow" \/ kind = "Query" \/ kind = "Parse"
        \/ kind \in {"Z", "C", "E", "B", "S"}
    BY <1>2 DEF Later
  <2> QED BY <1>3, <1>4, <1>5, <1>6, <1>7, <2>1 DEF Goal
<1> QED BY <1>1, <1>8
\* A message before the first that has a type.
EarlyVersion(m) == Unit("version", IF m.kind = "SSLRequest" THEN "ssl" ELSE "3.0")
EarlyPayload(m) == IF m.kind = "SSLRequest" THEN <<>> ELSE Flatten(EncodeParam, m.body) ++ One(Nul)
EarlyIs(m) ==
    /\ IsList(EarlyPayload(m))
    /\ PgEncode(m) = Two(Unit("len", Len(EarlyPayload(m)) + 2), EarlyVersion(m)) ++ EarlyPayload(m)
    /\ Len(EarlyPayload(m)) + 2 \in 2..MaxStartup

LEMMA EarlyEncoded ==
    ASSUME NEW m, m.kind \in Early, IsPgMessage(m)
    PROVE  EarlyIs(m)
<1>1. PICK body, mid, n, u, v : /\ body = m.body /\ mid = EarlyPayload(m) /\ n = Len(mid)
                                /\ u = Unit("len", n + 2) /\ v = EarlyVersion(m)
  OBVIOUS
<1>2. IsList(mid) /\ PgEncode(m) = Two(u, v) ++ mid
  <2>1. CASE m.kind = "SSLRequest"
    <3>1. mid = <<>> /\ n = 0
      BY <1>1, <2>1, NoList DEF EarlyPayload
    <3>2. PgEncode(m) = Two(u, v)
      <4>1. n + 2 = 2
        BY <3>1
      <4> QED BY <1>1, <2>1, <4>1 DEF PgEncode, EarlyVersion, Two
    <3> QED BY <3>1, <3>2, NoList, TwoIs
  <2>2. CASE m.kind = "Startup"
    <3>1. /\ IsList(body)
          /\ \A i \in DOMAIN body : body[i] = <<body[i][1], body[i][2]>> /\ body[i][1] # NoName
      BY <1>1, <2>2 DEF IsPgMessage
    <3>2. PICK flat, one : flat = Flatten(EncodeParam, body) /\ one = One(Nul)
      OBVIOUS
    <3>3. IsList(flat) /\ IsList(one) /\ Len(one) = 1
      BY <3>1, <3>2, ReadsParams, Singled
    <3>4. mid = flat ++ one
      BY <1>1, <2>2, <3>2 DEF EarlyPayload
    <3>5. IsList(mid) /\ Len(mid) = Len(flat) + 1 /\ Len(flat) \in Nat
      <4>1. IsList(flat ++ one) /\ Len(flat ++ one) = Len(flat) + Len(one)
        BY <3>3, Joined
      <4> QED BY <3>3, <3>4, <4>1, ListIs
    <3>6. PgEncode(m) = (Two(Unit("len", Len(flat) + 3), v) ++ flat) ++ one
      <4>1. flat = Flatten(LAMBDA pair : String(pair[1]) \o String(pair[2]), body)
        BY <3>2 DEF Flatten, EncodeParam, ++
      <4>2. v = Unit("version", "3.0")
        BY <1>1, <2>2 DEF EarlyVersion
      <4> QED BY <1>1, <2>2, <3>2, <4>1, <4>2 DEF PgEncode, One, Two, ++
    <3>7. Len(flat) + 3 = n + 2
      BY <1>1, <3>5
    <3>8. (Two(u, v) ++ flat) ++ one = Two(u, v) ++ mid
      BY <3>3, <3>4, JoinedTwice, TwoIs
    <3> QED BY <1>1, <3>5, <3>6, <3>7, <3>8
  <2> QED BY <2>1, <2>2 DEF Early
<1>3. n + 2 \in 2..MaxStartup
  <2>1. Len(PgEncode(m)) = n + 2 /\ n \in Nat
    BY <1>1, <1>2, TwoBefore, ListIs
  <2>2. Len(PgEncode(m)) <= MaxStartup
    BY DEF IsPgMessage, Early
  <2> QED BY <2>1, <2>2, FramesAssumption
<1> QED BY <1>1, <1>2, <1>3 DEF EarlyIs

LEMMA EarlyWhole ==
    ASSUME NEW m, NEW e, IsList(e), m.kind \in Early, IsPgMessage(m)
    PROVE  DecodeStartup(PgEncode(m) ++ e) = Result("message", m, e)
<1>1. PICK mid, n, u, v, two, got, after :
         /\ mid = EarlyPayload(m) /\ n = Len(mid)
         /\ u = Unit("len", n + 2) /\ v = EarlyVersion(m)
         /\ two = Two(u, v) /\ got = PgEncode(m) ++ e /\ after = mid ++ e
  OBVIOUS
<1>2. IsList(mid) /\ PgEncode(m) = two ++ mid /\ n + 2 \in 2..MaxStartup
  BY <1>1, EarlyEncoded DEF EarlyIs
<1>3. IsList(two) /\ Len(two) = 2 /\ n \in Nat /\ Len(e) \in Nat /\ u[2] = n + 2
  BY <1>1, <1>2, TwoIs, ListIs, UnitIs
<1>4. got = two ++ (mid ++ e) /\ IsList(after)
  BY <1>1, <1>2, <1>3, JoinedTwice, Joined
<1>5. got[1] = u /\ got[2] = v /\ got # <<>>
  <2>1. got = Two(u, v) ++ after
    BY <1>1, <1>4
  <2> QED BY <1>4, <2>1, TwoBefore
<1>6. /\ Len(got) = (2 + n) + Len(e)
      /\ SubSeq(got, 2 + 1, 2 + n) = mid
      /\ SubSeq(got, (2 + n) + 1, Len(got)) = e
  <2>1. IsList(two) /\ IsList(mid) /\ IsList(e)
    BY <1>2, <1>3
  <2>2. LET all == two ++ (mid ++ e)
        IN /\ IsList(all) /\ Len(all) = (Len(two) + Len(mid)) + Len(e)
           /\ SubSeq(all, Len(two) + 1, Len(two) + Len(mid)) = mid
           /\ SubSeq(all, (Len(two) + Len(mid)) + 1, Len(all)) = e
    BY ONLY <2>1, MiddleOf
  <2> QED BY <1>1, <1>3, <1>4, <2>2
<1>7. PICK length : length = n + 2
  OBVIOUS
<1>8. length \in 2..MaxStartup /\ ~(Len(got) < length) /\ length = 2 + n /\ 2 + 1 = 3
  BY <1>2, <1>3, <1>6, <1>7
<1>9. SubSeq(got, 3, length) = mid /\ SubSeq(got, length + 1, Len(got)) = e
  BY <1>6, <1>8
<1>10. DecodeStartup(got) = IF v = Unit("version", "ssl")
                            THEN Result("message", PgMessage("SSLRequest", <<>>), e)
                            ELSE Read("Startup", ReadParams(Reader(mid, <<>>, TRUE)), e)
  BY <1>3, <1>5, <1>7, <1>8, <1>9 DEF DecodeStartup
<1>11. m = PgMessage(m.kind, m.body)
  BY DEF IsPgMessage
<1>12. CASE m.kind = "SSLRequest"
  <2>1. m.body = <<>>
    BY <1>12 DEF IsPgMessage
  <2>2. v = Unit("version", "ssl")
    BY <1>1, <1>12 DEF EarlyVersion
  <2> QED BY <1>1, <1>10, <1>11, <1>12, <2>1, <2>2
<1>13. CASE m.kind = "Startup"
  <2>1. /\ IsList(m.body)
        /\ \A i \in DOMAIN m.body : m.body[i] = <<m.body[i][1], m.body[i][2]>> /\ m.body[i][1] # NoName
    BY <1>13 DEF IsPgMessage
  <2>2. v # Unit("version", "ssl")
    <3>1. v[2] = "3.0"
      BY <1>1, <1>13, UnitIs DEF EarlyVersion
    <3>2. Unit("version", "ssl")[2] = "ssl"
      BY UnitIs
    <3> QED BY <3>1, <3>2
  <2>3. mid = Flatten(EncodeParam, m.body) ++ One(Nul)
    BY <1>1, <1>13 DEF EarlyPayload
  <2>4. PICK body, all : body = m.body /\ all = Flatten(EncodeParam, m.body)
    OBVIOUS
  <2>5. ReadParams(Reader(mid, <<>>, TRUE)) = Reader(One(Nul), m.body, TRUE)
    BY <2>1, <2>3, ReadsParams
  <2>6. Read("Startup", Reader(One(Nul), m.body, TRUE), e) = Result("message", m, e)
    BY <1>11, <1>13 DEF Read, Reader
  <2> QED BY <1>1, <1>10, <2>2, <2>5, <2>6
<1> QED BY <1>12, <1>13 DEF Early

LEMMA EarlyPart ==
    ASSUME NEW m, NEW b, NEW e, IsList(b), IsList(e), m.kind \in Early, IsPgMessage(m),
           PgEncode(m) = b ++ e, e # <<>>
    PROVE  DecodeStartup(b).status = "more"
<1>1. PICK mid, n, all : mid = EarlyPayload(m) /\ n = Len(mid) /\ all = PgEncode(m)
  OBVIOUS
<1>2. /\ IsList(mid) /\ n + 2 \in 2..MaxStartup
      /\ all = Two(Unit("len", n + 2), EarlyVersion(m)) ++ mid
  BY <1>1, EarlyEncoded DEF EarlyIs
<1>3. Len(all) = n + 2 /\ all[1] = Unit("len", n + 2)
  BY <1>1, <1>2, TwoBefore
<1>4. n \in Nat /\ Len(b) \in Nat /\ Len(e) \in Nat /\ Len(e) # 0
  BY <1>1, <1>2, ListIs, NoList
<1>5. Len(all) = Len(b) + Len(e) /\ \A i \in 1..Len(b) : all[i] = b[i]
  BY <1>1, Joined
<1>6. CASE b = <<>>
  BY <1>6 DEF DecodeStartup, More, Result
<1>7. CASE b # <<>>
  <2>1. Len(b) >= 1
    BY <1>4, <1>7, NoList
  <2>2. b[1] = Unit("len", n + 2)
    BY <1>3, <1>4, <1>5, <2>1
  <2>3. PICK length : length = b[1][2]
    OBVIOUS
  <2>4. length = n + 2
    BY <2>2, <2>3, UnitIs
  <2>5. length \in 2..MaxStartup /\ Len(b) < length
    BY <1>2, <1>3, <1>4, <1>5, <2>4
  <2>6. DecodeStartup(b) = More(b)
    BY <1>7, <2>3, <2>5 DEF DecodeStartup
  <2> QED BY <2>6 DEF More, Result
<1> QED BY <1>6, <1>7

\* What PgEncode makes of a message PgDecode takes for that message, and for nothing as
\* long as a part of it is missing.
LEMMA PgRead ==
    ASSUME NEW m, m.kind \in Early \cup Later, IsPgMessage(m)
    PROVE  /\ IsList(PgEncode(m)) /\ PgEncode(m) # <<>>
           /\ \A e : IsList(e) =>
                 PgDecode(m.kind \in Early, PgEncode(m) ++ e) = Result("message", m, e)
           /\ \A b, e : IsList(b) /\ IsList(e) /\ PgEncode(m) = b ++ e /\ e # <<>> =>
                 PgDecode(m.kind \in Early, b).status = "more"
<1>1. CASE m.kind \in Early
  <2>1. IsList(PgEncode(m)) /\ PgEncode(m) # <<>>
    BY <1>1, EarlyEncoded, TwoBefore DEF EarlyIs
  <2> QED BY <1>1, <2>1, EarlyWhole, EarlyPart DEF PgDecode
<1>2. CASE m.kind \in Later
  <2>0. m.kind \notin Early
    BY <1>2 DEF Early, Later
  <2>1. PICK type, payload : type = PgType(m.kind) /\ payload = PgPayload(m.kind, m.body)
    OBVIOUS
  <2>2. IsList(payload) /\ PgEncode(m) = Frame(type, payload)
    BY <1>2, <2>1, NoList, PayloadRead
  <2>3. IsList(PgEncode(m)) /\ Len(PgEncode(m)) = Len(payload) + 2 /\ Len(payload) \in Nat
    BY <2>2, FrameIs, ListIs
  <2>4. Len(payload) + 1 <= MaxFrame
    <3>1. Len(PgEncode(m)) <= MaxFrame + 1
      BY <2>0 DEF IsPgMessage, Early
    <3> QED BY <2>3, <3>1, FramesAssumption
  <2>5. PgEncode(m) # <<>>
    BY <2>3, NoList
  <2>6. ASSUME NEW e, IsList(e) PROVE DecodeRegular(PgEncode(m) ++ e) = Result("message", m, e)
    <3>1. ReadPayload(type, payload, e) = Result("message", m, e)
      BY <1>2, <2>1, <2>6, PayloadRead
    <3> QED BY <2>2, <2>4, <2>6, <3>1, FrameWhole
  <2>7. ASSUME NEW b, NEW e, IsList(b), IsList(e), PgEncode(m) = b ++ e, e # <<>>
        PROVE  DecodeRegular(b).status = "more"
    <3>1. Frame(type, payload) = b ++ e
      BY <2>2, <2>7
    <3> QED BY <2>2, <2>4, <2>7, <3>1, FramePart
  <2> QED BY <2>0, <2>3, <2>5, <2>6, <2>7 DEF PgDecode
<1> QED BY <1>1, <1>2
-----------------------------------------------------------------------------
(* What MySqlEncode packs MySqlCodec unpacks *)

LEMMA DivIs ==
    ASSUME NEW a \in Nat, NEW b \in Nat \ {0}
    PROVE  a \div b \in Nat /\ (a \div b) * b <= a /\ a < (a \div b) * b + b
<1>1. a \div b \in Nat
  BY SMTT(30)
<1>2. (a \div b) * b <= a
  BY SMTT(30)
<1>3. a < (a \div b) * b + b
  BY SMTT(30)
<1> QED BY <1>1, <1>2, <1>3

LEMMA TimesIs ==
    ASSUME NEW i \in Nat, NEW j \in Nat, NEW b \in Nat, i <= j
    PROVE  /\ i * b \in Nat /\ i * b <= j * b
           /\ (i + 1) * b = i * b + b
<1>1. i * b \in Nat
  BY SMTT(30)
<1>2. i * b <= j * b
  BY SMTT(30)
<1>3. (i + 1) * b = i * b + b
  BY SMTT(30)
<1> QED BY <1>1, <1>2, <1>3

\* The beginning of a list, and what follows it up to a place.
LEMMA FirstsMore ==
    ASSUME NEW s, IsList(s), NEW a \in Nat, NEW b \in Nat, a <= b, b <= Len(s)
    PROVE  SubSeq(s, 1, a) ++ SubSeq(s, a + 1, b) = SubSeq(s, 1, b)
<1>0. Len(s) \in Nat
  BY ListIs
<1>1. PICK x, y, z : x = SubSeq(s, 1, a) /\ y = SubSeq(s, a + 1, b) /\ z = SubSeq(s, 1, b)
  OBVIOUS
<1>2. IsList(x) /\ Len(x) = a /\ \A i \in 1..a : x[i] = s[i]
  <2>1. /\ IsList(x) /\ Len(x) = (a - 1) + 1
        /\ \A i \in 1..((a - 1) + 1) : x[i] = s[(1 + i) - 1]
    BY <1>0, <1>1, PartOf
  <2>2. (a - 1) + 1 = a /\ \A i \in 1..a : (1 + i) - 1 = i
    OBVIOUS
  <2> QED BY <2>1, <2>2
<1>3. IsList(z) /\ Len(z) = b /\ \A i \in 1..b : z[i] = s[i]
  <2>1. /\ IsList(z) /\ Len(z) = (b - 1) + 1
        /\ \A i \in 1..((b - 1) + 1) : z[i] = s[(1 + i) - 1]
    BY <1>0, <1>1, PartOf
  <2>2. (b - 1) + 1 = b /\ \A i \in 1..b : (1 + i) - 1 = i
    OBVIOUS
  <2> QED BY <2>1, <2>2
<1>4. IsList(y) /\ Len(y) = b - a /\ \A i \in 1..(b - a) : y[i] = s[a + i]
  <2>1. /\ IsList(y) /\ Len(y) = (b - (a + 1)) + 1
        /\ \A i \in 1..((b - (a + 1)) + 1) : y[i] = s[((a + 1) + i) - 1]
    BY <1>0, <1>1, PartOf
  <2>2. (b - (a + 1)) + 1 = b - a /\ \A i \in 1..(b - a) : ((a + 1) + i) - 1 = a + i
    OBVIOUS
  <2> QED BY <2>1, <2>2
<1>5. PICK all : all = x ++ y
  OBVIOUS
<1>6. /\ IsList(all) /\ Len(all) = Len(x) + Len(y)
      /\ \A i \in 1..Len(x) : all[i] = x[i]
      /\ \A i \in 1..Len(y) : all[Len(x) + i] = y[i]
  <2>1. IsList(x) /\ IsList(y)
    BY <1>2, <1>4
  <2>2. /\ IsList(x ++ y) /\ Len(x ++ y) = Len(x) + Len(y)
        /\ \A i \in 1..Len(x) : (x ++ y)[i] = x[i]
        /\ \A i \in 1..Len(y) : (x ++ y)[Len(x) + i] = y[i]
    BY ONLY <2>1, Joined
  <2> QED BY <1>5, <2>2
<1>7. Len(all) = b
  BY <1>2, <1>4, <1>6
<1>8. ASSUME NEW i \in 1..b PROVE all[i] = z[i]
  <2>1. CASE i <= a
    BY <1>2, <1>3, <1>6, <2>1
  <2>2. CASE ~(i <= a)
    <3>1. i - a \in 1..(b - a) /\ a + (i - a) = i
      BY <2>2
    <3>2. all[a + (i - a)] = y[i - a] /\ y[i - a] = s[a + (i - a)]
      BY <1>2, <1>4, <1>6, <3>1
    <3> QED BY <1>3, <3>1, <3>2
  <2> QED BY <2>1, <2>2
<1> QED BY <1>1, <1>3, <1>5, <1>6, <1>7, <1>8, SameList

\* A map that gives every element a list of one.
LEMMA FlattenOnes ==
    ASSUME NEW n \in Nat, NEW f, NEW seqs, f = [i \in 1..n |-> f[i]],
           seqs = [i \in 1..n |-> One(f[i])]
    PROVE  FlattenSeq(seqs) = f
<1>1. seqs = [i \in 1..n |-> seqs[i]] /\ \A i \in 1..n : seqs[i] = One(f[i])
  OBVIOUS
<1>2. IsList(seqs) /\ Len(seqs) = n /\ IsList(f) /\ Len(f) = n
  BY <1>1, ListOf
<1>3. Lists(seqs)
  BY <1>1, <1>2, Singled DEF Lists
<1>4. PICK upTo : /\ \A k \in 0..n : IsList(upTo[k])
                  /\ upTo[0] = <<>>
                  /\ upTo[n] = FlattenSeq(seqs)
                  /\ \A k \in 1..n : upTo[k] = upTo[k - 1] ++ seqs[k]
  <2>1. Len(seqs) = n
    BY <1>2
  <2>2. \E upTo : /\ \A k \in 0..Len(seqs) : IsList(upTo[k])
                  /\ upTo[0] = <<>>
                  /\ upTo[Len(seqs)] = FlattenSeq(seqs)
                  /\ \A k \in 1..Len(seqs) : upTo[k] = upTo[k - 1] ++ seqs[k]
    BY ONLY <1>3, FlattenPrefix
  <2> QED BY ONLY <2>1, <2>2
<1> DEFINE S == {k \in Nat : k <= n => Len(upTo[k]) = k /\ \A i \in 1..k : upTo[k][i] = f[i]}
<1>5. 0 \in S
  BY <1>4, NoList
<1>6. ASSUME NEW k \in Nat, k \in S PROVE k + 1 \in S
  <2>1. CASE k + 1 <= n
    <3>1. k + 1 \in 1..n /\ (k + 1) - 1 = k /\ k \in 0..n /\ k <= n
      BY <2>1
    <3>2. PICK a, b, c : a = upTo[k] /\ b = One(f[k + 1]) /\ c = upTo[k + 1]
      OBVIOUS
    <3>3. IsList(a) /\ IsList(b) /\ Len(b) = 1 /\ b[1] = f[k + 1] /\ c = a ++ b
      BY <1>1, <1>4, <3>1, <3>2, Singled
    <3>4. Len(a) = k /\ \A i \in 1..k : a[i] = f[i]
      BY <1>6, <3>1, <3>2
    <3>5. /\ Len(c) = Len(a) + Len(b)
          /\ \A i \in 1..Len(a) : c[i] = a[i]
          /\ \A i \in 1..Len(b) : c[Len(a) + i] = b[i]
      <4>1. IsList(a) /\ IsList(b)
        BY <3>3
      <4>2. /\ IsList(a ++ b) /\ Len(a ++ b) = Len(a) + Len(b)
            /\ \A i \in 1..Len(a) : (a ++ b)[i] = a[i]
            /\ \A i \in 1..Len(b) : (a ++ b)[Len(a) + i] = b[i]
        BY ONLY <4>1, Joined
      <4> QED BY <3>3, <4>2
    <3>6. Len(c) = k + 1 /\ \A i \in 1..(k + 1) : c[i] = f[i]
      <4>1. 1 \in 1..Len(b) /\ \A i \in 1..(k + 1) : i \in 1..k \/ i = k + 1
        BY <3>3
      <4>2. c[k + 1] = f[k + 1] /\ Len(c) = k + 1
        BY <3>3, <3>4, <3>5, <4>1
      <4> QED BY <3>4, <3>5, <4>1, <4>2
    <3> QED BY <3>2, <3>6
  <2>2. CASE ~(k + 1 <= n)
    BY <2>2
  <2> QED BY <2>1, <2>2
<1> HIDE DEF S
<1>7. n \in S
  BY <1>5, <1>6, HoldsAllNaturals
<1>8. Len(upTo[n]) = n /\ \A i \in 1..n : upTo[n][i] = f[i]
  BY <1>7 DEF S
<1>9. upTo[n] = f
  <2>1. PICK u : u = upTo[n]
    OBVIOUS
  <2>2. IsList(u) /\ Len(u) = n /\ \A i \in 1..n : u[i] = f[i]
    <3>1. n \in 0..n
      OBVIOUS
    <3> QED BY <1>4, <1>8, <2>1, <3>1
  <2>3. IsList(f) /\ Len(f) = n
    BY <1>2
  <2>4. u = f
    BY ONLY <2>2, <2>3, SameList
  <2> QED BY <2>1, <2>4
<1> QED BY <1>4, <1>9
LEMMA PacketIs ==
    ASSUME NEW part, NEW id, IsList(part)
    PROVE  /\ IsList(Packet(part, id)) /\ Len(Packet(part, id)) = Len(part) + 2
           /\ Packet(part, id)[1] = Unit("len", Len(part))
           /\ Packet(part, id) # <<>>
<1>1. Packet(part, id) = Two(Unit("len", Len(part)), Unit("id", id)) ++ part
  BY DEF Packet, Two, ++
<1> QED BY <1>1, TwoBefore

LEMMA PacketWhole ==
    ASSUME NEW part, NEW id, NEW e, NEW p, NEW columns, IsList(part), IsList(e)
    PROVE  LET first == IF p.some THEN p.id ELSE id
               whole == Dispatch(p.payload ++ part, first, columns)
           IN MySqlRead(p, Packet(part, id) ++ e, columns)
                = IF Len(part) = Chunk
                  THEN Result("part", [id |-> first, payload |-> p.payload ++ part, some |-> TRUE], e)
                  ELSE IF whole.ok THEN Result("message", whole.items, e) ELSE Malformed
<1>1. PICK u, v, two, n, after, got :
         /\ u = Unit("len", Len(part)) /\ v = Unit("id", id)
         /\ two = Two(u, v) /\ n = Len(part)
         /\ after = part ++ e /\ got = Packet(part, id) ++ e
  OBVIOUS
<1>2. /\ IsList(two) /\ Len(two) = 2 /\ n \in Nat /\ Len(e) \in Nat
      /\ u[2] = n /\ v[2] = id
  BY <1>1, TwoIs, ListIs, UnitIs
<1>3. IsList(after)
  BY <1>1, Joined
<1>4. got = two ++ (part ++ e)
  <2>1. Packet(part, id) = two ++ part
    BY <1>1 DEF Packet, Two, ++
  <2> QED BY <1>1, <1>2, <2>1, JoinedTwice
<1>5. got[1] = u /\ got[2] = v
  <2>1. got = Two(u, v) ++ after
    BY <1>1, <1>4
  <2> QED BY <1>3, <2>1, TwoBefore
<1>6. /\ Len(got) = (2 + n) + Len(e)
      /\ SubSeq(got, 2 + 1, 2 + n) = part
      /\ SubSeq(got, (2 + n) + 1, Len(got)) = e
  <2>1. IsList(two) /\ IsList(part) /\ IsList(e)
    BY <1>2
  <2>2. LET all == two ++ (part ++ e)
        IN /\ IsList(all) /\ Len(all) = (Len(two) + Len(part)) + Len(e)
           /\ SubSeq(all, Len(two) + 1, Len(two) + Len(part)) = part
           /\ SubSeq(all, (Len(two) + Len(part)) + 1, Len(all)) = e
    BY ONLY <2>1, MiddleOf
  <2> QED BY <1>1, <1>2, <1>4, <2>2
<1>7. PICK length : length = n
  OBVIOUS
<1>8. /\ ~(Len(got) < 2) /\ Len(got) >= 2 /\ ~(Len(got) < length + 2) /\ Len(got) >= length + 2
      /\ length + 2 = 2 + n /\ length + 3 = (2 + n) + 1 /\ 2 + 1 = 3
  BY <1>2, <1>6, <1>7
<1>9. SubSeq(got, 3, length + 2) = part /\ SubSeq(got, length + 3, Len(got)) = e
  BY <1>6, <1>8
<1>10. PICK first, all, whole : /\ first = (IF p.some THEN p.id ELSE id)
                                /\ all = p.payload ++ part
                                /\ whole = Dispatch(all, first, columns)
  OBVIOUS
<1>11. CASE n = Chunk
  <2>1. MySqlRead(p, got, columns) = Result("part", [id |-> first, payload |-> all, some |-> TRUE], e)
    BY <1>2, <1>5, <1>7, <1>8, <1>9, <1>10, <1>11 DEF MySqlRead, ++
  <2> QED BY <1>1, <1>10, <1>11, <2>1
<1>12. CASE n # Chunk
  <2>1. MySqlRead(p, got, columns)
          = IF whole.ok THEN Result("message", whole.items, e) ELSE Malformed
    BY <1>2, <1>5, <1>7, <1>8, <1>9, <1>10, <1>12 DEF MySqlRead, ++
  <2> QED BY <1>1, <1>10, <1>12, <2>1
<1> QED BY <1>11, <1>12

LEMMA PacketPart ==
    ASSUME NEW part, NEW id, NEW b, NEW e, NEW p, NEW columns, IsList(part), IsList(b), IsList(e),
           Packet(part, id) = b ++ e, e # <<>>
    PROVE  MySqlRead(p, b, columns).status = "more"
<1>1. PICK all, n : all = Packet(part, id) /\ n = Len(part)
  OBVIOUS
<1>2. IsList(all) /\ Len(all) = n + 2 /\ all[1] = Unit("len", n)
  BY <1>1, PacketIs
<1>3. n \in Nat /\ Len(b) \in Nat /\ Len(e) \in Nat /\ Len(e) # 0
  BY <1>1, ListIs, NoList
<1>4. Len(all) = Len(b) + Len(e) /\ \A i \in 1..Len(b) : all[i] = b[i]
  BY <1>1, Joined
<1>5. Len(b) < n + 2
  BY <1>2, <1>3, <1>4
<1>6. CASE Len(b) < 2
  <2>1. ~(Len(b) >= 2)
    BY <1>3, <1>6
  <2>2. MySqlRead(p, b, columns) = [More(b) EXCEPT !.message = p]
    BY <1>6, <2>1 DEF MySqlRead
  <2> QED BY <2>2 DEF More, Result
<1>7. CASE ~(Len(b) < 2)
  <2>1. b[1] = Unit("len", n)
    BY <1>2, <1>3, <1>4, <1>7
  <2>2. PICK length : length = b[1][2]
    OBVIOUS
  <2>3. length = n
    BY <2>1, <2>2, UnitIs
  <2>4. Len(b) >= 2 /\ Len(b) < length + 2 /\ ~(Len(b) >= length + 2)
    BY <1>3, <1>5, <1>7, <2>3
  <2>5. MySqlRead(p, b, columns) = [More(b) EXCEPT !.message = p]
    BY <1>7, <2>2, <2>4 DEF MySqlRead
  <2> QED BY <2>5 DEF More, Result
<1> QED BY <1>6, <1>7

\* The packets that a payload takes.
Full(payload) == Len(payload) \div Chunk
ChunkOf(payload, i) == SubSeq(payload, (i - 1) * Chunk + 1,
                              IF i > Full(payload) THEN Len(payload) ELSE i * Chunk)
Packets(payload, id) ==
    [i \in 1..(Full(payload) + 1) |-> Packet(ChunkOf(payload, i), (id + i - 1) % SeqIds)]

LEMMA ChunkIs ==
    ASSUME NEW payload, NEW i \in 1..(Full(payload) + 1), IsList(payload)
    PROVE  /\ IsList(ChunkOf(payload, i))
           /\ i <= Full(payload) => Len(ChunkOf(payload, i)) = Chunk
           /\ i = Full(payload) + 1 => Len(ChunkOf(payload, i)) # Chunk
           /\ SubSeq(payload, 1, (i - 1) * Chunk) ++ ChunkOf(payload, i)
                = SubSeq(payload, 1, IF i <= Full(payload) THEN i * Chunk ELSE Len(payload))
<1>1. PICK n, full, j, a, b : /\ n = Len(payload) /\ full = Full(payload) /\ j = i - 1
                              /\ a = j * Chunk
                              /\ b = (IF i > full THEN n ELSE i * Chunk)
  OBVIOUS
<1>2. n \in Nat /\ Chunk \in Nat \ {0}
  BY <1>1, ListIs, FramesAssumption
<1>3. full \in Nat /\ full * Chunk <= n /\ n < full * Chunk + Chunk
  BY <1>1, <1>2, DivIs DEF Full
<1>4. j \in Nat /\ i = j + 1 /\ j <= full /\ i \in Nat
  BY <1>1, <1>3
<1>5. a \in Nat /\ i * Chunk = a + Chunk /\ a <= full * Chunk
  BY <1>1, <1>2, <1>3, <1>4, TimesIs
<1>6. i <= full => i * Chunk <= full * Chunk
  BY <1>2, <1>3, <1>4, TimesIs
<1>7. CASE i <= full
  <2>1. b = a + Chunk /\ b <= n /\ b \in Nat /\ full * Chunk \in Nat
    <3>1. full \in Nat /\ i \in Nat /\ ~(i > full)
      <4>1. full \in Nat /\ i \in Nat
        BY <1>3, <1>4
      <4> QED BY ONLY <1>7, <4>1
    <3>2. full * Chunk \in Nat
      BY <1>2, <3>1, TimesIs
    <3>3. b = i * Chunk
      BY <1>1, <3>1
    <3>4. PICK most, chunk : most = full * Chunk /\ chunk = Chunk
      OBVIOUS
    <3>5. /\ most \in Nat /\ chunk \in Nat /\ n \in Nat /\ a \in Nat
          /\ b = a + chunk /\ b <= most /\ most <= n
      BY <1>2, <1>3, <1>5, <1>6, <1>7, <3>2, <3>3, <3>4
    <3>6. b <= n /\ b \in Nat
      BY ONLY <3>5
    <3> QED BY <3>2, <3>4, <3>5, <3>6
  <2>2. PICK part : part = SubSeq(payload, a + 1, b)
    OBVIOUS
  <2>3. IsList(part) /\ Len(part) = (b - (a + 1)) + 1
    <3>1. a + 1 \in Nat /\ b \in Nat /\ 1 <= a + 1 /\ a + 1 <= b + 1 /\ b <= Len(payload)
      BY <1>1, <1>2, <1>5, <2>1
    <3>2. IsList(payload)
      OBVIOUS
    <3> QED BY ONLY <2>2, <3>1, <3>2, PartOf
  <2>4. Len(part) = Chunk
    BY <1>2, <1>5, <2>1, <2>3
  <2>5. SubSeq(payload, 1, a) ++ part = SubSeq(payload, 1, b)
    <3>1. IsList(payload) /\ a \in Nat /\ b \in Nat /\ a <= b /\ b <= Len(payload)
      BY <1>1, <1>2, <1>5, <2>1
    <3> QED BY ONLY <2>2, <3>1, FirstsMore
  <2>6. ChunkOf(payload, i) = part /\ b = i * Chunk /\ ~(i = full + 1)
    BY <1>1, <1>3, <1>4, <1>7, <2>2 DEF ChunkOf
  <2> QED BY <1>1, <1>7, <2>3, <2>4, <2>5, <2>6
<1>8. CASE ~(i <= full)
  <2>1. j = full /\ i = full + 1 /\ b = n /\ a <= n /\ n < a + Chunk /\ i > full
    <3>1. full \in Nat
      BY <1>3
    <3>2. j = full /\ i = full + 1 /\ i > full
      BY ONLY <1>4, <1>8, <3>1
    <3>3. b = n /\ a = full * Chunk
      BY <1>1, <3>2
    <3> QED BY <1>3, <3>2, <3>3
  <2>2. PICK part : part = SubSeq(payload, a + 1, b)
    OBVIOUS
  <2>3. IsList(part) /\ Len(part) = (b - (a + 1)) + 1
    <3>1. a + 1 \in Nat /\ b \in Nat /\ 1 <= a + 1 /\ a + 1 <= b + 1 /\ b <= Len(payload)
      <4>1. a \in Nat /\ n \in Nat /\ b = n /\ a <= n /\ n = Len(payload)
        BY <1>1, <1>2, <1>5, <2>1
      <4> QED BY ONLY <4>1
    <3>2. IsList(payload)
      OBVIOUS
    <3> QED BY ONLY <2>2, <3>1, <3>2, PartOf
  <2>4. Len(part) # Chunk
    BY <1>2, <1>5, <2>1, <2>3
  <2>5. SubSeq(payload, 1, a) ++ part = SubSeq(payload, 1, b)
    <3>1. IsList(payload) /\ a \in Nat /\ b \in Nat /\ a <= b /\ b <= Len(payload)
      BY <1>1, <1>2, <1>5, <2>1
    <3> QED BY ONLY <2>2, <3>1, FirstsMore
  <2>6. ChunkOf(payload, i) = part
    BY <1>1, <2>1, <2>2 DEF ChunkOf
  <2> QED BY <1>1, <1>8, <2>1, <2>3, <2>4, <2>5, <2>6
<1> QED BY <1>7, <1>8

LEMMA PacketsAre ==
    ASSUME NEW payload, NEW id, IsList(payload)
    PROVE  /\ Full(payload) \in Nat
           /\ Lists(Packets(payload, id)) /\ Len(Packets(payload, id)) = Full(payload) + 1
           /\ \A i \in 1..(Full(payload) + 1) :
                 Packets(payload, id)[i] = Packet(ChunkOf(payload, i), (id + i - 1) % SeqIds)
           /\ WriteChunked(payload, id) = FlattenSeq(Packets(payload, id))
<1>1. PICK seqs, n : seqs = Packets(payload, id) /\ n = Full(payload) + 1
  OBVIOUS
<1>2. Full(payload) \in Nat /\ n \in Nat
  BY <1>1, ListIs, FramesAssumption, DivIs DEF Full
<1>3. /\ seqs = [i \in 1..n |-> seqs[i]]
      /\ \A i \in 1..n : seqs[i] = Packet(ChunkOf(payload, i), (id + i - 1) % SeqIds)
  BY <1>1 DEF Packets
<1>4. IsList(seqs) /\ Len(seqs) = n
  BY <1>2, <1>3, ListOf
<1>5. ASSUME NEW i \in 1..n PROVE IsList(seqs[i])
  <2>1. IsList(ChunkOf(payload, i))
    BY <1>1, ChunkIs
  <2> QED BY <1>3, <2>1, PacketIs
<1>6. WriteChunked(payload, id) = FlattenSeq(seqs)
  BY <1>1 DEF WriteChunked, Packets, ChunkOf, Full
<1> QED BY <1>1, <1>2, <1>3, <1>4, <1>5, <1>6 DEF Lists
\* The payload of a packet of some kind, and what dispatch takes it for.
MyKinds == {"Column", "ResultRow", "Query", "Generic"}
MyPayload(m) ==
    CASE m.kind = "ResultRow" -> Flatten(LenencValue, m.body)
      [] m.kind = "Query" -> One(Unit("command", "query")) ++ Flatten(Char, m.body)
      [] m.kind = "Column" -> One(Unit("column", m.body))
      [] OTHER -> m.body

LEMMA CharsAre ==
    ASSUME NEW body, IsList(body)
    PROVE  /\ IsList(Flatten(Char, body))
           /\ Flatten(LAMBDA u : <<u[2]>>, Flatten(Char, body)) = body
           /\ Len(Flatten(Char, body)) = Len(body)
<1>1. PICK n : n = Len(body)
  OBVIOUS
<1>2. n \in Nat /\ DOMAIN body = 1..n /\ body = [i \in 1..n |-> body[i]]
  BY <1>1, ListIs DEF IsList
<1>3. PICK chars : chars = [i \in 1..n |-> Unit("char", body[i])]
  OBVIOUS
<1>4. chars = [i \in 1..n |-> chars[i]]
  BY <1>3
<1>5. IsList(chars) /\ Len(chars) = n /\ DOMAIN chars = 1..n
  BY <1>2, <1>3, <1>4, ListOf
<1>6. Flatten(Char, body) = chars
  <2>1. PICK seqs : seqs = [i \in 1..n |-> One(chars[i])]
    OBVIOUS
  <2>2. FlattenSeq(seqs) = chars
    BY <1>2, <1>4, <2>1, FlattenOnes
  <2>3. \A i \in 1..n : Char(body[i]) = One(chars[i])
    BY <1>3 DEF Char, One
  <2>4. [i \in DOMAIN body |-> Char(body[i])] = seqs
    BY <1>2, <2>1, <2>3
  <2> QED BY <2>2, <2>4 DEF Flatten
<1>7. Flatten(LAMBDA u : <<u[2]>>, chars) = body
  <2>1. PICK seqs : seqs = [i \in 1..n |-> One(body[i])]
    OBVIOUS
  <2>2. FlattenSeq(seqs) = body
    BY <1>2, <2>1, FlattenOnes
  <2>3. \A i \in 1..n : <<chars[i][2]>> = One(body[i])
    BY <1>3, UnitIs DEF One
  <2>4. [i \in DOMAIN chars |-> <<chars[i][2]>>] = seqs
    BY <1>5, <2>1, <2>3
  <2> QED BY <2>2, <2>4 DEF Flatten
<1> QED BY <1>1, <1>5, <1>6, <1>7

LEMMA RowBegins ==
    ASSUME NEW cell, NEW x, IsCell(cell), IsList(x)
    PROVE  /\ LenencValue(cell) ++ x # <<>>
           /\ Head(LenencValue(cell) ++ x)[1] \in {"size", "wide", "null"}
<1>1. PICK size, none, wide, bytes, all :
         /\ size = Unit("size", Size(cell)) /\ none = Unit("null", 0)
         /\ wide = Unit("wide", 0) /\ bytes = BytesOf(cell) /\ all = LenencValue(cell) ++ x
  OBVIOUS
<1>2. size[1] = "size" /\ none[1] = "null" /\ wide[1] = "wide" /\ IsList(bytes)
  BY <1>1, BytesAre, UnitIs
<1>3. IsList(bytes ++ x)
  BY <1>2, Joined
<1>4. CASE cell = Null
  <2>1. all = One(none) ++ x
    BY <1>1, <1>4 DEF LenencValue, One
  <2> QED BY <1>1, <1>2, <2>1, FirstOf
<1>5. CASE cell # Null /\ Size(cell) < OneByte
  <2>1. all = (One(size) ++ bytes) ++ x
    BY <1>1, <1>5 DEF LenencValue, LenencInt, One, ++
  <2>2. all = One(size) ++ (bytes ++ x)
    BY <1>2, <2>1, JoinedTwice, Singled
  <2> QED BY <1>1, <1>2, <1>3, <2>2, FirstOf
<1>6. CASE cell # Null /\ ~(Size(cell) < OneByte)
  <2>1. all = (Two(wide, size) ++ bytes) ++ x
    BY <1>1, <1>6 DEF LenencValue, LenencInt, Two, ++
  <2>2. all = Two(wide, size) ++ (bytes ++ x)
    BY <1>2, <2>1, JoinedTwice, TwoIs
  <2>3. all # <<>> /\ all[1] = wide
    BY <1>3, <2>2, TwoBefore
  <2>4. Head(all) = wide
    BY <2>3 DEF Head
  <2> QED BY <1>1, <1>2, <2>3, <2>4
<1> QED BY <1>4, <1>5, <1>6

LEMMA MyDispatch ==
    ASSUME NEW m, NEW columns, m.kind \in MyKinds, IsMySqlPacket(m),
           m.kind = "ResultRow" => columns > 0 /\ Len(m.body) = columns
    PROVE  /\ IsList(MyPayload(m))
           /\ Dispatch(MyPayload(m), m.id, columns) = Reader(<<>>, m, TRUE)
<1>1. PICK kind, id, body, payload, first :
         /\ kind = m.kind /\ id = m.id /\ body = m.body /\ payload = MyPayload(m)
         /\ first = (IF payload = <<>> THEN Nul ELSE Head(payload))
  OBVIOUS
<1>2. m = MySqlPacket(kind, id, body)
  BY <1>1 DEF IsMySqlPacket
<1> DEFINE Goal == IsList(payload) /\ Dispatch(payload, id, columns) = Reader(<<>>, m, TRUE)
<1>3. ASSUME kind = "Column" PROVE Goal
  <2>1. PICK column : column = Unit("column", body)
    OBVIOUS
  <2>2. payload = One(column)
    BY <1>1, <1>3, <2>1 DEF MyPayload
  <2>3. IsList(payload) /\ payload # <<>> /\ payload[1] = column
    BY <2>2, Singled, NoList
  <2>4. first = column /\ column[1] = "column" /\ column[2] = body
    BY <1>1, <2>1, <2>3, UnitIs DEF Head
  <2>6. first # Unit("command", "query")
    BY <2>4, UnitIs
  <2>5. Dispatch(payload, id, columns) = Reader(<<>>, MySqlPacket("Column", id, first[2]), TRUE)
    BY <1>1, <2>4, <2>6 DEF Dispatch, Is
  <2> QED BY <1>2, <1>3, <2>3, <2>4, <2>5
<1>4. ASSUME kind = "Query" PROVE Goal
  <2>1. PICK command, chars : command = Unit("command", "query") /\ chars = Flatten(Char, body)
    OBVIOUS
  <2>2. payload = One(command) ++ chars
    BY <1>1, <1>4, <2>1 DEF MyPayload
  <2>3. IsList(body)
    BY <1>1, <1>4 DEF IsMySqlPacket
  <2>4. IsList(chars) /\ Flatten(LAMBDA u : <<u[2]>>, chars) = body
    BY <2>1, <2>3, CharsAre
  <2>5. IsList(payload) /\ payload # <<>> /\ Head(payload) = command /\ Tail(payload) = chars
    BY <2>2, <2>4, FirstOf
  <2>6. first = command /\ command[1] = "command"
    BY <1>1, <2>1, <2>5, UnitIs
  <2>7. Dispatch(payload, id, columns)
          = Reader(<<>>, MySqlPacket("Query", id, Flatten(LAMBDA u : <<u[2]>>, Tail(payload))), TRUE)
    BY <1>1, <2>1, <2>6 DEF Dispatch, Is
  <2> QED BY <1>2, <1>4, <2>4, <2>5, <2>7
<1>5. ASSUME kind = "ResultRow" PROVE Goal
  <2>1. IsList(body) /\ (\A i \in DOMAIN body : IsCell(body[i])) /\ columns > 0 /\ Len(body) = columns
    BY <1>1, <1>5 DEF IsMySqlPacket
  <2>2. payload = Flatten(LenencValue, body)
    BY <1>1, <1>5 DEF MyPayload
  <2>3. IsList(payload) /\ Repeat(columns, ReadLenenc, Reader(payload, <<>>, TRUE)) = Reader(<<>>, body, TRUE)
    BY <2>1, <2>2, ReadsRow
  <2>4. payload # <<>> /\ Head(payload)[1] \in {"size", "wide", "null"}
    <3>1. PICK seqs : seqs = [i \in DOMAIN body |-> LenencValue(body[i])]
      OBVIOUS
    <3>2. seqs = [i \in DOMAIN body |-> seqs[i]] /\ DOMAIN body = 1..columns /\ columns \in Nat
      BY <2>1, <3>1, ListIs
    <3>3. Lists(seqs) /\ Len(seqs) = columns
      BY <2>1, <3>1, <3>2, MapIs, LenencIsList DEF Lists
    <3>4. PICK rest : Rests(rest, seqs)
      BY <3>3, FlattenRests
    <3>5. 1 \in 1..columns /\ 1 \in 0..columns /\ 1 - 1 = 0
      BY <2>1, <3>2
    <3>6. rest[0] = LenencValue(body[1]) ++ rest[1] /\ IsList(rest[1]) /\ rest[0] = FlattenSeq(seqs)
      BY <3>1, <3>2, <3>3, <3>4, <3>5 DEF Rests
    <3>7. payload = LenencValue(body[1]) ++ rest[1]
      BY <2>2, <3>1, <3>6 DEF Flatten
    <3> QED BY <2>1, <3>2, <3>5, <3>6, <3>7, RowBegins
  <2>5. first[1] \in {"size", "wide", "null"}
    BY <1>1, <2>4
  <2>6. first # Unit("command", "query") /\ ~Is(first, "column")
    BY <2>5, UnitIs DEF Is
  <2>7. PICK row : row = Repeat(columns, ReadLenenc, Reader(payload, <<>>, TRUE))
    OBVIOUS
  <2>8. row.ok /\ row.items = body
    BY <2>3, <2>7 DEF Reader
  <2>9. Dispatch(payload, id, columns) = Reader(<<>>, MySqlPacket("ResultRow", id, row.items), TRUE)
    BY <1>1, <2>5, <2>6, <2>7, <2>8 DEF Dispatch
  <2> QED BY <1>2, <1>5, <2>3, <2>8, <2>9
<1>6. ASSUME kind = "Generic" PROVE Goal
  <2>1. /\ IsList(body) /\ payload = body
        /\ body # <<>> => /\ body[1][1] \notin {"column", "size", "wide", "null"}
                          /\ body[1] # Unit("command", "query")
    BY <1>1, <1>6 DEF IsMySqlPacket, MyPayload
  <2>2. first[1] \notin {"column", "size", "wide", "null"} /\ first # Unit("command", "query")
    <3>1. CASE payload = <<>>
      <4>1. Nul[1] = "nul"
        BY UnitIs DEF Nul
      <4>2. Nul # Unit("command", "query")
        BY <4>1, UnitIs
      <4> QED BY <1>1, <3>1, <4>1, <4>2
    <3>2. CASE payload # <<>>
      <4>1. first = body[1]
        BY <1>1, <2>1, <3>2 DEF Head
      <4> QED BY <2>1, <3>2, <4>1
    <3> QED BY <3>1, <3>2
  <2>3. Dispatch(payload, id, columns) = Reader(<<>>, MySqlPacket("Generic", id, payload), TRUE)
    BY <1>1, <2>2 DEF Dispatch, Is
  <2> QED BY <1>2, <1>6, <2>1, <2>3
<1> QED BY <1>1, <1>3, <1>4, <1>5, <1>6 DEF MyKinds
\* What has been put together of a packet after some of its parts.
Pending(m, j) ==
    IF j = 0 THEN NoPending
    ELSE [id |-> m.id, payload |-> SubSeq(MyPayload(m), 1, j * Chunk), some |-> TRUE]
MyParts(m) == Packets(MyPayload(m), m.id)

\* Every part but the last continues, and the last one makes the message.
LEMMA MyRead ==
    ASSUME NEW m, NEW columns, m.kind \in MyKinds, IsMySqlPacket(m),
           m.kind = "ResultRow" => columns > 0 /\ Len(m.body) = columns
    PROVE  /\ Lists(MyParts(m)) /\ Len(MyParts(m)) \in Nat \ {0}
           /\ WriteChunked(MyPayload(m), m.id) = FlattenSeq(MyParts(m))
           /\ \A i \in 1..Len(MyParts(m)) : MyParts(m)[i] # <<>>
           /\ \A i \in 1..Len(MyParts(m)) : \A e : IsList(e) =>
                 MySqlRead(Pending(m, i - 1), MyParts(m)[i] ++ e, columns)
                   = IF i < Len(MyParts(m)) THEN Result("part", Pending(m, i), e)
                                            ELSE Result("message", m, e)
           /\ \A i \in 1..Len(MyParts(m)) : \A b, e, p :
                 IsList(b) /\ IsList(e) /\ MyParts(m)[i] = b ++ e /\ e # <<>> =>
                   MySqlRead(p, b, columns).status = "more"
<1>1. PICK payload, parts, full, id :
         payload = MyPayload(m) /\ parts = MyParts(m) /\ full = Full(payload) /\ id = m.id
  OBVIOUS
<1>2. IsList(payload) /\ Dispatch(payload, id, columns) = Reader(<<>>, m, TRUE)
  BY <1>1, MyDispatch
<1>3. /\ full \in Nat /\ Lists(parts) /\ Len(parts) = full + 1
      /\ \A i \in 1..(full + 1) : parts[i] = Packet(ChunkOf(payload, i), (id + i - 1) % SeqIds)
      /\ WriteChunked(payload, id) = FlattenSeq(parts)
  BY <1>1, <1>2, PacketsAre DEF MyParts
<1>4. \A i \in 1..(full + 1) : IsList(ChunkOf(payload, i))
  BY <1>1, <1>2, ChunkIs
<1>5. ASSUME NEW i \in 1..(full + 1) PROVE parts[i] # <<>>
  BY <1>3, <1>4, PacketIs
<1>6. ASSUME NEW i \in 1..(full + 1), NEW e, IsList(e)
      PROVE  MySqlRead(Pending(m, i - 1), parts[i] ++ e, columns)
               = IF i < full + 1 THEN Result("part", Pending(m, i), e) ELSE Result("message", m, e)
  <2>1. PICK part, seq, p, j, first, all, whole :
           /\ part = ChunkOf(payload, i) /\ seq = (id + i - 1) % SeqIds
           /\ p = Pending(m, j) /\ j = i - 1
           /\ first = (IF p.some THEN p.id ELSE seq) /\ all = p.payload ++ part
           /\ whole = Dispatch(all, first, columns)
    OBVIOUS
  <2>2. /\ IsList(part) /\ (i <= full => Len(part) = Chunk) /\ (i = full + 1 => Len(part) # Chunk)
        /\ SubSeq(payload, 1, j * Chunk) ++ part
             = SubSeq(payload, 1, IF i <= full THEN i * Chunk ELSE Len(payload))
    BY <1>1, <1>2, <2>1, ChunkIs
  <2>3. j \in Nat /\ i \in Nat /\ i # 0 /\ Chunk \in Nat
    BY <1>3, <2>1, FramesAssumption
  <2>4. first = id
    <3>1. CASE j = 0
      <4>1. i = 1 /\ p = NoPending
        BY <2>1, <2>3, <3>1 DEF Pending
      <4>2. id \in 0..(SeqIds - 1) /\ SeqIds \in Nat \ {0}
        BY <1>1, FramesAssumption DEF IsMySqlPacket
      <4>3. (id + 1 - 1) % SeqIds = id
        <5>1. id + 1 - 1 = id
          BY <4>2
        <5>2. id % SeqIds = id
          BY <4>2, SMTT(30)
        <5> QED BY <5>1, <5>2
      <4> QED BY <2>1, <4>1, <4>3 DEF NoPending
    <3>2. CASE j # 0
      BY <1>1, <2>1, <3>2 DEF Pending
    <3> QED BY <3>1, <3>2
  <2>5. p.payload = SubSeq(payload, 1, j * Chunk)
    <3>1. CASE j = 0
      <4>1. j * Chunk = 0
        BY <2>3, <3>1
      <4>2. SubSeq(payload, 1, 0) = <<>>
        BY <1>2, OneMore
      <4> QED BY <2>1, <3>1, <4>1, <4>2 DEF Pending, NoPending
    <3>2. CASE j # 0
      BY <1>1, <2>1, <3>2 DEF Pending
    <3> QED BY <3>1, <3>2
  <2>6. parts[i] ++ e = Packet(part, seq) ++ e
    BY <1>3, <2>1
  <2>7. MySqlRead(p, Packet(part, seq) ++ e, columns)
          = IF Len(part) = Chunk
            THEN Result("part", [id |-> first, payload |-> all, some |-> TRUE], e)
            ELSE IF whole.ok THEN Result("message", whole.items, e) ELSE Malformed
    <3>1. IsList(part) /\ IsList(e)
      BY <1>6, <2>2
    <3>2. LET fst == IF p.some THEN p.id ELSE seq
              all_ == Dispatch(p.payload ++ part, fst, columns)
          IN MySqlRead(p, Packet(part, seq) ++ e, columns)
               = IF Len(part) = Chunk
                 THEN Result("part", [id |-> fst, payload |-> p.payload ++ part, some |-> TRUE], e)
                 ELSE IF all_.ok THEN Result("message", all_.items, e) ELSE Malformed
      BY ONLY <3>1, PacketWhole
    <3> QED BY <2>1, <3>2
  <2>8. CASE i <= full
    <3>1. all = SubSeq(payload, 1, i * Chunk)
      BY <2>1, <2>2, <2>5, <2>8
    <3>2. Pending(m, i) = [id |-> first, payload |-> all, some |-> TRUE]
      BY <1>1, <2>3, <2>4, <3>1 DEF Pending
    <3>3. Len(part) = Chunk /\ i < full + 1
      BY <1>3, <2>2, <2>3, <2>8
    <3> QED BY <2>1, <2>6, <2>7, <3>2, <3>3
  <2>9. CASE ~(i <= full)
    <3>1. i = full + 1 /\ ~(i < full + 1)
      BY <1>3, <2>9
    <3>2. all = payload
      <4>1. SubSeq(payload, 1, Len(payload)) = payload
        BY <1>2, OneMore
      <4> QED BY <2>1, <2>2, <2>5, <2>9, <4>1
    <3>3. whole = Reader(<<>>, m, TRUE)
      BY <1>2, <2>1, <2>4, <3>2
    <3>4. whole.ok /\ whole.items = m
      BY <3>3 DEF Reader
    <3>5. Len(part) # Chunk
      BY <2>2, <3>1
    <3> QED BY <2>1, <2>6, <2>7, <3>1, <3>4, <3>5
  <2> QED BY <2>8, <2>9
<1>7. ASSUME NEW i \in 1..(full + 1), NEW b, NEW e, NEW p, IsList(b), IsList(e), parts[i] = b ++ e, e # <<>>
      PROVE  MySqlRead(p, b, columns).status = "more"
  <2>1. PICK part, seq : part = ChunkOf(payload, i) /\ seq = (id + i - 1) % SeqIds
    OBVIOUS
  <2>2. IsList(part) /\ Packet(part, seq) = b ++ e
    BY <1>3, <1>4, <1>7, <2>1
  <2> QED BY <1>7, <2>2, PacketPart
<1>8. Len(parts) \in Nat \ {0}
  BY <1>3
<1> QED BY <1>1, <1>3, <1>5, <1>6, <1>7, <1>8
-----------------------------------------------------------------------------
(* A session's messages and the pieces they are sent in *)

\* The peer's writes in a session w.
Writes(w, m) == IF w.protocol = "postgres" THEN PgEncode(m) ELSE WriteChunked(MyPayload(m), m.id)
Pieces(w, m) == IF w.protocol = "postgres" THEN One(PgEncode(m)) ELSE MyParts(m)

\* What the codec knows after k messages and j pieces of the next.
StartupAt(w, k) == /\ w.protocol = "postgres" /\ w.side = "client"
                   /\ \A i \in 1..k : w.traffic[i].kind = "SSLRequest"
PendingAt(w, k, j) == IF w.protocol = "postgres" THEN NoPending ELSE Pending(w.traffic[k + 1], j)
Decode(w, k, j, got) ==
    IF w.protocol = "postgres" THEN PgDecode(StartupAt(w, k), got)
                               ELSE MySqlRead(PendingAt(w, k, j), got, Cardinality(Described(w, k)))

LEMMA TrafficIs ==
    ASSUME NEW w, IsJob(w)
    PROVE  /\ IsList(w.traffic) /\ IsList(w.garbage) /\ Len(w.traffic) \in Nat
           /\ DOMAIN w.traffic = 1..Len(w.traffic)
           /\ \A i \in 1..Len(w.traffic) :
                 /\ w.traffic[i].kind \in Kinds(w)
                 /\ IF w.protocol = "postgres" THEN IsPgMessage(w.traffic[i])
                                               ELSE IsMySqlPacket(w.traffic[i])
                 /\ InOrder(w, i)
BY ListIs DEF IsJob

LEMMA PgPieceRead ==
    ASSUME NEW w, IsJob(w), w.protocol = "postgres", NEW k \in 0..(Len(w.traffic) - 1)
    PROVE  LET m == w.traffic[k + 1]
           IN /\ m.kind \in Early \cup Later /\ IsPgMessage(m)
              /\ StartupAt(w, k) <=> m.kind \in Early
<1>1. PICK m, n : m = w.traffic[k + 1] /\ n = k + 1
  OBVIOUS
<1>2. n \in 1..Len(w.traffic) /\ n - 1 = k /\ m = w.traffic[n]
  BY <1>1, TrafficIs
<1>3. m.kind \in Kinds(w) /\ IsPgMessage(m) /\ InOrder(w, n)
  BY <1>2, TrafficIs
<1>4. w.side \in {"client", "server"}
  BY DEF IsJob
<1>5. CASE w.side = "client"
  <2>1. m.kind \in {"SSLRequest", "Startup", "Query", "Parse", "B", "S"}
    BY <1>3, <1>5 DEF Kinds
  <2>2. m.kind \in {"SSLRequest", "Startup"} <=> \A i \in 1..(n - 1) : w.traffic[i].kind = "SSLRequest"
    BY <1>2, <1>3, <1>5 DEF InOrder
  <2>3. StartupAt(w, k) <=> m.kind \in Early
    BY <1>2, <1>5, <2>2 DEF StartupAt, Early
  <2> QED BY <1>1, <1>3, <2>1, <2>3 DEF Early, Later
<1>6. CASE w.side = "server"
  <2>1. m.kind \in {"RowDescription", "DataRow", "Z", "C", "E"}
    BY <1>3, <1>6 DEF Kinds
  <2>2. ~StartupAt(w, k)
    BY <1>6 DEF StartupAt
  <2> QED BY <1>1, <1>3, <2>1, <2>2 DEF Early, Later
<1> QED BY <1>4, <1>5, <1>6

LEMMA DescribedIs ==
    ASSUME NEW w, IsJob(w), NEW k \in 0..Len(w.traffic)
    PROVE  /\ IsFiniteSet(Described(w, k)) /\ Cardinality(Described(w, k)) \in Nat
           /\ Described(w, 0) = {}
           /\ k < Len(w.traffic) =>
                 /\ w.traffic[k + 1].kind = "Column" =>
                       /\ Described(w, k + 1) = Described(w, k) \cup {k + 1}
                       /\ Cardinality(Described(w, k + 1)) = Cardinality(Described(w, k)) + 1
                 /\ w.traffic[k + 1].kind # "Column" => Described(w, k + 1) = Described(w, k)
<1>1. k \in Nat
  BY TrafficIs
<1>2. IsFiniteSet(1..k) /\ Described(w, k) \subseteq 1..k
  BY <1>1, FS_Interval DEF Described
<1>3. IsFiniteSet(Described(w, k)) /\ Cardinality(Described(w, k)) \in Nat
  BY <1>2, FS_Subset, FS_CardinalityType
<1>4. Described(w, 0) = {}
  BY DEF Described
<1>5. w.traffic[k + 1].kind = "Column" => Described(w, k + 1) = Described(w, k) \cup {k + 1}
  BY <1>1 DEF Described
<1>6. k + 1 \notin Described(w, k)
  BY <1>1, <1>2
<1>7. Cardinality(Described(w, k) \cup {k + 1}) = Cardinality(Described(w, k)) + 1
  BY <1>3, <1>6, FS_AddElement
<1>8. w.traffic[k + 1].kind # "Column" => Described(w, k + 1) = Described(w, k)
  <2> SUFFICES ASSUME w.traffic[k + 1].kind # "Column" PROVE Described(w, k + 1) = Described(w, k)
    OBVIOUS
  <2>1. \A i \in 1..(k + 1) : i \in 1..k \/ i = k + 1
    BY <1>1
  <2>2. \A i \in 1..k : i \in 1..(k + 1)
    BY <1>1
  <2> QED BY <2>1, <2>2 DEF Described
<1> QED BY <1>3, <1>4, <1>5, <1>7, <1>8

LEMMA MyPieceRead ==
    ASSUME NEW w, IsJob(w), w.protocol # "postgres", NEW k \in 0..(Len(w.traffic) - 1)
    PROVE  LET m == w.traffic[k + 1]
               columns == Cardinality(Described(w, k))
           IN /\ m.kind \in MyKinds /\ IsMySqlPacket(m)
              /\ m.kind = "ResultRow" => columns > 0 /\ Len(m.body) = columns
<1>1. PICK m, n : m = w.traffic[k + 1] /\ n = k + 1
  OBVIOUS
<1>2. n \in 1..Len(w.traffic) /\ m = w.traffic[n] /\ k \in 0..Len(w.traffic) /\ k < Len(w.traffic)
  BY <1>1, TrafficIs
<1>3. m.kind \in Kinds(w) /\ IsMySqlPacket(m) /\ InOrder(w, n)
  BY <1>2, TrafficIs
<1>4. w.protocol = "mysql" /\ w.side \in {"client", "server"}
  BY DEF IsJob
<1>5. m.kind \in MyKinds
  BY <1>3, <1>4 DEF Kinds, MyKinds
<1>6. ASSUME m.kind = "ResultRow"
      PROVE  Cardinality(Described(w, k)) > 0 /\ Len(m.body) = Cardinality(Described(w, k))
  <2>1. Len(w.origins) > 0 /\ Cardinality(Described(w, n)) = Len(w.origins) /\ Len(m.body) = Len(w.origins)
    BY <1>2, <1>3, <1>6 DEF InOrder
  <2>2. Described(w, n) = Described(w, k)
    BY <1>1, <1>2, <1>6, DescribedIs
  <2> QED BY <2>1, <2>2
<1> QED BY <1>1, <1>3, <1>5, <1>6

\* Of every message each piece is read after the others, and nothing before it is whole.
LEMMA PieceRead ==
    ASSUME NEW w, IsJob(w), NEW k \in 0..(Len(w.traffic) - 1)
    PROVE  LET m == w.traffic[k + 1]
               pieces == Pieces(w, m)
           IN /\ Lists(pieces) /\ Len(pieces) \in Nat \ {0}
              /\ Writes(w, m) = FlattenSeq(pieces)
              /\ \A i \in 1..Len(pieces) : pieces[i] # <<>>
              /\ \A i \in 1..Len(pieces) : \A e : IsList(e) =>
                    Decode(w, k, i - 1, pieces[i] ++ e)
                      = IF i < Len(pieces) THEN Result("part", PendingAt(w, k, i), e)
                                           ELSE Result("message", m, e)
              /\ \A i \in 1..Len(pieces) : \A b, e :
                    IsList(b) /\ IsList(e) /\ pieces[i] = b ++ e /\ e # <<>> =>
                      Decode(w, k, i - 1, b).status = "more"
<1>1. PICK m, pieces : m = w.traffic[k + 1] /\ pieces = Pieces(w, m)
  OBVIOUS
<1>2. CASE w.protocol = "postgres"
  <2>1. m.kind \in Early \cup Later /\ IsPgMessage(m) /\ (StartupAt(w, k) <=> m.kind \in Early)
    BY <1>1, <1>2, PgPieceRead
  <2>2. PICK code : code = PgEncode(m)
    OBVIOUS
  <2>3. /\ IsList(code) /\ code # <<>>
        /\ \A e : IsList(e) => PgDecode(StartupAt(w, k), code ++ e) = Result("message", m, e)
        /\ \A b, e : IsList(b) /\ IsList(e) /\ code = b ++ e /\ e # <<>> =>
              PgDecode(StartupAt(w, k), b).status = "more"
    <3>1. /\ IsList(PgEncode(m)) /\ PgEncode(m) # <<>>
          /\ \A e : IsList(e) =>
                PgDecode(m.kind \in Early, PgEncode(m) ++ e) = Result("message", m, e)
          /\ \A b, e : IsList(b) /\ IsList(e) /\ PgEncode(m) = b ++ e /\ e # <<>> =>
                PgDecode(m.kind \in Early, b).status = "more"
      BY ONLY <2>1, PgRead
    <3> QED BY <2>1, <2>2, <3>1 DEF PgDecode
  <2>4. pieces = One(code)
    BY <1>1, <1>2, <2>2 DEF Pieces
  <2>5. IsList(pieces) /\ Len(pieces) = 1 /\ pieces[1] = code
    BY <2>4, Singled
  <2>6. \A i \in 1..Len(pieces) : i = 1 /\ ~(i < Len(pieces))
    BY <2>5
  <2>7. Lists(pieces)
    BY <2>3, <2>5, <2>6 DEF Lists
  <2>8. Writes(w, m) = FlattenSeq(pieces)
    BY <1>2, <2>2, <2>5, <2>7, FlattenOne DEF Writes
  <2>9. \A j, got : Decode(w, k, j, got) = PgDecode(StartupAt(w, k), got)
    BY <1>2 DEF Decode
  <2> QED BY <1>1, <2>3, <2>5, <2>6, <2>7, <2>8, <2>9
<1>3. CASE w.protocol # "postgres"
  <2>1. PICK columns : columns = Cardinality(Described(w, k))
    OBVIOUS
  <2>2. /\ m.kind \in MyKinds /\ IsMySqlPacket(m)
        /\ m.kind = "ResultRow" => columns > 0 /\ Len(m.body) = columns
    BY <1>1, <1>3, <2>1, MyPieceRead
  <2>3. pieces = MyParts(m) /\ Writes(w, m) = WriteChunked(MyPayload(m), m.id)
    BY <1>1, <1>3 DEF Pieces, Writes
  <2>4. /\ \A j, got : Decode(w, k, j, got) = MySqlRead(Pending(m, j), got, columns)
        /\ \A j : PendingAt(w, k, j) = Pending(m, j)
    BY <1>1, <1>3, <2>1 DEF Decode, PendingAt
  <2>5. /\ Lists(MyParts(m)) /\ Len(MyParts(m)) \in Nat \ {0}
        /\ WriteChunked(MyPayload(m), m.id) = FlattenSeq(MyParts(m))
        /\ \A i \in 1..Len(MyParts(m)) : MyParts(m)[i] # <<>>
        /\ \A i \in 1..Len(MyParts(m)) : \A e : IsList(e) =>
              MySqlRead(Pending(m, i - 1), MyParts(m)[i] ++ e, columns)
                = IF i < Len(MyParts(m)) THEN Result("part", Pending(m, i), e)
                                         ELSE Result("message", m, e)
        /\ \A i \in 1..Len(MyParts(m)) : \A b, e, p :
              IsList(b) /\ IsList(e) /\ MyParts(m)[i] = b ++ e /\ e # <<>> =>
                MySqlRead(p, b, columns).status = "more"
    BY ONLY <2>2, MyRead, ZenonT(60)
  <2> QED BY <1>1, <2>3, <2>4, <2>5
<1> QED BY <1>2, <1>3

-----------------------------------------------------------------------------
(* The bytes that have not been read *)

Encoded(w) == [i \in DOMAIN w.traffic |-> Writes(w, w.traffic[i])]
AfterMessage(w) == CHOOSE rest : Rests(rest, Encoded(w))
AfterPiece(w, k) == CHOOSE rest : Rests(rest, Pieces(w, w.traffic[k + 1]))

\* After k messages and j pieces of the next.
Left(w, k, j) ==
    IF k = Len(w.traffic) THEN w.garbage
    ELSE AfterPiece(w, k)[j] ++ (AfterMessage(w)[k + 1] ++ w.garbage)

\* The places between two pieces.
Place(w, k, j) ==
    /\ k \in 0..Len(w.traffic) /\ j \in Nat
    /\ k = Len(w.traffic) => j = 0
    /\ k # Len(w.traffic) => j < Len(Pieces(w, w.traffic[k + 1]))

LEMMA EncodedIs ==
    ASSUME NEW w, IsJob(w)
    PROVE  /\ Lists(Encoded(w)) /\ Len(Encoded(w)) = Len(w.traffic)
           /\ Rests(AfterMessage(w), Encoded(w))
           /\ \A k \in 0..(Len(w.traffic) - 1) :
                 /\ Rests(AfterPiece(w, k), Pieces(w, w.traffic[k + 1]))
                 /\ Encoded(w)[k + 1] = FlattenSeq(Pieces(w, w.traffic[k + 1]))
<1>0. /\ IsList(w.traffic) /\ Len(w.traffic) \in Nat /\ DOMAIN w.traffic = 1..Len(w.traffic)
  BY TrafficIs
<1>1. PICK seqs, n : seqs = Encoded(w) /\ n = Len(w.traffic)
  OBVIOUS
<1>2. seqs = [i \in DOMAIN w.traffic |-> seqs[i]] /\ \A i \in 1..n : seqs[i] = Writes(w, w.traffic[i])
  BY <1>0, <1>1 DEF Encoded
<1>3. IsList(seqs) /\ Len(seqs) = n
  BY <1>0, <1>1, <1>2, MapIs
<1>4. ASSUME NEW k \in 0..(n - 1)
      PROVE  LET pieces == Pieces(w, w.traffic[k + 1])
             IN /\ Lists(pieces) /\ seqs[k + 1] = FlattenSeq(pieces) /\ k + 1 \in 1..n
  <2>1. PICK m, pieces : m = w.traffic[k + 1] /\ pieces = Pieces(w, m)
    OBVIOUS
  <2>2. Lists(pieces) /\ Writes(w, m) = FlattenSeq(pieces)
    BY <1>1, <2>1, PieceRead
  <2>3. k + 1 \in 1..n
    BY <1>0, <1>1
  <2> QED BY <1>2, <2>1, <2>2, <2>3
<1>5. ASSUME NEW i \in 1..n PROVE IsList(seqs[i])
  <2>1. i - 1 \in 0..(n - 1) /\ (i - 1) + 1 = i
    BY <1>0, <1>1
  <2>2. PICK pieces : pieces = Pieces(w, w.traffic[i])
    OBVIOUS
  <2>3. Lists(pieces) /\ seqs[i] = FlattenSeq(pieces)
    BY <1>4, <2>1, <2>2
  <2> QED BY <2>3, FlattenRests
<1>6. Lists(seqs)
  BY <1>3, <1>5 DEF Lists
<1>7. Rests(AfterMessage(w), seqs)
  <2>1. \E rest : Rests(rest, Encoded(w))
    BY <1>1, <1>6, FlattenRests
  <2> QED BY <1>1, <2>1 DEF AfterMessage
<1>8. ASSUME NEW k \in 0..(n - 1)
      PROVE  Rests(AfterPiece(w, k), Pieces(w, w.traffic[k + 1]))
  <2>1. \E rest : Rests(rest, Pieces(w, w.traffic[k + 1]))
    <3>1. Lists(Pieces(w, w.traffic[k + 1]))
      BY <1>4
    <3> QED BY <3>1, FlattenRests
  <2> QED BY <2>1 DEF AfterPiece
<1> QED BY <1>1, <1>3, <1>4, <1>6, <1>7, <1>8

\* At the first piece of a message, what is left is all that follows.
LEMMA LeftAtMessage ==
    ASSUME NEW w, IsJob(w), NEW k \in 0..Len(w.traffic)
    PROVE  /\ IsList(AfterMessage(w)[k])
           /\ Left(w, k, 0) = AfterMessage(w)[k] ++ w.garbage
<1>0. /\ IsList(w.garbage) /\ Len(w.traffic) \in Nat
  BY TrafficIs
<1>1. PICK all, seqs, n : all = AfterMessage(w) /\ seqs = Encoded(w) /\ n = Len(w.traffic)
  OBVIOUS
<1>2. Rests(all, seqs) /\ Len(seqs) = n
  BY <1>1, EncodedIs
<1>3. IsList(all[k])
  BY <1>1, <1>2 DEF Rests
<1>4. CASE k = n
  BY <1>0, <1>1, <1>2, <1>4, NoList DEF Left, Rests
<1>5. CASE k # n
  <2>1. k \in 0..(n - 1) /\ k + 1 \in 1..n /\ (k + 1) - 1 = k /\ k + 1 \in 0..n
    BY <1>0, <1>1, <1>5
  <2>2. PICK pieces, rest : pieces = Pieces(w, w.traffic[k + 1]) /\ rest = AfterPiece(w, k)
    OBVIOUS
  <2>3. Rests(rest, pieces) /\ seqs[k + 1] = FlattenSeq(pieces)
    BY <1>1, <2>1, <2>2, EncodedIs
  <2>4. rest[0] = seqs[k + 1]
    BY <2>3 DEF Rests
  <2>5. all[k] = seqs[k + 1] ++ all[k + 1] /\ IsList(all[k + 1])
    BY <1>2, <2>1 DEF Rests
  <2>6. IsList(seqs[k + 1])
    BY <1>1, <2>1, EncodedIs DEF Lists
  <2>7. Left(w, k, 0) = seqs[k + 1] ++ (all[k + 1] ++ w.garbage)
    BY <1>1, <1>5, <2>2, <2>4 DEF Left
  <2>8. (seqs[k + 1] ++ all[k + 1]) ++ w.garbage = seqs[k + 1] ++ (all[k + 1] ++ w.garbage)
    BY <1>0, <2>5, <2>6, JoinedTwice
  <2> QED BY <1>1, <1>3, <2>5, <2>7, <2>8
<1> QED BY <1>3, <1>4, <1>5, <1>1

\* What is left is the next piece and what is left after it.
KAfter(w, k, j) == IF j + 1 < Len(Pieces(w, w.traffic[k + 1])) THEN k ELSE k + 1
JAfter(w, k, j) == IF j + 1 < Len(Pieces(w, w.traffic[k + 1])) THEN j + 1 ELSE 0
LEMMA LeftIs ==
    ASSUME NEW w, IsJob(w), NEW k, NEW j, Place(w, k, j), k # Len(w.traffic)
    PROVE  /\ Place(w, KAfter(w, k, j), JAfter(w, k, j))
           /\ Left(w, k, j) = Pieces(w, w.traffic[k + 1])[j + 1]
                                ++ Left(w, KAfter(w, k, j), JAfter(w, k, j))
           /\ IsList(Left(w, KAfter(w, k, j), JAfter(w, k, j)))
           /\ IsList(Left(w, k, j))
<1>0. /\ IsList(w.garbage) /\ Len(w.traffic) \in Nat /\ k \in 0..(Len(w.traffic) - 1) /\ j \in Nat
      /\ k + 1 \in 0..Len(w.traffic)
  BY TrafficIs DEF Place
<1>1. PICK pieces, rest, n, x, later :
         /\ pieces = Pieces(w, w.traffic[k + 1]) /\ rest = AfterPiece(w, k)
         /\ n = Len(pieces) /\ x = pieces[j + 1] /\ later = AfterMessage(w)[k + 1] ++ w.garbage
  OBVIOUS
<1>2. Lists(pieces) /\ n \in Nat \ {0} /\ Rests(rest, pieces) /\ j < n
  BY <1>0, <1>1, PieceRead, EncodedIs DEF Place
<1>3. j + 1 \in 1..n /\ (j + 1) - 1 = j
  BY <1>0, <1>2
<1>4. IsList(x) /\ IsList(rest[j + 1]) /\ rest[j] = x ++ rest[j + 1]
  <2>1. \A i \in 1..n : IsList(pieces[i]) /\ rest[i - 1] = pieces[i] ++ rest[i] /\ IsList(rest[i])
    BY <1>1, <1>2 DEF Lists, Rests
  <2> QED BY <1>1, <1>3, <2>1
<1>5. IsList(later) /\ Left(w, k + 1, 0) = later
  BY <1>0, <1>1, LeftAtMessage, Joined
<1>6. Left(w, k, j) = x ++ (rest[j + 1] ++ later)
  <2>1. Left(w, k, j) = rest[j] ++ later
    BY <1>1 DEF Left
  <2>2. (x ++ rest[j + 1]) ++ later = x ++ (rest[j + 1] ++ later)
    BY <1>4, <1>5, JoinedTwice
  <2> QED BY <1>4, <2>1, <2>2
<1>7. IsList(rest[j + 1] ++ later) /\ IsList(x ++ (rest[j + 1] ++ later))
  BY <1>4, <1>5, Joined
<1>8. CASE j + 1 < n
  <2>1. KAfter(w, k, j) = k /\ JAfter(w, k, j) = j + 1
    BY <1>1, <1>8 DEF KAfter, JAfter
  <2>2. Left(w, k, j + 1) = rest[j + 1] ++ later
    BY <1>1 DEF Left
  <2>3. Place(w, k, j + 1)
    BY <1>0, <1>1, <1>8 DEF Place
  <2> QED BY <1>1, <1>6, <1>7, <2>1, <2>2, <2>3
<1>9. CASE ~(j + 1 < n)
  <2>1. KAfter(w, k, j) = k + 1 /\ JAfter(w, k, j) = 0
    BY <1>1, <1>9 DEF KAfter, JAfter
  <2>2. j + 1 = n
    BY <1>0, <1>2, <1>9
  <2>3. rest[j + 1] = <<>> /\ rest[j + 1] ++ later = later
    BY <1>1, <1>2, <1>5, <2>2, NoList DEF Rests
  <2>4. Place(w, k + 1, 0)
    <3>1. k + 1 # Len(w.traffic) =>
            Len(Pieces(w, w.traffic[(k + 1) + 1])) \in Nat \ {0}
      <4> SUFFICES ASSUME k + 1 # Len(w.traffic)
                   PROVE  Len(Pieces(w, w.traffic[(k + 1) + 1])) \in Nat \ {0}
        OBVIOUS
      <4>1. k + 1 \in 0..(Len(w.traffic) - 1)
        BY <1>0
      <4> QED BY <4>1, PieceRead
    <3> QED BY <1>0, <3>1 DEF Place
  <2> QED BY <1>1, <1>5, <1>6, <1>7, <2>1, <2>3, <2>4
<1> QED BY <1>8, <1>9

\* What is decoded between two pieces, of any part of what is left: the next piece, if it
\* is there.
LEMMA DecodesNext ==
    ASSUME NEW w, IsJob(w), NEW k, NEW j, Place(w, k, j), k # Len(w.traffic),
           NEW b, NEW e, IsList(b), IsList(e), b ++ e = Left(w, k, j)
    PROVE  \/ \E r : /\ IsList(r) /\ r ++ e = Left(w, KAfter(w, k, j), JAfter(w, k, j))
                     /\ Decode(w, k, j, b)
                          = IF j + 1 < Len(Pieces(w, w.traffic[k + 1]))
                            THEN Result("part", PendingAt(w, k, j + 1), r)
                            ELSE Result("message", w.traffic[k + 1], r)
           \/ e # <<>> /\ Decode(w, k, j, b).status = "more"
<1>0. k \in 0..(Len(w.traffic) - 1) /\ j \in Nat /\ Len(w.traffic) \in Nat
  BY TrafficIs DEF Place
<1>1. PICK m, pieces, n, x, next :
         /\ m = w.traffic[k + 1] /\ pieces = Pieces(w, m) /\ n = Len(pieces) /\ x = pieces[j + 1]
         /\ next = Left(w, KAfter(w, k, j), JAfter(w, k, j))
  OBVIOUS
<1>2. /\ Lists(pieces) /\ n \in Nat \ {0}
      /\ \A i \in 1..n : \A r : IsList(r) =>
            Decode(w, k, i - 1, pieces[i] ++ r)
              = IF i < n THEN Result("part", PendingAt(w, k, i), r) ELSE Result("message", m, r)
      /\ \A i \in 1..n : \A a, r :
            IsList(a) /\ IsList(r) /\ pieces[i] = a ++ r /\ r # <<>> =>
              Decode(w, k, i - 1, a).status = "more"
  <2>1. IsJob(w) /\ k \in 0..(Len(w.traffic) - 1)
    BY <1>0
  <2>2. LET came == w.traffic[k + 1]
            cut == Pieces(w, came)
        IN /\ Lists(cut) /\ Len(cut) \in Nat \ {0}
           /\ \A i \in 1..Len(cut) : \A r : IsList(r) =>
                 Decode(w, k, i - 1, cut[i] ++ r)
                   = IF i < Len(cut) THEN Result("part", PendingAt(w, k, i), r)
                                     ELSE Result("message", came, r)
           /\ \A i \in 1..Len(cut) : \A a, r :
                 IsList(a) /\ IsList(r) /\ cut[i] = a ++ r /\ r # <<>> =>
                   Decode(w, k, i - 1, a).status = "more"
    BY ONLY <2>1, PieceRead
  <2> QED BY ONLY <1>1, <2>2
<1>3. j + 1 \in 1..n /\ (j + 1) - 1 = j
  BY <1>0, <1>1, <1>2 DEF Place
<1>4. IsList(x) /\ IsList(next) /\ b ++ e = x ++ next
  BY <1>1, <1>2, <1>3, LeftIs DEF Lists
<1>5. Len(x) \in Nat /\ Len(b) \in Nat
  BY <1>4, ListIs
<1>6. CASE Len(x) <= Len(b)
  <2>1. PICK r : IsList(r) /\ b = x ++ r /\ next = r ++ e
    <3>1. IsList(b) /\ IsList(e)
      OBVIOUS
    <3> QED BY ONLY <1>4, <1>6, <3>1, LongerBeginning
  <2>2. Decode(w, k, j, x ++ r)
          = IF j + 1 < n THEN Result("part", PendingAt(w, k, j + 1), r) ELSE Result("message", m, r)
    BY <1>1, <1>2, <1>3, <2>1
  <2> QED BY <1>1, <2>1, <2>2
<1>7. CASE ~(Len(x) <= Len(b))
  <2>1. PICK r : IsList(r) /\ Len(r) = Len(x) - Len(b) /\ x = b ++ r /\ e = r ++ next
    <3>1. IsList(b) /\ IsList(e) /\ Len(b) <= Len(x) /\ x ++ next = b ++ e
      BY <1>4, <1>5, <1>7
    <3> QED BY ONLY <1>4, <3>1, LongerBeginning
  <2>2. r # <<>>
    BY <1>5, <1>7, <2>1, NoList
  <2>3. e # <<>>
    <3>1. Len(r ++ next) = Len(r) + Len(next) /\ Len(next) \in Nat
      BY <1>4, <2>1, Joined, ListIs
    <3>2. Len(r) \in Nat /\ Len(r) # 0
      BY <1>5, <1>7, <2>1
    <3>3. Len(e) # 0
      BY <2>1, <3>1, <3>2
    <3> QED BY <3>3, NoList
  <2>4. Decode(w, k, j, b).status = "more"
    BY <1>1, <1>2, <1>3, <2>1, <2>2
  <2> QED BY <2>3, <2>4
<1> QED BY <1>6, <1>7

\* Of the bytes after the last message none is taken.
LEMMA DecodesNoMore ==
    ASSUME NEW w, IsJob(w), NEW b, NEW e, IsList(b), IsList(e), b ++ e = w.garbage
    PROVE  /\ Decode(w, Len(w.traffic), 0, b).status \in {"more", "malformed"}
           /\ b = <<>> => Decode(w, Len(w.traffic), 0, b).status = "more"
<1>0. IsList(w.garbage) /\ DOMAIN w.traffic = 1..Len(w.traffic) /\ Len(b) \in Nat /\ Len(e) \in Nat
  BY TrafficIs, ListIs
<1>1. Len(b) \in 0..Len(w.garbage) /\ SubSeq(w.garbage, 1, Len(b)) = b
  <2>1. Len(w.garbage) = Len(b) + Len(e)
    BY Joined
  <2> QED BY <1>0, <2>1, CutWhereJoined
<1>2. Decode(w, Len(w.traffic), 0, b).status \in {"more", "malformed"}
  <2>1. CASE w.protocol = "postgres"
    <3>1. PgDecode(w.side = "client" /\ \A i \in DOMAIN w.traffic : w.traffic[i].kind = "SSLRequest", b).status
             \in {"more", "malformed"}
      BY <1>1, <2>1 DEF IsJob, Refused
    <3> QED BY <1>0, <2>1, <3>1 DEF Decode, StartupAt, PgDecode
  <2>2. CASE w.protocol # "postgres"
    <3>1. MySqlRead(NoPending, b, Cardinality(Described(w, Len(w.traffic)))).status \in {"more", "malformed"}
      BY <1>1, <2>2 DEF IsJob, Refused
    <3> QED BY <2>2, <3>1 DEF Decode, PendingAt, Pending
  <2> QED BY <2>1, <2>2
<1>3. ASSUME b = <<>> PROVE Decode(w, Len(w.traffic), 0, b).status = "more"
  <2>1. Len(b) = 0 /\ Len(b) < 2 /\ ~(Len(b) >= 2)
    BY <1>3, NoList
  <2>2. \A s : PgDecode(s, b).status = "more"
    <3>1. DecodeStartup(b) = More(b)
      BY <1>3 DEF DecodeStartup
    <3>2. DecodeRegular(b) = More(b)
      BY <2>1 DEF DecodeRegular
    <3> QED BY <3>1, <3>2 DEF PgDecode, More, Result
  <2>3. \A p, c : MySqlRead(p, b, c).status = "more"
    BY <2>1 DEF MySqlRead, More, Result
  <2> QED BY <2>2, <2>3 DEF Decode
<1> QED BY <1>2, <1>3

-----------------------------------------------------------------------------
(* Lists put together, place by place *)

Alike(a, b, R) == /\ IsList(a) /\ IsList(b) /\ Len(a) = Len(b)
                  /\ \A i \in 1..Len(a) : <<a[i], b[i]>> \in R

LEMMA JoinedAlike ==
    ASSUME NEW R, NEW a, NEW b, NEW c, NEW d, Alike(a, b, R), Alike(c, d, R)
    PROVE  Alike(a ++ c, b ++ d, R)
<1>1. /\ IsList(a) /\ IsList(b) /\ IsList(c) /\ IsList(d)
      /\ Len(a) = Len(b) /\ Len(c) = Len(d) /\ Len(a) \in Nat /\ Len(c) \in Nat
  BY ListIs DEF Alike
<1>2. PICK x, y : x = a ++ c /\ y = b ++ d
  OBVIOUS
<1>3. /\ IsList(x) /\ IsList(y) /\ Len(x) = Len(a) + Len(c) /\ Len(y) = Len(a) + Len(c)
      /\ \A i \in 1..Len(a) : x[i] = a[i] /\ y[i] = b[i]
      /\ \A i \in 1..Len(c) : x[Len(a) + i] = c[i] /\ y[Len(a) + i] = d[i]
  <2>1. /\ IsList(a ++ c) /\ Len(a ++ c) = Len(a) + Len(c)
        /\ \A i \in 1..Len(a) : (a ++ c)[i] = a[i]
        /\ \A i \in 1..Len(c) : (a ++ c)[Len(a) + i] = c[i]
    BY <1>1, Joined
  <2>2. /\ IsList(b ++ d) /\ Len(b ++ d) = Len(b) + Len(d)
        /\ \A i \in 1..Len(b) : (b ++ d)[i] = b[i]
        /\ \A i \in 1..Len(d) : (b ++ d)[Len(b) + i] = d[i]
    BY <1>1, Joined
  <2> QED BY ONLY <1>1, <1>2, <2>1, <2>2
<1>4. ASSUME NEW i \in 1..Len(x) PROVE <<x[i], y[i]>> \in R
  <2>1. CASE i <= Len(a)
    BY <1>1, <1>3, <2>1 DEF Alike
  <2>2. CASE ~(i <= Len(a))
    <3>1. PICK l : l = i - Len(a)
      OBVIOUS
    <3>2. l \in 1..Len(c) /\ i = Len(a) + l
      BY <1>1, <1>3, <2>2, <3>1
    <3> QED BY <1>3, <3>2 DEF Alike
  <2> QED BY <2>1, <2>2
<1> QED BY <1>2, <1>3, <1>4 DEF Alike

LEMMA FlattenAlike ==
    ASSUME NEW R, NEW a, NEW b, IsList(a), IsList(b), Len(a) = Len(b),
           \A l \in 1..Len(a) : Alike(a[l], b[l], R)
    PROVE  Alike(FlattenSeq(a), FlattenSeq(b), R)
<1> DEFINE n == Len(a)
<1>0. n \in Nat /\ Lists(a) /\ Lists(b)
  BY ListIs DEF Alike, Lists
<1>1. PICK f : /\ \A k \in 0..n : IsList(f[k])
               /\ f[0] = <<>> /\ f[n] = FlattenSeq(a)
               /\ \A k \in 1..n : f[k] = f[k - 1] ++ a[k]
  BY <1>0, FlattenPrefix
<1>2. PICK g : /\ \A k \in 0..n : IsList(g[k])
               /\ g[0] = <<>> /\ g[n] = FlattenSeq(b)
               /\ \A k \in 1..n : g[k] = g[k - 1] ++ b[k]
  BY <1>0, FlattenPrefix
<1> DEFINE S == {k \in Nat : k <= n => Alike(f[k], g[k], R)}
<1>3. 0 \in S
  <2>1. Alike(<<>>, <<>>, R)
    BY NoList DEF Alike
  <2> QED BY <1>1, <1>2, <2>1
<1>4. ASSUME NEW k \in Nat, k \in S PROVE k + 1 \in S
  <2>1. CASE k + 1 <= n
    <3>1. k + 1 \in 1..n /\ (k + 1) - 1 = k /\ Alike(f[k], g[k], R)
      BY <1>0, <1>4, <2>1
    <3>2. f[k + 1] = f[k] ++ a[k + 1] /\ g[k + 1] = g[k] ++ b[k + 1] /\ Alike(a[k + 1], b[k + 1], R)
      BY <1>1, <1>2, <3>1
    <3>3. Alike(f[k] ++ a[k + 1], g[k] ++ b[k + 1], R)
      BY <3>1, <3>2, JoinedAlike
    <3> QED BY <3>2, <3>3
  <2>2. CASE ~(k + 1 <= n)
    BY <2>2
  <2> QED BY <2>1, <2>2
<1> HIDE DEF S
<1>5. n \in S
  BY <1>0, <1>3, <1>4, HoldsAllNaturals
<1> QED BY <1>0, <1>1, <1>2, <1>5 DEF S

\* What is in a flattened list is in one of its lists.
LEMMA FlattenRange ==
    ASSUME NEW a, Lists(a)
    PROVE  Range(FlattenSeq(a)) = UNION {Range(a[l]) : l \in 1..Len(a)}
<1> DEFINE n == Len(a)
<1>0. n \in Nat /\ \A l \in 1..n : IsList(a[l])
  BY ListIs DEF Lists
<1>1. PICK f : /\ \A k \in 0..n : IsList(f[k])
               /\ f[0] = <<>> /\ f[n] = FlattenSeq(a)
               /\ \A k \in 1..n : f[k] = f[k - 1] ++ a[k]
  BY FlattenPrefix
<1> DEFINE S == {k \in Nat : k <= n => Range(f[k]) = UNION {Range(a[l]) : l \in 1..k}}
<1>2. 0 \in S
  <2>1. Range(<<>>) = {}
    BY DEF Range
  <2>2. UNION {Range(a[l]) : l \in 1..0} = {}
    OBVIOUS
  <2> QED BY <1>1, <2>1, <2>2
<1>3. ASSUME NEW k \in Nat, k \in S PROVE k + 1 \in S
  <2>1. CASE k + 1 <= n
    <3>1. k + 1 \in 1..n /\ (k + 1) - 1 = k /\ k \in 0..n
          /\ Range(f[k]) = UNION {Range(a[l]) : l \in 1..k}
      BY <1>0, <1>3, <2>1
    <3>2. f[k + 1] = f[k] ++ a[k + 1] /\ IsList(f[k]) /\ IsList(a[k + 1])
      BY <1>0, <1>1, <3>1
    <3>3. Range(f[k] ++ a[k + 1]) = Range(f[k]) \cup Range(a[k + 1])
      <4>1. PICK x, y, z : x = f[k] /\ y = a[k + 1] /\ z = x ++ y
        OBVIOUS
      <4>2. /\ IsList(z) /\ Len(z) = Len(x) + Len(y) /\ Len(x) \in Nat /\ Len(y) \in Nat
            /\ \A i \in 1..Len(x) : z[i] = x[i]
            /\ \A i \in 1..Len(y) : z[Len(x) + i] = y[i]
            /\ DOMAIN x = 1..Len(x) /\ DOMAIN y = 1..Len(y) /\ DOMAIN z = 1..Len(z)
        <5>1. IsList(x) /\ IsList(y)
          BY <3>2, <4>1
        <5>2. /\ IsList(x ++ y) /\ Len(x ++ y) = Len(x) + Len(y)
              /\ \A i \in 1..Len(x) : (x ++ y)[i] = x[i]
              /\ \A i \in 1..Len(y) : (x ++ y)[Len(x) + i] = y[i]
          BY <5>1, Joined
        <5> QED BY <4>1, <5>1, <5>2, ListIs
      <4>3. \A i \in 1..Len(x) : z[i] \in Range(z)
        BY <4>2 DEF Range
      <4>4. ASSUME NEW i \in 1..Len(y) PROVE y[i] \in Range(z)
        <5>1. Len(x) + i \in DOMAIN z
          BY <4>2
        <5> QED BY <4>2, <5>1 DEF Range
      <4>5. ASSUME NEW i \in DOMAIN z PROVE z[i] \in Range(x) \cup Range(y)
        <5>1. CASE i <= Len(x)
          BY <4>2, <5>1 DEF Range
        <5>2. CASE ~(i <= Len(x))
          <6>1. i - Len(x) \in 1..Len(y) /\ Len(x) + (i - Len(x)) = i
            BY <4>2, <5>2
          <6>2. z[i] = y[i - Len(x)]
            BY <4>2, <6>1
          <6> QED BY <4>2, <6>1, <6>2 DEF Range
        <5> QED BY <5>1, <5>2
      <4>6. Range(x) \subseteq Range(z)
        BY <4>2, <4>3 DEF Range
      <4>7. Range(y) \subseteq Range(z)
        BY <4>2, <4>4 DEF Range
      <4>8. Range(z) \subseteq Range(x) \cup Range(y)
        BY <4>5 DEF Range
      <4> QED BY <4>1, <4>6, <4>7, <4>8
    <3>4. UNION {Range(a[l]) : l \in 1..(k + 1)}
            = (UNION {Range(a[l]) : l \in 1..k}) \cup Range(a[k + 1])
      <4>1. 1..(k + 1) = (1..k) \cup {k + 1}
        OBVIOUS
      <4> QED BY <4>1
    <3> QED BY <3>1, <3>2, <3>3, <3>4
  <2>2. CASE ~(k + 1 <= n)
    BY <2>2
  <2> QED BY <2>1, <2>2
<1> HIDE DEF S
<1>4. n \in S
  BY <1>0, <1>2, <1>3, HoldsAllNaturals
<1> QED BY <1>0, <1>1, <1>4 DEF S

LEMMA FlattenEmpty ==
    ASSUME NEW a, Lists(a)
    PROVE  FlattenSeq(a) = <<>> <=> \A l \in 1..Len(a) : a[l] = <<>>
<1>1. IsList(FlattenSeq(a)) /\ \A l \in 1..Len(a) : IsList(a[l])
  BY FlattenRests DEF Lists
<1>2. \A s : IsList(s) => (s = <<>> <=> Range(s) = {})
  <2> SUFFICES ASSUME NEW s, IsList(s) PROVE s = <<>> <=> Range(s) = {}
    OBVIOUS
  <2>1. s = <<>> => Range(s) = {}
    BY DEF Range
  <2>2. s # <<>> => s[1] \in Range(s)
    <3>1. s # <<>> => 1 \in DOMAIN s
      BY ListIs, NoList
    <3> QED BY <3>1 DEF Range
  <2> QED BY <2>1, <2>2
<1>3. Range(FlattenSeq(a)) = UNION {Range(a[l]) : l \in 1..Len(a)}
  BY FlattenRange
<1>4. Range(FlattenSeq(a)) = {} <=> \A l \in 1..Len(a) : Range(a[l]) = {}
  <2>1. PICK all, of : all = Range(FlattenSeq(a)) /\ of = [l \in 1..Len(a) |-> Range(a[l])]
    OBVIOUS
  <2>2. \A l \in 1..Len(a) : of[l] = Range(a[l])
    BY <2>1
  <2>3. \A v : v \in all <=> \E l \in 1..Len(a) : v \in of[l]
    BY <1>3, <2>1, <2>2
  <2>4. all = {} <=> \A l \in 1..Len(a) : of[l] = {}
    BY <2>3
  <2> QED BY <2>1, <2>2, <2>4
<1>5. \A l \in 1..Len(a) : a[l] = <<>> <=> Range(a[l]) = {}
  BY <1>1, <1>2
<1>6. FlattenSeq(a) = <<>> <=> Range(FlattenSeq(a)) = {}
  BY <1>1, <1>2
<1> QED BY <1>4, <1>5, <1>6

\* Words with a gap between any two stay so, each list ending in one.
Spaced(text) == \A i \in 1..Len(text) : i + 1 \in 1..Len(text) => text[i] = Gap \/ text[i + 1] = Gap
EndsInGap(text) == text # <<>> => text[Len(text)] = Gap

LEMMA JoinedSpaced ==
    ASSUME NEW a, NEW b, IsList(a), IsList(b), Spaced(a), Spaced(b), EndsInGap(a)
    PROVE  Spaced(a ++ b) /\ (EndsInGap(b) => EndsInGap(a ++ b))
<1>1. PICK c : c = a ++ b
  OBVIOUS
<1>2. /\ IsList(c) /\ Len(c) = Len(a) + Len(b) /\ Len(a) \in Nat /\ Len(b) \in Nat
      /\ \A i \in 1..Len(a) : c[i] = a[i]
      /\ \A i \in 1..Len(b) : c[Len(a) + i] = b[i]
  BY <1>1, Joined, ListIs
<1>3. ASSUME NEW i \in 1..Len(c), i + 1 \in 1..Len(c) PROVE c[i] = Gap \/ c[i + 1] = Gap
  <2>1. CASE i + 1 <= Len(a)
    BY <1>2, <2>1 DEF Spaced
  <2>2. CASE i = Len(a)
    <3>1. a # <<>>
      BY <2>2, NoList
    <3> QED BY <1>2, <2>2, <3>1 DEF EndsInGap
  <2>3. CASE i > Len(a)
    <3>1. PICK l : l = i - Len(a)
      OBVIOUS
    <3>2. l \in 1..Len(b) /\ l + 1 \in 1..Len(b) /\ Len(a) + l = i /\ Len(a) + (l + 1) = i + 1
      BY <1>2, <1>3, <2>3, <3>1
    <3>3. c[i] = b[l] /\ c[i + 1] = b[l + 1]
      BY <1>2, <3>2
    <3> QED BY <3>2, <3>3 DEF Spaced
  <2> QED BY <1>2, <2>1, <2>2, <2>3
<1>4. ASSUME EndsInGap(b), c # <<>> PROVE c[Len(c)] = Gap
  <2>1. CASE b = <<>>
    <3>1. c = a
      BY <1>1, <2>1, NoList
    <3> QED BY <1>4, <3>1 DEF EndsInGap
  <2>2. CASE b # <<>>
    <3>1. Len(b) \in 1..Len(b)
      BY <1>2, <2>2, NoList
    <3> QED BY <1>2, <1>4, <2>2, <3>1 DEF EndsInGap
  <2> QED BY <2>1, <2>2
<1> QED BY <1>1, <1>3, <1>4 DEF Spaced, EndsInGap

LEMMA FlattenSpaced ==
    ASSUME NEW a, Lists(a), \A l \in 1..Len(a) : Spaced(a[l]) /\ EndsInGap(a[l])
    PROVE  Spaced(FlattenSeq(a))
<1> DEFINE n == Len(a)
<1>0. n \in Nat /\ \A l \in 1..n : IsList(a[l])
  BY ListIs DEF Lists
<1>1. PICK f : /\ \A k \in 0..n : IsList(f[k])
               /\ f[0] = <<>> /\ f[n] = FlattenSeq(a)
               /\ \A k \in 1..n : f[k] = f[k - 1] ++ a[k]
  BY FlattenPrefix
<1> DEFINE S == {k \in Nat : k <= n => Spaced(f[k]) /\ EndsInGap(f[k])}
<1>2. 0 \in S
  <2>1. Spaced(<<>>) /\ EndsInGap(<<>>)
    BY DEF Spaced, EndsInGap
  <2> QED BY <1>1, <2>1
<1>3. ASSUME NEW k \in Nat, k \in S PROVE k + 1 \in S
  <2>1. CASE k + 1 <= n
    <3>1. k + 1 \in 1..n /\ (k + 1) - 1 = k /\ k \in 0..n /\ Spaced(f[k]) /\ EndsInGap(f[k])
      BY <1>0, <1>3, <2>1
    <3>2. f[k + 1] = f[k] ++ a[k + 1] /\ IsList(f[k]) /\ IsList(a[k + 1])
          /\ Spaced(a[k + 1]) /\ EndsInGap(a[k + 1])
      BY <1>0, <1>1, <3>1
    <3>3. Spaced(f[k] ++ a[k + 1]) /\ EndsInGap(f[k] ++ a[k + 1])
      BY <3>1, <3>2, JoinedSpaced
    <3> QED BY <3>2, <3>3
  <2>2. CASE ~(k + 1 <= n)
    BY <2>2
  <2> QED BY <2>1, <2>2
<1> HIDE DEF S
<1>4. n \in S
  BY <1>0, <1>2, <1>3, HoldsAllNaturals
<1> QED BY <1>0, <1>1, <1>4 DEF S

-----------------------------------------------------------------------------
(* What is detected in a text is hidden in it *)

\* The numbers matched in the first m tokens of a text.
MatchesAt(f, text, i) ==
    /\ text[i].kind = "phone"
    /\ i = 1 \/ (text[i - 1].kind = "gap" /\ (i > 2 => ~f[i - 2]))
Matches(f, text, m) ==
    /\ f \in [1..m -> BOOLEAN]
    /\ \A i \in 1..m : f[i] <=> MatchesAt(f, text, i)

LEMMA MatchesExist ==
    ASSUME NEW text, NEW n \in Nat
    PROVE  \E f : Matches(f, text, n)
<1> DEFINE S == {m \in Nat : \E f : Matches(f, text, m)}
<1>1. 0 \in S
  <2>1. PICK f : f = [i \in 1..0 |-> FALSE]
    OBVIOUS
  <2>2. f \in [1..0 -> BOOLEAN] /\ \A i \in 1..0 : FALSE
    BY <2>1
  <2>3. Matches(f, text, 0)
    BY <2>2 DEF Matches
  <2> QED BY <2>3
<1>2. ASSUME NEW m \in Nat, m \in S PROVE m + 1 \in S
  <2>1. PICK f : Matches(f, text, m)
    BY <1>2
  <2>2. PICK g : g = [i \in 1..(m + 1) |-> IF i <= m THEN f[i] ELSE MatchesAt(f, text, i)]
    OBVIOUS
  <2>3. \A i \in 1..m : i \in 1..(m + 1) /\ i <= m
    OBVIOUS
  <2>4. \A i \in 1..m : f[i] \in BOOLEAN /\ g[i] = f[i]
    BY <2>1, <2>2, <2>3 DEF Matches
  <2>5. g[m + 1] = MatchesAt(f, text, m + 1) /\ MatchesAt(f, text, m + 1) \in BOOLEAN
    <3>1. m + 1 \in 1..(m + 1) /\ ~(m + 1 <= m)
      OBVIOUS
    <3> QED BY <2>2, <3>1 DEF MatchesAt
  <2>6. \A i \in 1..(m + 1) : i \in 1..m \/ i = m + 1
    OBVIOUS
  <2>7. g \in [1..(m + 1) -> BOOLEAN]
    <3>1. \A i \in 1..(m + 1) : g[i] \in BOOLEAN
      BY <2>4, <2>5, <2>6
    <3>2. g = [i \in 1..(m + 1) |-> g[i]]
      BY <2>2
    <3> QED BY <3>1, <3>2
  <2>8. ASSUME NEW i \in 1..(m + 1) PROVE MatchesAt(g, text, i) <=> MatchesAt(f, text, i)
    <3>1. i > 2 => i - 2 \in 1..m
      OBVIOUS
    <3>2. i > 2 => g[i - 2] = f[i - 2]
      BY <2>4, <3>1
    <3> QED BY <3>2 DEF MatchesAt
  <2>9. ASSUME NEW i \in 1..(m + 1) PROVE g[i] <=> MatchesAt(g, text, i)
    <3>1. CASE i \in 1..m
      <4>1. f[i] <=> MatchesAt(f, text, i)
        BY <2>1, <3>1 DEF Matches
      <4> QED BY <2>4, <2>8, <3>1, <4>1
    <3>2. CASE i = m + 1
      BY <2>5, <2>8, <3>2
    <3> QED BY <2>6, <3>1, <3>2
  <2>10. Matches(g, text, m + 1)
    BY <2>7, <2>9 DEF Matches
  <2>11. m + 1 \in Nat
    OBVIOUS
  <2> QED BY <2>10, <2>11
<1> HIDE DEF S
<1>3. n \in S
  BY <1>1, <1>2, HoldsAllNaturals
<1> QED BY <1>3 DEF S

\* A number that has a gap before it is matched, unless the one before that gap is.
LEMMA PhonesAre ==
    ASSUME NEW text, IsList(text)
    PROVE  /\ PhoneSpans(text) \subseteq 1..Len(text)
           /\ \A i \in PhoneSpans(text) : text[i].kind = "phone"
           /\ \A i \in 1..Len(text) :
                 text[i].kind = "phone" /\ (i = 1 \/ text[i - 1].kind = "gap") =>
                   i \in PhoneSpans(text) \/ (i > 2 /\ i - 2 \in PhoneSpans(text))
<1> DEFINE n == Len(text)
<1>0. n \in Nat /\ DOMAIN text = 1..n
  BY ListIs
<1>1. \E f : f = [i \in 1..n |-> /\ text[i].kind = "phone"
                                 /\ i = 1 \/ (text[i - 1].kind = "gap" /\ (i > 2 => ~f[i - 2]))]
  <2>1. PICK f : Matches(f, text, n)
    BY <1>0, MatchesExist
  <2>2. \A i \in 1..n : f[i] = (/\ text[i].kind = "phone"
                                /\ i = 1 \/ (text[i - 1].kind = "gap" /\ (i > 2 => ~f[i - 2])))
    BY <2>1 DEF Matches, MatchesAt
  <2>3. f = [i \in 1..n |-> f[i]]
    BY <2>1 DEF Matches
  <2>4. f = [i \in 1..n |-> /\ text[i].kind = "phone"
                            /\ i = 1 \/ (text[i - 1].kind = "gap" /\ (i > 2 => ~f[i - 2]))]
    BY <2>2, <2>3
  <2> QED BY <2>4
<1>2. PICK f : /\ f = [i \in 1..n |-> /\ text[i].kind = "phone"
                                      /\ i = 1 \/ (text[i - 1].kind = "gap" /\ (i > 2 => ~f[i - 2]))]
               /\ PhoneSpans(text) = {i \in DOMAIN text : f[i]}
  BY <1>1 DEF PhoneSpans
<1>3. ASSUME NEW i \in 1..n PROVE f[i] <=> MatchesAt(f, text, i)
  BY <1>2 DEF MatchesAt
<1>4. PhoneSpans(text) = {i \in 1..n : f[i]}
  BY <1>0, <1>2
<1>5. ASSUME NEW i \in 1..n, text[i].kind = "phone", i = 1 \/ text[i - 1].kind = "gap"
      PROVE  i \in PhoneSpans(text) \/ (i > 2 /\ i - 2 \in PhoneSpans(text))
  <2>1. CASE i > 2 /\ f[i - 2]
    <3>1. i - 2 \in 1..n
      BY <1>0, <2>1
    <3> QED BY <1>4, <2>1, <3>1
  <2>2. CASE ~(i > 2 /\ f[i - 2])
    <3>1. MatchesAt(f, text, i)
      BY <1>5, <2>2 DEF MatchesAt
    <3> QED BY <1>3, <1>4, <3>1
  <2> QED BY <2>1, <2>2
<1>6. \A i \in PhoneSpans(text) : text[i].kind = "phone"
  BY <1>3, <1>4 DEF MatchesAt
<1> QED BY <1>4, <1>5, <1>6

\* A text of the data's own tokens, with a gap between any two words.
Data(text) ==
    /\ IsList(text)
    /\ \A i \in 1..Len(text) : text[i].kind \in TokenKinds /\ text[i] = Token(text[i].kind)
    /\ Spaced(text)

\* What a token may have become.
AllTokens == {Token(kind) : kind \in TokenKinds} \cup {Fake(kind) : kind \in TokenKinds}
MayBecome(types) == {p \in AllTokens \X AllTokens : p[1] = p[2] \/ p[2].kind \in types}

LEMMA TokenIs ==
    /\ \A kind : /\ Token(kind).kind = kind /\ ~Token(kind).fake
                 /\ Fake(kind).kind = kind /\ Fake(kind).fake
                 /\ Token(kind) # Fake(kind)
    /\ Gap.kind = "gap" /\ ~Gap.fake /\ Gap \in AllTokens
    /\ \A kind \in TokenKinds : Token(kind) \in AllTokens /\ Fake(kind) \in AllTokens
<1>1. \A kind : /\ Token(kind).kind = kind /\ ~Token(kind).fake
                /\ Fake(kind).kind = kind /\ Fake(kind).fake
  BY DEF Token, Fake
<1>2. \A kind \in TokenKinds : Token(kind) \in AllTokens /\ Fake(kind) \in AllTokens
  BY DEF AllTokens
<1>3. Gap.kind = "gap" /\ ~Gap.fake /\ Gap \in AllTokens
  <2>1. "gap" \in TokenKinds
    BY DEF TokenKinds
  <2> QED BY <1>1, <1>2, <2>1 DEF Gap
<1>4. \A kind : Token(kind) # Fake(kind)
  BY <1>1
<1> QED BY <1>1, <1>2, <1>3, <1>4

LEMMA MayBecomeIs ==
    ASSUME NEW types, NEW kind \in TokenKinds
    PROVE  /\ <<Token(kind), Token(kind)>> \in MayBecome(types)
           /\ kind \in types => <<Fake(kind), Token(kind)>> \in MayBecome(types)
<1>1. PICK t, f : t = Token(kind) /\ f = Fake(kind)
  OBVIOUS
<1>2. t \in AllTokens /\ f \in AllTokens /\ t.kind = kind
  BY <1>1, TokenIs
<1>3. <<t, t>> \in MayBecome(types)
  BY <1>2 DEF MayBecome
<1>4. kind \in types => <<f, t>> \in MayBecome(types)
  BY <1>2 DEF MayBecome
<1> QED BY <1>1, <1>3, <1>4

LEMMA TextIsData ==
    ASSUME NEW text, IsText(text)
    PROVE  Data(text)
<1>1. IsList(text) /\ DOMAIN text = 1..Len(text)
  BY TextIsList, ListIs
<1>2. ASSUME NEW i \in 1..Len(text) PROVE text[i].kind \in TokenKinds /\ text[i] = Token(text[i].kind)
  <2>1. text[i] \in {Token(kind) : kind \in TokenKinds}
    BY <1>1, ElementOfSeq DEF IsText
  <2>2. PICK kind \in TokenKinds : text[i] = Token(kind)
    BY <2>1
  <2> QED BY <2>2, TokenIs
<1>3. Spaced(text)
  BY <1>1 DEF IsText, Spaced
<1> QED BY <1>1, <1>2, <1>3 DEF Data

\* Nothing changes what stays as it came.
LEMMA DataAlike ==
    ASSUME NEW text, Data(text), NEW types
    PROVE  Alike(text, text, MayBecome(types))
<1>1. ASSUME NEW i \in 1..Len(text) PROVE <<text[i], text[i]>> \in MayBecome(types)
  <2>1. PICK kind : kind = text[i].kind
    OBVIOUS
  <2>2. kind \in TokenKinds /\ text[i] = Token(kind)
    BY <2>1 DEF Data
  <2> QED BY <2>2, MayBecomeIs
<1> QED BY <1>1 DEF Alike, Data

LEMMA SpansAre ==
    ASSUME NEW text, IsList(text), NEW types
    PROVE  /\ Spans(text, types) \subseteq 1..Len(text)
           /\ \A i \in Spans(text, types) : text[i].kind \in {"email", "phone"} \cap types
           /\ \A i \in 1..Len(text) :
                 text[i].kind = "email" /\ "email" \in types => i \in Spans(text, types)
           /\ \A i \in 1..Len(text) :
                 "phone" \in types /\ text[i].kind = "phone" /\ (i = 1 \/ text[i - 1].kind = "gap") =>
                   \/ i \in Spans(text, types)
                   \/ i > 2 /\ i - 2 \in Spans(text, types) /\ text[i - 2].kind = "phone"
<1>1. DOMAIN text = 1..Len(text)
  BY ListIs
<1>2. PICK phones : phones = PhoneSpans(text)
  OBVIOUS
<1>3. /\ phones \subseteq 1..Len(text)
      /\ \A i \in phones : text[i].kind = "phone"
      /\ \A i \in 1..Len(text) :
            text[i].kind = "phone" /\ (i = 1 \/ text[i - 1].kind = "gap") =>
              i \in phones \/ (i > 2 /\ i - 2 \in phones)
  BY <1>2, PhonesAre
<1>4. Spans(text, types) = {i \in 1..Len(text) : text[i].kind = "email" /\ "email" \in types}
                              \cup IF "phone" \in types THEN phones ELSE {}
  BY <1>1, <1>2 DEF Spans
<1> QED BY <1>3, <1>4

LEMMA MaskSpansIs ==
    ASSUME NEW text, IsList(text), NEW types
    PROVE  /\ IsList(MaskSpans(text, types)) /\ Len(MaskSpans(text, types)) = Len(text)
           /\ \A i \in 1..Len(text) :
                 MaskSpans(text, types)[i] = IF i \in Spans(text, types) THEN Fake(text[i].kind)
                                                                         ELSE text[i]
           /\ Spans(text, types) = {} => MaskSpans(text, types) = text
<1>1. DOMAIN text = 1..Len(text)
  BY ListIs
<1>2. PICK out_ : out_ = MaskSpans(text, types)
  OBVIOUS
<1>3. out_ = [i \in DOMAIN text |-> IF i \in Spans(text, types) THEN Fake(text[i].kind) ELSE text[i]]
  BY <1>2 DEF MaskSpans
<1>4. out_ = [i \in DOMAIN text |-> out_[i]]
  BY <1>3
<1>5. IsList(out_) /\ Len(out_) = Len(text)
  BY <1>4, MapIs
<1>6. \A i \in 1..Len(text) :
         out_[i] = IF i \in Spans(text, types) THEN Fake(text[i].kind) ELSE text[i]
  BY <1>1, <1>3
<1>7. Spans(text, types) = {} => out_ = text
  BY <1>5, <1>6, SameList
<1> QED BY <1>2, <1>5, <1>6, <1>7

\* What the spans of a text leave that is detected shares a gap with a number hidden.
LEMMA SpansHide ==
    ASSUME NEW text, Data(text), NEW types, types \subseteq PiiTypes, ~Detected(text, types)
    PROVE  /\ TextHidden(MaskSpans(text, types), types)
           /\ Alike(MaskSpans(text, types), text, MayBecome(types))
<1>1. PICK masked_, spans : masked_ = MaskSpans(text, types) /\ spans = Spans(text, types)
  OBVIOUS
<1>2. /\ IsList(masked_) /\ Len(masked_) = Len(text) /\ Len(text) \in Nat
      /\ DOMAIN masked_ = 1..Len(text)
      /\ \A i \in 1..Len(text) : masked_[i] = IF i \in spans THEN Fake(text[i].kind) ELSE text[i]
  BY <1>1, MaskSpansIs, ListIs DEF Data
<1>3. /\ spans \subseteq 1..Len(text)
      /\ \A i \in spans : text[i].kind \in {"email", "phone"} \cap types
      /\ \A i \in 1..Len(text) : text[i].kind = "email" /\ "email" \in types => i \in spans
      /\ \A i \in 1..Len(text) :
            "phone" \in types /\ text[i].kind = "phone" /\ (i = 1 \/ text[i - 1].kind = "gap") =>
              \/ i \in spans
              \/ i > 2 /\ i - 2 \in spans /\ text[i - 2].kind = "phone"
  BY <1>1, SpansAre DEF Data
<1>4. \A i \in 1..Len(text) : masked_[i].kind = text[i].kind /\ (masked_[i].fake <=> i \in spans)
  <2> SUFFICES ASSUME NEW i \in 1..Len(text)
               PROVE  masked_[i].kind = text[i].kind /\ (masked_[i].fake <=> i \in spans)
    OBVIOUS
  <2>1. PICK kind : kind = text[i].kind
    OBVIOUS
  <2>2. text[i] = Token(kind) /\ masked_[i] = IF i \in spans THEN Fake(kind) ELSE text[i]
    BY <1>2, <2>1 DEF Data
  <2> QED BY <2>1, <2>2, TokenIs
<1>5. ~Detected(masked_, types)
  BY <1>2, <1>4 DEF Detected
<1>6. ASSUME NEW i \in 1..Len(text), masked_[i].kind \in {"email", "phone"} \cap types
      PROVE  masked_[i].fake \/ SharesGap(masked_, i)
  <2>1. CASE i \in spans
    BY <1>4, <2>1
  <2>2. CASE i \notin spans
    <3>1. text[i].kind = "phone" /\ "phone" \in types
      BY <1>3, <1>4, <1>6, <2>2
    <3>2. i # 1 => i - 1 \in 1..Len(text) /\ text[i - 1] = Gap
      <4> SUFFICES ASSUME i # 1 PROVE i - 1 \in 1..Len(text) /\ text[i - 1] = Gap
        OBVIOUS
      <4>1. i - 1 \in 1..Len(text) /\ (i - 1) + 1 = i
        BY <1>2
      <4>2. text[i] # Gap
        BY <3>1, TokenIs
      <4>3. text[i - 1] = Gap \/ text[(i - 1) + 1] = Gap
        BY <4>1 DEF Data, Spaced
      <4> QED BY <4>1, <4>2, <4>3
    <3>3. i = 1 \/ text[i - 1].kind = "gap"
      BY <3>2, TokenIs
    <3>4. i > 2 /\ i - 2 \in spans /\ text[i - 2].kind = "phone"
      BY <1>3, <2>2, <3>1, <3>3
    <3>5. i # 1 /\ i - 1 \in 1..Len(text) /\ text[i - 1] = Gap
      BY <3>2, <3>4
    <3>6. i - 1 \notin spans
      BY <1>3, <3>5, TokenIs
    <3>7. masked_[i - 1] = Gap
      BY <1>2, <3>5, <3>6
    <3>8. masked_[i - 2] = Fake("phone")
      BY <1>2, <1>3, <3>4
    <3>9. masked_[i].kind = "phone"
      BY <1>4, <3>1
    <3> QED BY <3>4, <3>7, <3>8, <3>9 DEF SharesGap
  <2> QED BY <2>1, <2>2
<1>7. TextHidden(masked_, types)
  BY <1>2, <1>5, <1>6 DEF TextHidden
<1>8. ASSUME NEW i \in 1..Len(text) PROVE <<masked_[i], text[i]>> \in MayBecome(types)
  <2>1. PICK kind : kind = text[i].kind
    OBVIOUS
  <2>2. kind \in TokenKinds /\ text[i] = Token(kind)
    BY <2>1 DEF Data
  <2>3. masked_[i] = IF i \in spans THEN Fake(kind) ELSE Token(kind)
    BY <1>2, <2>1, <2>2
  <2>4. i \in spans => kind \in types
    BY <1>3, <2>1
  <2> QED BY <2>2, <2>3, <2>4, MayBecomeIs
<1>9. Alike(masked_, text, MayBecome(types))
  BY <1>2, <1>8 DEF Alike, Data
<1> QED BY <1>1, <1>7, <1>9

-----------------------------------------------------------------------------
(* Cells *)

LEMMA RangeIs ==
    ASSUME NEW s, IsList(s)
    PROVE  Range(s) = {s[i] : i \in 1..Len(s)}
BY ListIs DEF Range

LEMMA DataByToken ==
    ASSUME NEW s, IsList(s)
    PROVE  Data(s) <=> /\ \A t \in Range(s) : t.kind \in TokenKinds /\ t = Token(t.kind)
                       /\ Spaced(s)
<1>1. Range(s) = {s[i] : i \in 1..Len(s)}
  BY RangeIs
<1>2. (\A t \in Range(s) : t.kind \in TokenKinds /\ t = Token(t.kind))
         <=> \A i \in 1..Len(s) : s[i].kind \in TokenKinds /\ s[i] = Token(s[i].kind)
  BY <1>1
<1> QED BY <1>2 DEF Data

\* The characters of the leaves of a document, scalar or array.
Ended(leaves) == [l \in DOMAIN leaves |-> Append(leaves[l].text, Gap)]

LEMMA EndedIs ==
    ASSUME NEW leaves, IsList(leaves), \A l \in 1..Len(leaves) : IsList(leaves[l].text)
    PROVE  /\ Lists(Ended(leaves)) /\ Len(Ended(leaves)) = Len(leaves)
           /\ \A l \in 1..Len(leaves) : Ended(leaves)[l] = leaves[l].text ++ One(Gap)
<1>1. PICK seqs : seqs = Ended(leaves)
  OBVIOUS
<1>2. DOMAIN leaves = 1..Len(leaves)
  BY ListIs
<1>3. /\ seqs = [l \in DOMAIN leaves |-> seqs[l]]
      /\ \A l \in 1..Len(leaves) : seqs[l] = Append(leaves[l].text, Gap)
  BY <1>1, <1>2 DEF Ended
<1>4. IsList(seqs) /\ Len(seqs) = Len(leaves)
  BY <1>3, MapIs
<1>5. ASSUME NEW s, IsList(s) PROVE Append(s, Gap) = s ++ One(Gap)
  <2>1. PICK a, g, b : a = Append(s, Gap) /\ g = One(Gap) /\ b = s ++ g
    OBVIOUS
  <2>2. IsList(g) /\ Len(g) = 1 /\ g[1] = Gap /\ Len(s) \in Nat
    BY <1>5, <2>1, Singled, ListIs
  <2>3. IsList(a) /\ Len(a) = Len(s) + 1 /\ a[Len(s) + 1] = Gap /\ \A i \in 1..Len(s) : a[i] = s[i]
    BY <1>5, <2>1, Appended
  <2>4. IsList(b) /\ Len(b) = Len(s) + 1 /\ b[Len(s) + 1] = Gap /\ \A i \in 1..Len(s) : b[i] = s[i]
    <3>1. /\ IsList(s ++ g) /\ Len(s ++ g) = Len(s) + Len(g)
          /\ \A i \in 1..Len(s) : (s ++ g)[i] = s[i]
          /\ \A i \in 1..Len(g) : (s ++ g)[Len(s) + i] = g[i]
      <4>1. IsList(s) /\ IsList(g)
        BY <1>5, <2>2
      <4> QED BY ONLY <4>1, Joined
    <3> QED BY <2>1, <2>2, <3>1
  <2>5. \A i \in 1..Len(a) : a[i] = b[i]
    <3>1. \A i \in 1..Len(a) : i \in 1..Len(s) \/ i = Len(s) + 1
      BY <2>2, <2>3
    <3> QED BY <2>3, <2>4, <3>1
  <2>6. a = b
    BY <2>3, <2>4, <2>5, SameList
  <2> QED BY <2>1, <2>6
<1>6. ASSUME NEW l \in 1..Len(leaves) PROVE seqs[l] = leaves[l].text ++ One(Gap) /\ IsList(seqs[l])
  <2>1. IsList(leaves[l].text)
    OBVIOUS
  <2>2. IsList(Append(leaves[l].text, Gap))
    BY <2>1, Appended
  <2> QED BY <1>3, <1>5, <2>1, <2>2
<1> QED BY <1>1, <1>4, <1>6 DEF Lists

LEMMA FlatOfLeaves ==
    ASSUME NEW cell, cell.shape \in {"scalar", "document", "array"},
           cell.shape = "scalar" => cell.leaves[1].role = "string"
    PROVE  Flat(cell) = One(Gap) ++ FlattenSeq(Ended(cell.leaves))
BY DEF Flat, Flatten, Ended, One, ++

LEMMA FlatIsData ==
    ASSUME NEW cell, IsCell(cell)
    PROVE  Data(Flat(cell))
<1>0. /\ IsList(cell.leaves) /\ DOMAIN cell.leaves = 1..Len(cell.leaves)
      /\ \A l \in 1..Len(cell.leaves) : IsText(cell.leaves[l].text)
      /\ cell.shape \in {"null", "bytes", "text", "scalar", "document", "array"}
      /\ cell.shape \in {"text", "scalar"} => Len(cell.leaves) = 1
  BY ListIs DEF IsCell
<1>1. CASE cell.shape = "null"
  <2>1. Flat(cell) = <<>>
    BY <1>1 DEF Flat
  <2>2. Data(<<>>)
    BY NoList DEF Data, Spaced
  <2> QED BY <2>1, <2>2
<1>2. CASE cell.shape = "bytes"
  <2>1. PICK word : word = Token("word")
    OBVIOUS
  <2>2. Flat(cell) = One(word)
    BY <1>2, <2>1 DEF Flat, One
  <2>3. IsList(One(word)) /\ Len(One(word)) = 1 /\ One(word)[1] = word
    BY Singled
  <2>4. word.kind = "word" /\ "word" \in TokenKinds
    BY <2>1, TokenIs DEF TokenKinds
  <2>5. Data(One(word))
    BY <2>1, <2>3, <2>4 DEF Data, Spaced
  <2> QED BY <2>2, <2>5
<1>3. CASE cell.shape = "text" \/ (cell.shape = "scalar" /\ cell.leaves[1].role # "string")
  <2>1. Flat(cell) = cell.leaves[1].text
    BY <1>3 DEF Flat
  <2>2. 1 \in 1..Len(cell.leaves)
    BY <1>0, <1>3
  <2> QED BY <1>0, <2>1, <2>2, TextIsData
<1>4. CASE /\ cell.shape \in {"scalar", "document", "array"}
           /\ cell.shape = "scalar" => cell.leaves[1].role = "string"
  <2>1. PICK seqs, n, gap, flat :
           /\ seqs = Ended(cell.leaves) /\ n = Len(cell.leaves) /\ gap = One(Gap)
           /\ flat = FlattenSeq(seqs)
    OBVIOUS
  <2>2. \A l \in 1..n : Data(cell.leaves[l].text) /\ IsList(cell.leaves[l].text)
    BY <1>0, <2>1, TextIsData, TextIsList
  <2>3. Lists(seqs) /\ Len(seqs) = n /\ \A l \in 1..n : seqs[l] = cell.leaves[l].text ++ gap
    BY <1>0, <2>1, <2>2, EndedIs
  <2>4. IsList(gap) /\ Len(gap) = 1 /\ gap[1] = Gap
    BY <2>1, Singled
  <2>5. Spaced(gap) /\ EndsInGap(gap)
    BY <2>4 DEF Spaced, EndsInGap
  <2> DEFINE R == {p \in AllTokens \X AllTokens : p[2].kind \in TokenKinds /\ p[2] = Token(p[2].kind)}
  <2>7. ASSUME NEW s, IsList(s)
        PROVE  (\A i \in 1..Len(s) : s[i].kind \in TokenKinds /\ s[i] = Token(s[i].kind)) <=> Alike(s, s, R)
    <3>1. ASSUME NEW i \in 1..Len(s)
          PROVE  (s[i].kind \in TokenKinds /\ s[i] = Token(s[i].kind)) <=> <<s[i], s[i]>> \in R
      <4>1. PICK t : t = s[i]
        OBVIOUS
      <4>2. t.kind \in TokenKinds /\ t = Token(t.kind) => t \in AllTokens
        BY TokenIs
      <4> QED BY <4>1, <4>2
    <3> QED BY <2>7, <3>1 DEF Alike
  <2>8. Gap.kind \in TokenKinds /\ Gap = Token(Gap.kind)
    BY TokenIs DEF Gap, TokenKinds
  <2>9. Alike(gap, gap, R)
    <3>1. \A i \in 1..Len(gap) : gap[i] = Gap
      BY <2>4
    <3> QED BY <2>4, <2>7, <2>8, <3>1
  <2> HIDE DEF R
  <2>10. ASSUME NEW l \in 1..n
         PROVE  Alike(seqs[l], seqs[l], R) /\ Spaced(seqs[l]) /\ EndsInGap(seqs[l])
    <3>1. PICK text : text = cell.leaves[l].text
      OBVIOUS
    <3>2. Data(text) /\ IsList(text) /\ seqs[l] = text ++ gap
      BY <2>2, <2>3, <3>1
    <3>3. Alike(text, text, R)
      BY <2>7, <3>2 DEF Data
    <3>4. Alike(text ++ gap, text ++ gap, R)
      BY <2>9, <3>3, JoinedAlike
    <3>5. Spaced(text ++ gap) /\ EndsInGap(text ++ gap)
      <4>1. PICK c : c = text ++ gap
        OBVIOUS
      <4>2. /\ IsList(c) /\ Len(c) = Len(text) + 1 /\ Len(text) \in Nat
            /\ \A i \in 1..Len(text) : c[i] = text[i]
            /\ c[Len(text) + 1] = Gap
        <5>1. /\ IsList(text ++ gap) /\ Len(text ++ gap) = Len(text) + Len(gap)
              /\ \A i \in 1..Len(text) : (text ++ gap)[i] = text[i]
              /\ \A i \in 1..Len(gap) : (text ++ gap)[Len(text) + i] = gap[i]
          <6>1. IsList(text) /\ IsList(gap)
            BY <2>4, <3>2
          <6> QED BY ONLY <6>1, Joined
        <5> QED BY <2>4, <3>2, <4>1, <5>1, ListIs
      <4>3. ASSUME NEW i \in 1..Len(c), i + 1 \in 1..Len(c) PROVE c[i] = Gap \/ c[i + 1] = Gap
        <5>1. CASE i + 1 = Len(text) + 1
          BY <4>2, <5>1
        <5>2. CASE i + 1 # Len(text) + 1
          <6>1. i \in 1..Len(text) /\ i + 1 \in 1..Len(text)
            BY <4>2, <4>3, <5>2
          <6> QED BY <3>2, <4>2, <6>1 DEF Data, Spaced
        <5> QED BY <5>1, <5>2
      <4> QED BY <4>1, <4>2, <4>3 DEF Spaced, EndsInGap
    <3> QED BY <3>2, <3>4, <3>5
  <2>11. IsList(seqs)
    BY <2>3 DEF Lists
  <2>12. Alike(flat, flat, R)
    BY <2>1, <2>3, <2>10, <2>11, FlattenAlike
  <2>13. Spaced(flat) /\ IsList(flat)
    BY <2>1, <2>3, <2>10, FlattenSpaced, FlattenRests
  <2>14. Alike(gap ++ flat, gap ++ flat, R) /\ Spaced(gap ++ flat) /\ IsList(gap ++ flat)
    BY <2>4, <2>5, <2>9, <2>12, <2>13, JoinedAlike, JoinedSpaced, Joined
  <2>15. Data(gap ++ flat)
    BY <2>7, <2>14 DEF Data
  <2>16. Flat(cell) = gap ++ flat
    BY <1>4, <2>1, FlatOfLeaves
  <2> QED BY <2>15, <2>16
<1> QED BY <1>0, <1>1, <1>2, <1>3, <1>4

\* An array whose leaves have become others has characters that have become others.
LEMMA FlatAlike ==
    ASSUME NEW cell, IsCell(cell), NEW types, NEW leaves, cell.shape = "array",
           IsList(leaves), Len(leaves) = Len(cell.leaves),
           \A l \in 1..Len(leaves) : Alike(leaves[l].text, cell.leaves[l].text, MayBecome(types))
    PROVE  Alike(Flat(Cell(cell.shape, leaves)), Flat(cell), MayBecome(types))
<1>1. PICK made, n : made = Cell(cell.shape, leaves) /\ n = Len(leaves)
  OBVIOUS
<1>2. made.shape = "array" /\ made.leaves = leaves
  BY <1>1 DEF Cell
<1>3. IsList(cell.leaves)
  BY DEF IsCell
<1>4. \A l \in 1..n : IsList(leaves[l].text) /\ IsList(cell.leaves[l].text)
  BY <1>1 DEF Alike
<1>5. PICK a, b, gap, R :
         a = Ended(leaves) /\ b = Ended(cell.leaves) /\ gap = One(Gap) /\ R = MayBecome(types)
  OBVIOUS
<1>6. Lists(a) /\ Len(a) = n /\ \A l \in 1..n : a[l] = leaves[l].text ++ gap
  BY <1>1, <1>4, <1>5, EndedIs
<1>7. Lists(b) /\ Len(b) = n /\ \A l \in 1..n : b[l] = cell.leaves[l].text ++ gap
  BY <1>1, <1>3, <1>4, <1>5, EndedIs
<1>8. Alike(gap, gap, R)
  <2>1. IsList(gap) /\ Len(gap) = 1 /\ gap[1] = Gap
    BY <1>5, Singled
  <2>2. <<Gap, Gap>> \in R
    BY <1>5, MayBecomeIs DEF Gap, TokenKinds
  <2> QED BY <2>1, <2>2 DEF Alike
<1>9. ASSUME NEW l \in 1..n PROVE Alike(a[l], b[l], R)
  <2>1. Alike(leaves[l].text, cell.leaves[l].text, R)
    BY <1>1, <1>5
  <2> QED BY <1>6, <1>7, <1>8, <2>1, JoinedAlike
<1>10. Alike(FlattenSeq(a), FlattenSeq(b), R)
  BY <1>6, <1>7, <1>9, FlattenAlike DEF Lists
<1>11. Flat(cell) = gap ++ FlattenSeq(b) /\ Flat(made) = gap ++ FlattenSeq(a)
  BY <1>2, <1>5, FlatOfLeaves
<1> QED BY <1>1, <1>5, <1>8, <1>10, <1>11, JoinedAlike

\* A text that is detected whole makes way for a stand-in.
LEMMA WholeHides ==
    ASSUME NEW text, Data(text), NEW types, types \subseteq PiiTypes, Detected(text, types)
    PROVE  /\ TextHidden(<<Fake(text[1].kind)>>, types)
           /\ <<Fake(text[1].kind)>>[1].fake
           /\ Alike(<<Fake(text[1].kind)>>, text, MayBecome(types))
<1>1. PICK kind, fake, one : kind = text[1].kind /\ fake = Fake(kind) /\ one = One(fake)
  OBVIOUS
<1>2. IsList(one) /\ Len(one) = 1 /\ one[1] = fake /\ DOMAIN one = 1..1
  BY <1>1, Singled, ListIs
<1>3. fake.fake
  BY <1>1, TokenIs
<1>4. TextHidden(one, types)
  BY <1>2, <1>3 DEF TextHidden
<1>5. kind \in types /\ kind \in TokenKinds /\ text[1] = Token(kind) /\ Len(text) = 1 /\ IsList(text)
  BY <1>1 DEF Detected, Data
<1>6. Alike(one, text, MayBecome(types))
  <2>1. <<fake, text[1]>> \in MayBecome(types)
    BY <1>1, <1>5, MayBecomeIs
  <2>2. \A i \in 1..Len(one) : i = 1
    BY <1>2
  <2> QED BY <1>2, <1>5, <2>1, <2>2 DEF Alike
<1> QED BY <1>1, <1>2, <1>3, <1>4, <1>6 DEF One

LEMMA AlikeIs ==
    ASSUME NEW a, NEW b, NEW types, Alike(a, b, MayBecome(types))
    PROVE  IsList(a) /\ OnlyDetectedChanged(a, b, types)
<1>1. DOMAIN a = 1..Len(a) /\ IsList(a) /\ Len(a) = Len(b)
  BY ListIs DEF Alike
<1>2. \A i \in 1..Len(a) : a[i] = b[i] \/ b[i].kind \in types
  BY DEF Alike, MayBecome
<1> QED BY <1>1, <1>2 DEF OnlyDetectedChanged

LEMMA StringMasked ==
    ASSUME NEW leaf, leaf = Leaf(leaf.role, leaf.text), IsText(leaf.text),
           NEW types, types \subseteq PiiTypes
    PROVE  LET made == MaskString(leaf, types)
           IN /\ made.role = leaf.role /\ IsList(made.text)
              /\ made # leaf => made.text # leaf.text
              /\ OnlyDetectedChanged(made.text, leaf.text, types)
              /\ TextHidden(made.text, types)
<1>1. PICK made, text, whole, spans :
         /\ made = MaskString(leaf, types) /\ text = leaf.text
         /\ whole = <<Fake(text[1].kind)>> /\ spans = MaskSpans(text, types)
  OBVIOUS
<1>2. Data(text)
  BY <1>1, TextIsData
<1>3. \A t : /\ [leaf EXCEPT !.text = t].role = leaf.role /\ [leaf EXCEPT !.text = t].text = t
             /\ [leaf EXCEPT !.text = t] = Leaf(leaf.role, t)
  BY DEF Leaf
<1>4. ASSUME NEW t, made = [leaf EXCEPT !.text = t], TextHidden(t, types),
             Alike(t, text, MayBecome(types))
      PROVE  /\ made.role = leaf.role /\ IsList(made.text)
             /\ made # leaf => made.text # leaf.text
             /\ OnlyDetectedChanged(made.text, leaf.text, types)
             /\ TextHidden(made.text, types)
  <2>1. made.role = leaf.role /\ made.text = t /\ made = Leaf(leaf.role, t)
    BY <1>3, <1>4
  <2>2. IsList(t) /\ OnlyDetectedChanged(t, text, types)
    BY <1>4, AlikeIs
  <2> QED BY <1>1, <1>4, <2>1, <2>2
<1>5. CASE Detected(text, types)
  <2>1. made = [leaf EXCEPT !.text = whole]
    BY <1>1, <1>5 DEF MaskString
  <2>2. TextHidden(whole, types) /\ Alike(whole, text, MayBecome(types))
    BY <1>1, <1>2, <1>5, WholeHides
  <2> QED BY <1>1, <1>4, <2>1, <2>2
<1>6. CASE ~Detected(text, types)
  <2>1. made = [leaf EXCEPT !.text = spans]
    BY <1>1, <1>6 DEF MaskString
  <2>2. TextHidden(spans, types) /\ Alike(spans, text, MayBecome(types))
    BY <1>1, <1>2, <1>6, SpansHide
  <2> QED BY <1>1, <1>4, <2>1, <2>2
<1> QED BY <1>5, <1>6

\* A leaf of a document that is printed anew.
LEMMA LeafRewritten ==
    ASSUME NEW leaf, leaf = Leaf(leaf.role, leaf.text), leaf.role \in Roles, IsText(leaf.text),
           NEW types, types \subseteq PiiTypes
    PROVE  LET made == RewriteLeaf(leaf, types)
           IN /\ made.role = leaf.role /\ IsList(made.text)
              /\ LeafReprinted(made, leaf, types)
              /\ leaf.role = "string" => TextHidden(made.text, types)
<1>1. PICK made, text : made = RewriteLeaf(leaf, types) /\ text = leaf.text
  OBVIOUS
<1>2. \A t : [leaf EXCEPT !.text = t].role = leaf.role /\ [leaf EXCEPT !.text = t].text = t
  BY DEF Leaf
<1>3. CASE leaf.role = "string"
  <2>1. made = MaskString(leaf, types)
    BY <1>1, <1>3 DEF RewriteLeaf
  <2>2. /\ made.role = leaf.role /\ IsList(made.text)
        /\ OnlyDetectedChanged(made.text, leaf.text, types) /\ TextHidden(made.text, types)
    BY <2>1, StringMasked
  <2> QED BY <1>1, <1>3, <2>2 DEF LeafReprinted
<1>4. CASE leaf.role = "other"
  <2>1. PICK printed : printed = Reprinted(text)
    OBVIOUS
  <2>2. made.role = leaf.role /\ made.text = printed
    BY <1>1, <1>2, <1>4, <2>1 DEF RewriteLeaf
  <2>3. IsList(text) /\ DOMAIN text = 1..Len(text)
    BY <1>1, TextIsList, ListIs
  <2>4. /\ printed = [i \in DOMAIN text |-> printed[i]]
        /\ \A i \in DOMAIN text :
              printed[i] = IF text[i].kind = "long" THEN Token("rounded") ELSE text[i]
    BY <2>1 DEF Reprinted
  <2>5. IsList(printed) /\ Len(printed) = Len(text) /\ DOMAIN printed = DOMAIN text
    BY <2>3, <2>4, MapIs
  <2>6. OnlyRounded(printed, text)
    BY <2>4, <2>5 DEF OnlyRounded
  <2> QED BY <1>1, <1>4, <2>2, <2>5, <2>6 DEF LeafReprinted
<1>5. CASE leaf.role = "shadowed"
  <2>1. made.role = leaf.role /\ made.text = <<>>
    BY <1>1, <1>2, <1>5 DEF RewriteLeaf
  <2> QED BY <1>1, <1>5, <2>1, NoList DEF LeafReprinted
<1> QED BY <1>3, <1>4, <1>5 DEF Roles

\* The characters of a document or scalar of any leaves.
LEMMA FlatIsList ==
    ASSUME NEW cell, cell.shape \in {"scalar", "document"}, IsList(cell.leaves),
           cell.shape = "scalar" => Len(cell.leaves) = 1,
           \A l \in 1..Len(cell.leaves) : IsList(cell.leaves[l].text)
    PROVE  IsList(Flat(cell))
<1>1. CASE cell.shape = "scalar" /\ cell.leaves[1].role # "string"
  <2>1. Flat(cell) = cell.leaves[1].text
    BY <1>1 DEF Flat
  <2>2. 1 \in 1..Len(cell.leaves)
    BY <1>1
  <2> QED BY <2>1, <2>2
<1>2. CASE cell.shape = "scalar" => cell.leaves[1].role = "string"
  <2>1. PICK flat : flat = FlattenSeq(Ended(cell.leaves))
    OBVIOUS
  <2>2. Flat(cell) = One(Gap) ++ flat
    BY <1>2, <2>1, FlatOfLeaves
  <2>3. IsList(flat)
    BY <2>1, EndedIs, FlattenRests
  <2> QED BY <2>2, <2>3, FirstOf
<1> QED BY <1>1, <1>2

\* A document or scalar masked as JSON shows nothing that is detected in its strings, and is
\* as it came unless one of them has changed.
LEMMA JsonMasked ==
    ASSUME NEW cell, IsCell(cell), IsJson(cell), NEW types, types \subseteq PiiTypes
    PROVE  LET made == MaskJson(cell, types)
           IN /\ made.shape = cell.shape /\ IsJson(made) /\ IsList(Flat(made))
              /\ JsonHidden(made, types)
              /\ made = cell \/ DocumentReprinted(made, cell, types)
<1>1. PICK made, leaves, n :
         /\ made = MaskJson(cell, types) /\ n = Len(cell.leaves)
         /\ leaves = [l \in DOMAIN cell.leaves |-> RewriteLeaf(cell.leaves[l], types)]
  OBVIOUS
<1>2. /\ cell = Cell(cell.shape, cell.leaves) /\ cell.shape \in {"document", "scalar"}
      /\ IsList(cell.leaves) /\ DOMAIN cell.leaves = 1..n
      /\ \A l \in 1..n : /\ cell.leaves[l] = Leaf(cell.leaves[l].role, cell.leaves[l].text)
                         /\ cell.leaves[l].role \in Roles /\ IsText(cell.leaves[l].text)
      /\ cell.shape = "scalar" => n = 1
  BY <1>1, ListIs DEF IsCell, IsJson
<1>3. CASE StringsChange(cell, types)
  <2>1. leaves = [l \in DOMAIN cell.leaves |-> leaves[l]]
        /\ \A l \in 1..n : leaves[l] = RewriteLeaf(cell.leaves[l], types)
    BY <1>1, <1>2
  <2>2. IsList(leaves) /\ Len(leaves) = n /\ DOMAIN leaves = 1..n
    BY <1>1, <1>2, <2>1, MapIs
  <2>3. \A l \in 1..n : /\ leaves[l].role = cell.leaves[l].role /\ IsList(leaves[l].text)
                        /\ LeafReprinted(leaves[l], cell.leaves[l], types)
                        /\ cell.leaves[l].role = "string" => TextHidden(leaves[l].text, types)
    BY <1>2, <2>1, LeafRewritten
  <2>4. made.shape = cell.shape /\ made.leaves = leaves
    <3>1. made = [cell EXCEPT !.leaves = leaves]
      BY <1>1, <1>3 DEF MaskJson
    <3> QED BY <1>2, <3>1 DEF Cell
  <2>5. JsonHidden(made, types)
    BY <2>2, <2>3, <2>4 DEF JsonHidden
  <2>6. IsList(Flat(made))
    <3>1. /\ made.shape \in {"scalar", "document"} /\ IsList(made.leaves)
          /\ made.shape = "scalar" => Len(made.leaves) = 1
      BY <1>2, <2>2, <2>4
    <3>2. \A l \in 1..Len(made.leaves) : IsList(made.leaves[l].text)
      BY <2>2, <2>3, <2>4
    <3> QED BY <3>1, <3>2, FlatIsList
  <2>7. PICK l \in 1..n : /\ cell.leaves[l].role = "string"
                          /\ MaskString(cell.leaves[l], types) # cell.leaves[l]
    BY <1>2, <1>3 DEF StringsChange
  <2>8. leaves[l].text # cell.leaves[l].text
    <3>1. PICK leaf : leaf = cell.leaves[l]
      OBVIOUS
    <3>2. leaf = Leaf(leaf.role, leaf.text) /\ IsText(leaf.text) /\ leaf.role = "string"
      BY <1>2, <2>7, <3>1
    <3>3. leaves[l] = MaskString(leaf, types)
      BY <2>1, <3>1, <3>2 DEF RewriteLeaf
    <3> QED BY <2>7, <3>1, <3>2, <3>3, StringMasked
  <2>9. DocumentReprinted(made, cell, types)
    BY <1>2, <2>2, <2>3, <2>4, <2>7, <2>8 DEF DocumentReprinted
  <2> QED BY <1>1, <1>2, <2>4, <2>5, <2>6, <2>9 DEF IsJson
<1>4. CASE ~StringsChange(cell, types)
  <2>1. made = cell
    BY <1>1, <1>4 DEF MaskJson
  <2>2. ASSUME NEW l \in DOMAIN cell.leaves, cell.leaves[l].role = "string"
        PROVE  TextHidden(cell.leaves[l].text, types)
    <3>1. PICK leaf : leaf = cell.leaves[l]
      OBVIOUS
    <3>2. leaf = Leaf(leaf.role, leaf.text) /\ IsText(leaf.text)
      BY <1>2, <3>1
    <3>3. MaskString(leaf, types) = leaf
      BY <1>4, <2>2, <3>1 DEF StringsChange
    <3>4. TextHidden(MaskString(leaf, types).text, types)
      BY <3>2, StringMasked
    <3> QED BY <3>1, <3>3, <3>4
  <2>3. JsonHidden(cell, types)
    BY <2>2 DEF JsonHidden
  <2>4. IsList(Flat(cell))
    BY FlatIs
  <2> QED BY <1>1, <2>1, <2>3, <2>4
<1> QED BY <1>3, <1>4

LEMMA ArrayMasked ==
    ASSUME NEW cell, IsCell(cell), cell.shape = "array", NEW types, types \subseteq PiiTypes
    PROVE  /\ MaskArray(cell, types) = Cell("array", MaskArray(cell, types).leaves)
           /\ \A l \in DOMAIN MaskArray(cell, types).leaves :
                 LET text == MaskArray(cell, types).leaves[l].text
                 IN Detected(text, types) => text[1].fake
           /\ Alike(Flat(MaskArray(cell, types)), Flat(cell), MayBecome(types))
<1>1. PICK made, n, leaves :
         /\ made = MaskArray(cell, types) /\ n = Len(cell.leaves)
         /\ leaves = [l \in DOMAIN cell.leaves |->
               IF Detected(cell.leaves[l].text, types)
               THEN [cell.leaves[l] EXCEPT !.text = <<Fake(cell.leaves[l].text[1].kind)>>]
               ELSE cell.leaves[l]]
  OBVIOUS
<1>2. /\ cell = Cell(cell.shape, cell.leaves)
      /\ IsList(cell.leaves) /\ DOMAIN cell.leaves = 1..n
      /\ \A l \in 1..n : /\ cell.leaves[l] = Leaf(cell.leaves[l].role, cell.leaves[l].text)
                         /\ Data(cell.leaves[l].text)
  BY <1>1, ListIs, TextIsData DEF IsCell
<1>3. leaves = [l \in DOMAIN cell.leaves |-> leaves[l]]
  BY <1>1
<1>4. IsList(leaves) /\ Len(leaves) = n /\ DOMAIN leaves = 1..n
  BY <1>1, <1>2, <1>3, MapIs
<1>5. ASSUME NEW l \in 1..n
      PROVE  /\ Alike(leaves[l].text, cell.leaves[l].text, MayBecome(types))
             /\ Detected(leaves[l].text, types) => leaves[l].text[1].fake
  <2>1. PICK leaf, whole : leaf = cell.leaves[l] /\ whole = <<Fake(leaf.text[1].kind)>>
    OBVIOUS
  <2>2. Data(leaf.text) /\ leaf = Leaf(leaf.role, leaf.text)
    BY <1>2, <2>1
  <2>3. leaves[l] = IF Detected(leaf.text, types) THEN [leaf EXCEPT !.text = whole] ELSE leaf
    BY <1>1, <1>2, <2>1
  <2>4. CASE Detected(leaf.text, types)
    <3>1. leaves[l].text = whole
      BY <2>2, <2>3, <2>4 DEF Leaf
    <3>2. whole[1].fake /\ Alike(whole, leaf.text, MayBecome(types))
      BY <2>1, <2>2, <2>4, WholeHides
    <3> QED BY <2>1, <3>1, <3>2
  <2>5. CASE ~Detected(leaf.text, types)
    BY <2>1, <2>2, <2>3, <2>5, DataAlike
  <2> QED BY <2>4, <2>5
<1>6. made = Cell("array", leaves)
  <2>1. made = [cell EXCEPT !.leaves = leaves]
    BY <1>1 DEF MaskArray
  <2> QED BY <1>2, <2>1 DEF Cell
<1>7. made.leaves = leaves
  BY <1>6 DEF Cell
<1>8. Alike(Flat(made), Flat(cell), MayBecome(types))
  <2>1. Len(leaves) = Len(cell.leaves)
    BY <1>1, <1>4
  <2>2. \A l \in 1..Len(leaves) : Alike(leaves[l].text, cell.leaves[l].text, MayBecome(types))
    BY <1>4, <1>5
  <2>3. made = Cell(cell.shape, leaves)
    BY <1>6
  <2> QED BY <1>4, <2>1, <2>2, <2>3, FlatAlike
<1> QED BY <1>1, <1>4, <1>5, <1>6, <1>7, <1>8

\* What is reported of a cell is whether it changed, and what of it is made up.
Tells(m, cell) ==
    /\ IsList(m.used) /\ IsList(m.shown) /\ IsList(Flat(m.cell))
    /\ m.cell = Null <=> cell = Null
    /\ m.cell = cell => m.used = <<>> /\ m.shown = <<>>
    /\ m.cell # cell => m.used # <<>> /\ m.shown # <<>>
    /\ \A i \in 1..Len(m.shown) :
          m.shown[i].fake /\ m.shown[i] \in {Fake("word")} \cup Range(Flat(m.cell))

LEMMA MaskedIs ==
    \A cell, used, shown : /\ Masked(cell, used, shown).cell = cell
                           /\ Masked(cell, used, shown).used = used
                           /\ Masked(cell, used, shown).shown = shown
BY DEF Masked

LEMMA KeptTells ==
    ASSUME NEW cell, IsCell(cell)
    PROVE  Tells(Kept(cell), cell)
<1>1. Kept(cell).cell = cell /\ Kept(cell).used = <<>> /\ Kept(cell).shown = <<>>
  BY DEF Kept, Masked
<1>2. IsList(Flat(cell))
  BY FlatIs
<1>3. \A i \in 1..Len(<<>>) : FALSE
  BY NoList
<1> QED BY <1>1, <1>2, <1>3, NoList DEF Tells

LEMMA ChangedTells ==
    ASSUME NEW cell, NEW made, NEW used, made # cell, made # Null, cell # Null,
           IsList(Flat(made)), IsList(used), used # <<>>
    PROVE  Tells(Masked(made, used, Marker), cell)
<1>1. PICK m, word : m = Masked(made, used, Marker) /\ word = Fake("word")
  OBVIOUS
<1>2. m.cell = made /\ m.used = used /\ m.shown = One(word)
  BY <1>1, MaskedIs DEF Marker, One
<1>3. IsList(One(word)) /\ Len(One(word)) = 1 /\ One(word)[1] = word
  BY Singled
<1>4. One(word) # <<>> /\ word.fake
  BY <1>1, <1>3, NoList, TokenIs
<1> QED BY <1>1, <1>2, <1>3, <1>4 DEF Tells

LEMMA TextOf ==
    ASSUME NEW text
    PROVE  Text(text).shape = "text" /\ Flat(Text(text)) = text /\ Text(text) # Null
<1>1. PICK leaf : leaf = Leaf("string", text)
  OBVIOUS
<1>2. Text(text).shape = "text" /\ Text(text).leaves = One(leaf)
  BY <1>1 DEF Text, Cell, One
<1>3. One(leaf)[1] = leaf /\ leaf.text = text
  BY <1>1, Singled DEF Leaf
<1>4. Flat(Text(text)) = text
  BY <1>2, <1>3 DEF Flat
<1>5. Null.shape = "null"
  BY DEF Null, Cell
<1> QED BY <1>2, <1>4, <1>5

LEMMA ReplacedTells ==
    ASSUME NEW cell, IsCell(cell), cell # Null, NEW kind
    PROVE  /\ Tells(Replaced(kind), cell)
           /\ Flat(Replaced(kind).cell) = <<Fake(kind)>>
           /\ Replaced(kind).cell.shape = "text"
<1>1. PICK m, fake, made : m = Replaced(kind) /\ fake = Fake(kind) /\ made = Text(One(fake))
  OBVIOUS
<1>2. m.cell = made /\ m.used = One(kind) /\ m.shown = One(fake)
  BY <1>1, MaskedIs DEF Replaced, One
<1>3. /\ IsList(One(fake)) /\ Len(One(fake)) = 1 /\ One(fake)[1] = fake
      /\ IsList(One(kind)) /\ Len(One(kind)) = 1
  BY Singled
<1>4. made.shape = "text" /\ Flat(made) = One(fake) /\ made # Null
  BY <1>1, TextOf
<1>5. made # cell
  <2> SUFFICES ASSUME made = cell PROVE FALSE
    OBVIOUS
  <2>1. Data(Flat(cell))
    BY FlatIsData
  <2>2. Data(One(fake))
    BY <1>4, <2>1
  <2>3. One(fake)[1] = Token(One(fake)[1].kind)
    BY <1>3, <2>2 DEF Data
  <2> QED BY <1>1, <1>3, <2>3, TokenIs
<1>6. One(fake) # <<>> /\ One(kind) # <<>> /\ fake.fake
  BY <1>1, <1>3, NoList, TokenIs
<1>7. fake \in Range(One(fake))
  BY <1>3, RangeIs
<1>8. \A i \in 1..Len(One(fake)) : One(fake)[i] = fake
  BY <1>3
<1>9. Tells(m, cell)
  BY <1>2, <1>3, <1>4, <1>5, <1>6, <1>7, <1>8 DEF Tells
<1> QED BY <1>1, <1>2, <1>4, <1>9 DEF One

\* The heuristics: nothing detected is left but what is not looked into, and nothing else is
\* changed.
Looked(m, cell, types) ==
    CellHidden(m.cell, cell, types) /\ ElseAsItCame(m.cell, cell, types)

LEMMA ContentMasked ==
    ASSUME NEW cell, IsCell(cell), cell # Null, NEW types, types \subseteq PiiTypes
    PROVE  /\ Tells(MaskByContent(cell, types), cell)
           /\ Looked(MaskByContent(cell, types), cell, types)
<1> DEFINE json  == MaskJson(cell, types)
           array == MaskArray(cell, types)
           text  == Flat(cell)
           spans == Spans(text, types)
<1>1. PICK m, R : m = MaskByContent(cell, types) /\ R = MayBecome(types)
  OBVIOUS
<1>2. /\ cell.shape \in {"null", "bytes", "text", "scalar", "document", "array"}
      /\ Data(text) /\ IsList(text) /\ Alike(text, text, R) /\ OnlyDetectedChanged(text, text, types)
  BY <1>1, FlatIsData, DataAlike, AlikeIs DEF IsCell, Data
<1>3. Tells(Kept(cell), cell) /\ Kept(cell).cell = cell
  BY KeptTells DEF Kept, Masked
<1>4. ASSUME NEW made, NEW used, made.shape # "null", made # cell,
             IsList(Flat(made)), IsList(used), used # <<>>
      PROVE  /\ Tells(Masked(made, used, Marker), cell)
             /\ Masked(made, used, Marker).cell = made
  <2>1. made # Null
    BY <1>4 DEF Null, Cell
  <2> QED BY <1>4, <2>1, ChangedTells, MaskedIs
<1>11. ASSUME NEW made, cell.shape # "document", Alike(Flat(made), text, R)
       PROVE  IsList(Flat(made)) /\ ElseAsItCame(made, cell, types)
  <2>1. IsList(Flat(made)) /\ OnlyDetectedChanged(Flat(made), text, types)
    BY <1>1, <1>11, AlikeIs
  <2> QED BY <1>11, <2>1 DEF ElseAsItCame
<1>12. ElseAsItCame(cell, cell, types)
  BY <1>2 DEF ElseAsItCame
<1>5. \A x : IsList(<<x>>) /\ <<x>> # <<>>
  BY Singled, NoList DEF One
<1>10. ASSUME cell.shape \in {"bytes", "document", "array"} PROVE ~Detected(text, types)
  <2>1. text[1].kind \in {"word", "gap"}
    <3>1. CASE cell.shape = "bytes"
      <4>1. PICK word : word = Token("word")
        OBVIOUS
      <4>2. text = One(word) /\ One(word)[1] = word /\ word.kind = "word"
        BY <3>1, <4>1, Singled, TokenIs DEF Flat, One
      <4> QED BY <4>2
    <3>2. CASE cell.shape \in {"document", "array"}
      <4>1. text = One(Gap) ++ FlattenSeq(Ended(cell.leaves))
        BY <3>2, FlatOfLeaves
      <4>2. IsList(FlattenSeq(Ended(cell.leaves)))
        <5>1. IsList(cell.leaves) /\ \A l \in 1..Len(cell.leaves) : IsList(cell.leaves[l].text)
          BY ListIs, TextIsList DEF IsCell
        <5> QED BY <5>1, EndedIs, FlattenRests
      <4> QED BY <4>1, <4>2, FirstOf, TokenIs
    <3> QED BY <1>10, <3>1, <3>2
  <2>2. "word" \notin types /\ "gap" \notin types
    BY DEF PiiTypes
  <2> QED BY <2>1, <2>2 DEF Detected
<1>6. CASE cell.shape = "bytes"
  <2>1. m = Kept(cell)
    BY <1>1, <1>6, <1>10 DEF MaskByContent
  <2>2. text = <<Token("word")>>
    BY <1>6 DEF Flat
  <2>3. TextHidden(text, types)
    <3>1. PICK word : word = Token("word")
      OBVIOUS
    <3>2. text = One(word) /\ DOMAIN One(word) = 1..1 /\ One(word)[1] = word /\ Len(One(word)) = 1
      BY <2>2, <3>1, Singled, ListIs DEF One
    <3>3. word.kind = "word" /\ "word" \notin types /\ "word" \notin {"email", "phone"}
      BY <3>1, TokenIs DEF PiiTypes
    <3> QED BY <3>2, <3>3 DEF TextHidden, Detected
  <2>4. CellHidden(cell, cell, types)
    BY <1>6, <2>3 DEF CellHidden
  <2> QED BY <1>1, <1>3, <1>12, <2>1, <2>4 DEF Looked
<1>7. CASE cell.shape = "document"
  <2>1. m = IF json = cell THEN Kept(cell) ELSE Masked(json, <<"json">>, Marker)
    BY <1>1, <1>7, <1>10 DEF MaskByContent
  <2>2. /\ json.shape = "document" /\ JsonHidden(json, types) /\ IsList(Flat(json))
        /\ json = cell \/ DocumentReprinted(json, cell, types)
    <3>1. IsJson(cell)
      BY <1>7 DEF IsJson
    <3> QED BY <1>1, <1>7, <3>1, JsonMasked
  <2>3. CellHidden(json, cell, types) /\ ElseAsItCame(json, cell, types)
    BY <1>7, <2>2 DEF CellHidden, ElseAsItCame
  <2> HIDE DEF json, text
  <2>4. CASE json = cell
    BY <1>1, <1>3, <2>1, <2>3, <2>4 DEF Looked
  <2>5. CASE json # cell
    <3>1. /\ Tells(Masked(json, <<"json">>, Marker), cell)
          /\ Masked(json, <<"json">>, Marker).cell = json
      BY <1>4, <1>5, <2>2, <2>5
    <3> QED BY <1>1, <2>1, <2>3, <2>5, <3>1 DEF Looked
  <2> QED BY <2>4, <2>5
<1>8. CASE cell.shape = "array" /\ array # cell
  <2>1. m = Masked(array, <<"other">>, Marker)
    BY <1>1, <1>8, <1>10 DEF MaskByContent
  <2>2. /\ array.shape = "array" /\ Alike(Flat(array), text, R)
        /\ \A l \in DOMAIN array.leaves : Detected(array.leaves[l].text, types) => array.leaves[l].text[1].fake
    BY <1>1, <1>8, ArrayMasked DEF Cell
  <2> HIDE DEF array, text
  <2>3. CellHidden(array, cell, types)
    BY <1>8, <2>2 DEF CellHidden, ArrayHidden
  <2>5. IsList(Flat(array)) /\ ElseAsItCame(array, cell, types)
    BY <1>8, <1>11, <2>2
  <2>4. /\ Tells(Masked(array, <<"other">>, Marker), cell)
        /\ Masked(array, <<"other">>, Marker).cell = array
    BY <1>4, <1>5, <1>8, <2>2, <2>5
  <2> QED BY <1>1, <2>1, <2>3, <2>4, <2>5 DEF Looked
<1>9. CASE cell.shape \notin {"bytes", "document"} /\ ~(cell.shape = "array" /\ array # cell)
  <2>1. m = IF Detected(text, types) THEN Replaced(text[1].kind)
            ELSE IF spans = {} THEN Kept(cell)
            ELSE Masked(Text(MaskSpans(text, types)),
                        FlattenSeq([i \in DOMAIN text |->
                            IF i \in spans THEN <<text[i].kind>> ELSE <<>>]), Marker)
    BY <1>1, <1>9 DEF MaskByContent
  <2>2. \A made : made.shape = "text" => (CellHidden(made, cell, types) <=> TextHidden(Flat(made), types))
    BY DEF CellHidden
  <2>3. CellHidden(cell, cell, types) <=> TextHidden(text, types)
    BY <1>9 DEF CellHidden, ArrayHidden
  <2>4. CASE Detected(text, types)
    <3>1. PICK kind : kind = text[1].kind
      OBVIOUS
    <3>2. Tells(m, cell) /\ Flat(m.cell) = <<Fake(kind)>> /\ m.cell.shape = "text"
      BY <2>1, <2>4, <3>1, ReplacedTells
    <3>3. TextHidden(<<Fake(kind)>>, types) /\ Alike(<<Fake(kind)>>, text, R)
      BY <1>1, <1>2, <2>4, <3>1, WholeHides
    <3>4. ElseAsItCame(m.cell, cell, types)
      BY <1>9, <1>11, <3>2, <3>3
    <3> QED BY <1>1, <2>2, <3>2, <3>3, <3>4 DEF Looked
  <2>5. CASE ~Detected(text, types)
    <3>1. PICK hidden, used :
             /\ hidden = MaskSpans(text, types)
             /\ used = FlattenSeq([i \in DOMAIN text |-> IF i \in spans THEN <<text[i].kind>> ELSE <<>>])
      OBVIOUS
    <3>2. TextHidden(hidden, types) /\ Alike(hidden, text, R)
      BY <1>1, <1>2, <2>5, <3>1, SpansHide
    <3>3. CASE spans = {}
      <4>1. hidden = text
        BY <1>2, <3>1, <3>3, MaskSpansIs
      <4>2. m = Kept(cell)
        BY <2>1, <2>5, <3>3
      <4> QED BY <1>1, <1>3, <1>12, <2>3, <3>2, <4>1, <4>2 DEF Looked
    <3>4. CASE spans # {}
      <4>1. m = Masked(Text(hidden), used, Marker)
        BY <2>1, <2>5, <3>1, <3>4
      <4>2. Text(hidden).shape = "text" /\ Flat(Text(hidden)) = hidden
        BY TextOf
      <4>3. PICK i : i \in spans
        BY <3>4
      <4>4. i \in 1..Len(text)
        BY <1>2, <4>3, SpansAre
      <4>5. hidden # text
        <5>1. hidden[i] = Fake(text[i].kind)
          BY <1>2, <3>1, <4>3, <4>4, MaskSpansIs
        <5>2. text[i] = Token(text[i].kind)
          BY <1>2, <4>4 DEF Data
        <5> QED BY <5>1, <5>2, TokenIs
      <4>6. Text(hidden) # cell
        BY <4>2, <4>5
      <4>7. IsList(used) /\ used # <<>>
        <5>1. PICK seqs : seqs = [l \in DOMAIN text |-> IF l \in spans THEN <<text[l].kind>> ELSE <<>>]
          OBVIOUS
        <5>2. seqs = [l \in DOMAIN text |-> seqs[l]] /\ DOMAIN text = 1..Len(text)
              /\ \A l \in 1..Len(text) : seqs[l] = IF l \in spans THEN <<text[l].kind>> ELSE <<>>
          BY <1>2, <5>1, ListIs
        <5>3. IsList(seqs) /\ Len(seqs) = Len(text)
          BY <1>2, <5>2, MapIs
        <5>4. Lists(seqs) /\ seqs[i] # <<>>
          BY <1>5, <4>3, <4>4, <5>2, <5>3, NoList DEF Lists
        <5>5. used = FlattenSeq(seqs)
          BY <3>1, <5>1
        <5> QED BY <4>4, <5>3, <5>4, <5>5, FlattenRests, FlattenEmpty
      <4>9. IsList(Flat(Text(hidden))) /\ ElseAsItCame(Text(hidden), cell, types)
        BY <1>9, <1>11, <3>2, <4>2
      <4>8. Tells(m, cell) /\ m.cell = Text(hidden)
        BY <1>4, <4>1, <4>2, <4>6, <4>7, <4>9
      <4> QED BY <1>1, <2>2, <3>2, <4>2, <4>8, <4>9 DEF Looked
    <3> QED BY <3>3, <3>4
  <2> QED BY <2>4, <2>5
<1> QED BY <1>2, <1>6, <1>7, <1>8, <1>9

\* Under a rule nothing of the data's own is left, but of a document under a json rule.
HiddenBy(cell, strategy, types) ==
    Own(cell) = {} \/ (strategy = "json" /\ IsJson(cell) /\ JsonHidden(cell, types))

LEMMA NoneOwn ==
    ASSUME NEW cell, NEW fake, Flat(cell) = <<fake>>, fake.fake
    PROVE  Own(cell) = {}
<1>1. DOMAIN One(fake) = 1..1 /\ One(fake)[1] = fake
  BY Singled, ListIs
<1> QED BY <1>1 DEF Own, One

LEMMA RuleMasked ==
    ASSUME NEW cell, IsCell(cell), cell # Null, NEW strategy, NEW types, types \subseteq PiiTypes
    PROVE  /\ Tells(MaskByRule(cell, strategy, types), cell)
           /\ HiddenBy(MaskByRule(cell, strategy, types).cell, strategy, types)
<1>1. PICK m, json : m = MaskByRule(cell, strategy, types) /\ json = MaskJson(cell, types)
  OBVIOUS
<1>2. IsList(<<"json">>) /\ <<"json">> # <<>>
  <2>1. \A x : IsList(One(x)) /\ One(x) # <<>>
    BY Singled, NoList
  <2> QED BY <2>1 DEF One
<1>3. CASE strategy = "json" /\ ~IsJson(cell)
  <2>1. PICK word, made : word = Fake("word") /\ made = Text(One(word))
    OBVIOUS
  <2>2. m = Masked(made, <<"json">>, Marker)
    BY <1>1, <1>3, <2>1 DEF MaskByRule, Sentinel, Marker, One
  <2>3. made = Replaced("word").cell
    BY <2>1 DEF Replaced, Masked, One
  <2>4. /\ Tells(Replaced("word"), cell) /\ Flat(made) = <<word>> /\ made.shape = "text"
    BY <2>1, <2>3, ReplacedTells
  <2>5. made # cell
    <3>1. Replaced("word").shown # <<>> /\ Replaced("word").cell = made
      <4>1. Replaced("word").shown = One(word)
        BY <2>1 DEF Replaced, Masked, One
      <4> QED BY <2>3, <4>1, Singled, NoList
    <3> QED BY <2>4, <3>1 DEF Tells
  <2>6. IsList(Flat(made)) /\ made # Null
    BY <2>1, <2>3, <2>4, TextOf DEF Tells
  <2>7. Tells(m, cell)
    BY <1>2, <2>2, <2>5, <2>6, ChangedTells
  <2>8. Own(made) = {}
    BY <2>1, <2>4, NoneOwn, TokenIs
  <2> QED BY <1>1, <2>2, <2>7, <2>8, MaskedIs DEF HiddenBy
<1>4. CASE strategy = "json" /\ IsJson(cell)
  <2>1. m = IF json = cell THEN Kept(cell) ELSE Masked(json, <<"json">>, Marker)
    BY <1>1, <1>4 DEF MaskByRule
  <2>2. IsJson(json) /\ JsonHidden(json, types) /\ IsList(Flat(json))
    BY <1>1, <1>4, JsonMasked
  <2>3. json # Null
    BY <2>2 DEF IsJson, Null, Cell
  <2>4. m.cell = json
    BY <2>1, MaskedIs DEF Kept
  <2>5. Tells(m, cell)
    BY <1>2, <2>1, <2>2, <2>3, KeptTells, ChangedTells
  <2> QED BY <1>1, <1>4, <2>2, <2>4, <2>5 DEF HiddenBy
<1>5. CASE strategy # "json"
  <2>1. m = Replaced(strategy)
    BY <1>1, <1>5 DEF MaskByRule
  <2>2. Tells(m, cell) /\ Flat(m.cell) = <<Fake(strategy)>>
    BY <2>1, ReplacedTells
  <2>3. Own(m.cell) = {}
    BY <2>2, NoneOwn, TokenIs
  <2> QED BY <1>1, <2>2, <2>3 DEF HiddenBy
<1> QED BY <1>3, <1>4, <1>5

LEMMA CellMasked ==
    ASSUME NEW cell, IsCell(cell), NEW strategy, NEW heuristics, heuristics.types \subseteq PiiTypes
    PROVE  /\ Tells(MaskCell(cell, strategy, heuristics), cell)
           /\ strategy # NoRule =>
                 HiddenBy(MaskCell(cell, strategy, heuristics).cell, strategy, heuristics.types)
           /\ strategy = NoRule /\ heuristics.enabled =>
                 Looked(MaskCell(cell, strategy, heuristics), cell, heuristics.types)
<1>1. PICK m, types : m = MaskCell(cell, strategy, heuristics) /\ types = heuristics.types
  OBVIOUS
<1>2. CASE cell = Null
  <2>1. m = Kept(cell) /\ m.cell = cell
    BY <1>1, <1>2 DEF MaskCell, Kept, Masked
  <2>2. Tells(m, cell)
    BY <2>1, KeptTells
  <2>3. cell.shape = "null" /\ Flat(cell) = <<>>
    BY <1>2 DEF Null, Cell, Flat
  <2>4. DOMAIN <<>> = {} /\ Len(<<>>) = 0
    OBVIOUS
  <2>5. Own(cell) = {}
    BY <2>3, <2>4 DEF Own
  <2>6. TextHidden(Flat(cell), types)
    BY <2>3, <2>4 DEF TextHidden, Detected
  <2>7. CellHidden(cell, cell, types)
    BY <2>3, <2>6 DEF CellHidden
  <2>8. OnlyDetectedChanged(Flat(cell), Flat(cell), types)
    BY <2>3, <2>4 DEF OnlyDetectedChanged
  <2>9. ElseAsItCame(cell, cell, types)
    BY <2>3, <2>8 DEF ElseAsItCame
  <2> QED BY <1>1, <2>1, <2>2, <2>5, <2>7, <2>9 DEF HiddenBy, Looked
<1>3. CASE cell # Null /\ strategy # NoRule
  <2>1. m = MaskByRule(cell, strategy, types)
    BY <1>1, <1>3 DEF MaskCell
  <2> QED BY <1>1, <1>3, <2>1, RuleMasked
<1>4. CASE cell # Null /\ strategy = NoRule /\ heuristics.enabled
  <2>1. m = MaskByContent(cell, types)
    BY <1>1, <1>4 DEF MaskCell
  <2> QED BY <1>1, <1>4, <2>1, ContentMasked
<1>5. CASE cell # Null /\ strategy = NoRule /\ ~heuristics.enabled
  <2>1. m = Kept(cell)
    BY <1>1, <1>5 DEF MaskCell
  <2> QED BY <1>1, <1>5, <2>1, KeptTells
<1> QED BY <1>2, <1>3, <1>4, <1>5

\* A row, cell by cell.
Strategy(targets_, c) == IF c \in DOMAIN targets_ THEN targets_[c] ELSE NoRule
Shows(row) ==
    \A token \in Range(row.shown) :
        token.fake /\ (token = Fake("word") \/ \E c \in 1..Len(row.values) : token \in Range(Flat(row.values[c])))
Hides(row, values, strategies, policy) ==
    policy.enabled => \A c \in 1..Len(values) :
        /\ Strategy(strategies, c) # NoRule =>
              HiddenBy(row.values[c], Strategy(strategies, c), policy.heuristics.types)
        /\ Strategy(strategies, c) = NoRule /\ policy.heuristics.enabled =>
              /\ CellHidden(row.values[c], values[c], policy.heuristics.types)
              /\ ElseAsItCame(row.values[c], values[c], policy.heuristics.types)
LEMMA RowMasked ==
    ASSUME NEW values, IsList(values), \A c \in 1..Len(values) : IsCell(values[c]),
           NEW strategies, NEW policy, policy.heuristics.types \subseteq PiiTypes
    PROVE  LET row == MaskRow(values, strategies, policy)
           IN /\ IsList(row.values) /\ Len(row.values) = Len(values)
              /\ \A c \in 1..Len(values) : /\ IsList(Flat(row.values[c]))
                                           /\ row.values[c] = Null <=> values[c] = Null
              /\ IsList(row.used) /\ IsList(row.shown)
              /\ row.values = values => row.used = <<>> /\ row.shown = <<>>
              /\ row.values # values => row.used # <<>> /\ row.shown # <<>>
              /\ Shows(row) /\ Hides(row, values, strategies, policy)
<1>1. PICK row, n, types, cells, after, used, shown :
         /\ row = MaskRow(values, strategies, policy) /\ n = Len(values)
         /\ types = policy.heuristics.types
         /\ cells = [c \in DOMAIN values |->
                        MaskCell(values[c], Strategy(strategies, c), policy.heuristics)]
         /\ after = [c \in DOMAIN cells |-> cells[c].cell]
         /\ used = [c \in DOMAIN cells |-> cells[c].used]
         /\ shown = [c \in DOMAIN cells |-> cells[c].shown]
  OBVIOUS
<1>2. DOMAIN values = 1..n /\ n \in Nat /\ \A c \in 1..n : IsList(Flat(values[c]))
  BY <1>1, ListIs, FlatIs
<1>3. CASE ~policy.enabled
  <2>1. row.values = values /\ row.used = <<>> /\ row.shown = <<>>
    BY <1>1, <1>3 DEF MaskRow
  <2>2. Range(<<>>) = {}
    BY DEF Range
  <2>3. Shows(row) /\ Hides(row, values, strategies, policy)
    BY <1>3, <2>1, <2>2 DEF Shows, Hides
  <2> QED BY <1>1, <1>2, <1>3, <2>1, <2>3, NoList
<1>4. CASE policy.enabled
  <2>1. row.values = after /\ row.used = FlattenSeq(used) /\ row.shown = FlattenSeq(shown)
    BY <1>1, <1>4 DEF MaskRow, Strategy
  <2>2. DOMAIN cells = 1..n
        /\ \A c \in 1..n : cells[c] = MaskCell(values[c], Strategy(strategies, c), policy.heuristics)
    BY <1>1, <1>2
  <2>3. \A c \in 1..n :
           /\ Tells(cells[c], values[c])
           /\ Strategy(strategies, c) # NoRule =>
                 HiddenBy(cells[c].cell, Strategy(strategies, c), types)
           /\ Strategy(strategies, c) = NoRule /\ policy.heuristics.enabled =>
                 Looked(cells[c], values[c], types)
    BY <1>1, <2>2, CellMasked
  <2>4. /\ after = [c \in 1..n |-> after[c]] /\ used = [c \in 1..n |-> used[c]]
        /\ shown = [c \in 1..n |-> shown[c]]
        /\ \A c \in 1..n : after[c] = cells[c].cell /\ used[c] = cells[c].used /\ shown[c] = cells[c].shown
    BY <1>1, <2>2
  <2>5. /\ IsList(after) /\ Len(after) = n /\ IsList(used) /\ Len(used) = n
        /\ IsList(shown) /\ Len(shown) = n
    BY <1>2, <2>4, ListOf
  <2>6. Lists(used) /\ Lists(shown)
    BY <2>3, <2>4, <2>5 DEF Lists, Tells
  <2>7. IsList(row.used) /\ IsList(row.shown)
    BY <2>1, <2>6, FlattenRests
  <2>8. row.used = <<>> <=> \A c \in 1..n : used[c] = <<>>
    BY <2>1, <2>5, <2>6, FlattenEmpty
  <2>9. row.shown = <<>> <=> \A c \in 1..n : shown[c] = <<>>
    BY <2>1, <2>5, <2>6, FlattenEmpty
  <2>10. \A c \in 1..n : /\ after[c] = values[c] => used[c] = <<>> /\ shown[c] = <<>>
                         /\ after[c] # values[c] => used[c] # <<>> /\ shown[c] # <<>>
    BY <2>3, <2>4 DEF Tells
  <2>11. after = values <=> \A c \in 1..n : after[c] = values[c]
    <3>1. IsList(after) /\ IsList(values) /\ Len(after) = Len(values) /\ Len(after) = n
      BY <1>1, <2>5
    <3>2. (\A c \in 1..Len(after) : after[c] = values[c]) => after = values
      BY ONLY <3>1, SameList
    <3> QED BY <3>1, <3>2
  <2>12. ASSUME NEW token \in Range(row.shown)
         PROVE  token.fake /\ (token = Fake("word") \/ \E c \in 1..n : token \in Range(Flat(after[c])))
    <3>1. PICK c \in 1..n : token \in Range(shown[c])
      BY <2>1, <2>5, <2>6, <2>12, FlattenRange
    <3>2. IsList(shown[c]) /\ Tells(cells[c], values[c]) /\ shown[c] = cells[c].shown
      BY <2>3, <2>4 DEF Tells
    <3>3. PICK i \in 1..Len(shown[c]) : token = shown[c][i]
      BY <3>1, <3>2, RangeIs
    <3> QED BY <2>4, <3>2, <3>3 DEF Tells
  <2>13. \A c \in 1..n : IsList(Flat(after[c])) /\ (after[c] = Null <=> values[c] = Null)
    BY <2>3, <2>4 DEF Tells
  <2>14. \A c \in 1..n :
            /\ Strategy(strategies, c) # NoRule =>
                  HiddenBy(after[c], Strategy(strategies, c), types)
            /\ Strategy(strategies, c) = NoRule /\ policy.heuristics.enabled =>
                  /\ CellHidden(after[c], values[c], types)
                  /\ ElseAsItCame(after[c], values[c], types)
    BY <2>3, <2>4 DEF Looked
  <2>15. row.values = values => row.used = <<>> /\ row.shown = <<>>
    BY <2>1, <2>8, <2>9, <2>10, <2>11
  <2>16. row.values # values => row.used # <<>> /\ row.shown # <<>>
    BY <2>1, <2>8, <2>9, <2>10, <2>11
  <2>17. Shows(row)
    BY <2>1, <2>5, <2>12 DEF Shows
  <2>18. Hides(row, values, strategies, policy)
    BY <1>1, <2>1, <2>14 DEF Hides
  <2> QED BY <1>1, <2>1, <2>5, <2>7, <2>13, <2>15, <2>16, <2>17, <2>18
<1> QED BY <1>3, <1>4

-----------------------------------------------------------------------------
(* What goes to the other side *)

\* What a peer of the session would write for a message.
PeerCode(w, m) ==
    IF w.protocol = "postgres" THEN PgEncode(m)
    ELSE IF m.kind = "Query"
         THEN WriteChunked(<<Unit("command", "query")>> \o Flatten(Char, m.body), m.id)
         ELSE MySqlEncode(m)
Code(w, m) == IF w.protocol = "postgres" THEN PgEncode(m) ELSE MySqlEncode(m)
Long(w, m) == w.protocol = "mysql" /\ m.kind = "Query" /\ Len(m.body) + 1 >= Chunk

\* The first messages are the SSLRequests.
AskedOf(w) == {i \in DOMAIN w.traffic : w.traffic[i].kind = "SSLRequest"}
LEMMA AskedIs ==
    ASSUME NEW w, IsJob(w)
    PROVE  /\ Cardinality(AskedOf(w)) \in 0..Len(w.traffic)
           /\ \A i \in 1..Len(w.traffic) :
                 w.traffic[i].kind = "SSLRequest" <=> i <= Cardinality(AskedOf(w))
<1> DEFINE T == Len(w.traffic)
           Free == {i \in 1..(T + 1) : i = T + 1 \/ w.traffic[i].kind # "SSLRequest"}
<1>0. /\ T \in Nat /\ DOMAIN w.traffic = 1..T
      /\ \A i \in 1..T : w.traffic[i].kind \in Kinds(w) /\ InOrder(w, i)
  BY TrafficIs
<1>1. T + 1 \in Free /\ Free \in SUBSET Nat
  BY <1>0
<1>2. PICK first \in Free : \A i \in Free : first <= i
  BY <1>1, LeastMember
<1>3. first \in 1..(T + 1) /\ (first <= T => w.traffic[first].kind # "SSLRequest")
  BY <1>0, <1>2
<1>4. \A i \in 1..(first - 1) : i \in 1..T /\ w.traffic[i].kind = "SSLRequest"
  BY <1>0, <1>2, <1>3
<1> HIDE DEF Free
<1>5. ASSUME NEW i \in 1..T, w.traffic[i].kind = "SSLRequest" PROVE i < first
  <2>1. w.protocol = "postgres" /\ w.side = "client"
    <3>1. "SSLRequest" \in Kinds(w)
      BY <1>0, <1>5
    <3>2. w.protocol \in {"postgres", "mysql"} /\ w.side \in {"client", "server"}
      BY DEF IsJob
    <3> QED BY <3>1, <3>2 DEF Kinds
  <2>2. \A l \in 1..(i - 1) : w.traffic[l].kind = "SSLRequest"
    BY <1>0, <1>5, <2>1 DEF InOrder
  <2>3. ~(first < i)
    BY <1>0, <1>3, <2>2
  <2>4. first # i
    BY <1>3, <1>5
  <2> QED BY <1>3, <2>3, <2>4
<1>6. AskedOf(w) = 1..(first - 1)
  BY <1>0, <1>3, <1>4, <1>5 DEF AskedOf
<1>7. Cardinality(1..(first - 1)) = first - 1
  <2>1. PICK last : last = first - 1
    OBVIOUS
  <2>2. last \in Nat /\ 1 \in Int /\ last \in Int
    BY <1>3, <2>1, <1>0
  <2>3. Cardinality(1..last) = IF 1 > last THEN 0 ELSE last - 1 + 1
    BY <2>2, FS_Interval
  <2> QED BY <2>1, <2>2, <2>3
<1>8. Cardinality(AskedOf(w)) = first - 1
  BY <1>6, <1>7
<1> QED BY <1>0, <1>3, <1>4, <1>5, <1>8

\* The code of a message that is passed on as it came.
LEMMA CodeOf ==
    ASSUME NEW w, IsJob(w), NEW i \in 1..Len(w.traffic)
    PROVE  /\ PeerCode(w, w.traffic[i]) = Writes(w, w.traffic[i])
           /\ IsList(PeerCode(w, w.traffic[i]))
           /\ ~Long(w, w.traffic[i]) => Code(w, w.traffic[i]) = PeerCode(w, w.traffic[i])
<1>1. PICK m, k : m = w.traffic[i] /\ k = i - 1
  OBVIOUS
<1>2. k \in 0..(Len(w.traffic) - 1) /\ m = w.traffic[k + 1]
  BY <1>1, TrafficIs
<1>3. IsList(Writes(w, m))
  <2>1. PICK pieces : pieces = Pieces(w, w.traffic[k + 1])
    OBVIOUS
  <2>2. Lists(pieces) /\ Writes(w, m) = FlattenSeq(pieces)
    BY <1>2, <2>1, PieceRead
  <2> QED BY <2>2, FlattenRests
<1>4. CASE w.protocol = "postgres"
  BY <1>1, <1>3, <1>4 DEF PeerCode, Writes, Code
<1>5. CASE w.protocol # "postgres"
  <2>1. m.kind \in MyKinds /\ IsMySqlPacket(m) /\ w.protocol = "mysql"
    BY <1>2, <1>5, MyPieceRead DEF IsJob
  <2>2. PeerCode(w, m) = WriteChunked(MyPayload(m), m.id)
    BY <1>5, <2>1 DEF PeerCode, MySqlEncode, MyPayload, MyKinds, One, ++
  <2>3. Writes(w, m) = WriteChunked(MyPayload(m), m.id)
    BY <1>5 DEF Writes
  <2>4. CASE m.kind # "Query"
    BY <1>1, <1>3, <1>5, <2>2, <2>3, <2>4 DEF PeerCode, Code
  <2>5. ASSUME m.kind = "Query", ~Long(w, m) PROVE MySqlEncode(m) = WriteChunked(MyPayload(m), m.id)
    <3>1. PICK body, payload, command, chars, id :
             /\ body = m.body /\ payload = MyPayload(m) /\ command = Unit("command", "query")
             /\ chars = Flatten(Char, body) /\ id = m.id
      OBVIOUS
    <3>2. IsList(body) /\ id \in 0..(SeqIds - 1)
      BY <2>1, <2>5, <3>1 DEF IsMySqlPacket
    <3>3. IsList(chars) /\ Len(chars) = Len(body) /\ Len(body) \in Nat
      BY <3>1, <3>2, CharsAre, ListIs
    <3>4. payload = One(command) ++ chars
      BY <2>5, <3>1 DEF MyPayload
    <3>5. IsList(payload) /\ Len(payload) = Len(body) + 1
      BY <3>3, <3>4, FirstOf
    <3>6. Len(body) + 1 < Chunk /\ Chunk \in Nat \ {0} /\ SeqIds \in Nat \ {0}
      BY <2>1, <2>5, <3>1, <3>3, FramesAssumption DEF Long
    <3>7. Full(payload) = 0
      <4>1. PICK n, c : n = Len(payload) /\ c = Chunk
        OBVIOUS
      <4>2. n \in Nat /\ c \in Nat \ {0} /\ n < c
        BY <3>3, <3>5, <3>6, <4>1
      <4>3. n \div c = 0
        BY <4>2, SMTT(30)
      <4> QED BY <4>1, <4>3 DEF Full
    <3>8. PICK parts : parts = Packets(payload, id)
      OBVIOUS
    <3>9. /\ Lists(parts) /\ Len(parts) = 1 /\ WriteChunked(payload, id) = FlattenSeq(parts)
          /\ parts[1] = Packet(ChunkOf(payload, 1), (id + 1 - 1) % SeqIds)
      <4>1. /\ Lists(parts) /\ Len(parts) = Full(payload) + 1
            /\ WriteChunked(payload, id) = FlattenSeq(parts)
            /\ \A l \in 1..(Full(payload) + 1) :
                  parts[l] = Packet(ChunkOf(payload, l), (id + l - 1) % SeqIds)
        BY <3>5, <3>8, PacketsAre
      <4>2. 1 \in 1..(Full(payload) + 1) /\ Full(payload) + 1 = 1
        BY <3>7
      <4> QED BY <4>1, <4>2
    <3>10. (id + 1 - 1) % SeqIds = id
      <4>1. id + 1 - 1 = id
        BY <3>2
      <4>2. id % SeqIds = id
        BY <3>2, <3>6, SMTT(30)
      <4> QED BY <4>1, <4>2
    <3>11. ChunkOf(payload, 1) = payload
      <4>1. 1 > Full(payload) /\ (1 - 1) * Chunk + 1 = 1
        BY <3>6, <3>7
      <4>2. SubSeq(payload, 1, Len(payload)) = payload
        BY <3>5, OneMore
      <4> QED BY <4>1, <4>2 DEF ChunkOf
    <3>12. WriteChunked(payload, id) = Packet(payload, id)
      BY <3>9, <3>10, <3>11, FlattenOne
    <3>13. Packet(payload, id) = Two(Unit("len", Len(payload)), Unit("id", id)) ++ payload
      BY DEF Packet, Two, ++
    <3>14. PICK length, number : length = Unit("len", Len(payload)) /\ number = Unit("id", id)
      OBVIOUS
    <3>15. (Len(body) + 1) % (Chunk + 1) = Len(payload)
      <4>1. PICK n, c : n = Len(body) + 1 /\ c = Chunk + 1
        OBVIOUS
      <4>2. n \in Nat /\ c \in Nat \ {0} /\ n < c
        BY <3>3, <3>6, <4>1
      <4>3. n % c = n
        BY <4>2, SMTT(30)
      <4> QED BY <3>5, <4>1, <4>3
    <3>16. MySqlEncode(m) = <<length, number, command>> \o chars
      BY <2>5, <3>1, <3>14, <3>15 DEF MySqlEncode
    <3>17. <<length, number, command>> = Two(length, number) ++ One(command)
      <4>1. PICK three, pair, one : /\ three = <<length, number, command>>
                                    /\ pair = Two(length, number) /\ one = One(command)
        OBVIOUS
      <4>2. IsList(pair) /\ Len(pair) = 2 /\ pair[1] = length /\ pair[2] = number
        BY <4>1, TwoIs
      <4>3. IsList(one) /\ Len(one) = 1 /\ one[1] = command
        BY <4>1, Singled
      <4>4. three = [l \in 1..3 |-> three[l]] /\ three[1] = length /\ three[2] = number /\ three[3] = command
        BY <4>1
      <4>5. IsList(three) /\ Len(three) = 3
        BY <4>4, ListOf
      <4>6. PICK joined : joined = pair ++ one
        OBVIOUS
      <4>7. IsList(joined) /\ Len(joined) = 3 /\ joined[1] = length /\ joined[2] = number /\ joined[3] = command
        <5>1. IsList(pair) /\ IsList(one)
          BY <4>2, <4>3
        <5>2. /\ IsList(pair ++ one) /\ Len(pair ++ one) = Len(pair) + Len(one)
              /\ \A l \in 1..Len(pair) : (pair ++ one)[l] = pair[l]
              /\ \A l \in 1..Len(one) : (pair ++ one)[Len(pair) + l] = one[l]
          BY ONLY <5>1, Joined
        <5>3. 1 \in 1..Len(pair) /\ 2 \in 1..Len(pair) /\ 1 \in 1..Len(one) /\ Len(pair) + 1 = 3 /\ Len(pair) + Len(one) = 3
          BY <4>2, <4>3
        <5> QED BY <4>2, <4>3, <4>6, <5>2, <5>3
      <4>8. \A l \in 1..Len(three) : three[l] = joined[l]
        BY <4>4, <4>5, <4>7
      <4>9. three = joined
        BY <4>5, <4>7, <4>8, SameList
      <4> QED BY <4>1, <4>6, <4>9
    <3>18. (Two(length, number) ++ One(command)) ++ chars = Two(length, number) ++ payload
      <4>1. IsList(Two(length, number)) /\ IsList(One(command))
        BY TwoIs, Singled
      <4> QED BY <3>3, <3>4, <4>1, JoinedTwice
    <3>19. MySqlEncode(m) = (Two(length, number) ++ One(command)) ++ chars
      BY <3>16, <3>17 DEF ++
    <3> QED BY <3>1, <3>12, <3>13, <3>14, <3>18, <3>19
  <2> QED BY <1>1, <1>3, <1>5, <2>2, <2>3, <2>4, <2>5 DEF Code
<1> QED BY <1>4, <1>5

\* The code of a row whose cells have become others.
LEMMA MadeIsList ==
    ASSUME NEW cell, IsList(Flat(cell))
    PROVE  IsList(EncodeValue(cell)) /\ IsList(LenencValue(cell))
<1>1. PICK size, none, null, wide, bytes :
         /\ size = Unit("size", Size(cell)) /\ none = Unit("size", -1) /\ null = Unit("null", 0)
         /\ wide = Unit("wide", 0) /\ bytes = BytesOf(cell)
  OBVIOUS
<1>2. Size(cell) \in Nat
  BY ListIs DEF Size
<1>3. bytes = [i \in 1..Size(cell) |-> bytes[i]]
  BY <1>1 DEF BytesOf
<1>4. IsList(bytes)
  BY <1>2, <1>3, ListOf
<1>5. /\ IsList(One(none)) /\ IsList(One(null)) /\ IsList(One(size) ++ bytes)
      /\ IsList(Two(wide, size) ++ bytes)
  BY <1>4, Singled, FirstOf, TwoBefore
<1> QED BY <1>1, <1>5 DEF EncodeValue, LenencValue, LenencInt, One, Two, ++

LEMMA RowCode ==
    ASSUME NEW w, IsJob(w), NEW i \in 1..Len(w.traffic), IsRow(w.traffic[i]),
           NEW body, IsList(body), \A c \in 1..Len(body) : IsList(Flat(body[c]))
    PROVE  LET m == [w.traffic[i] EXCEPT !.body = body]
           IN /\ m.kind = w.traffic[i].kind /\ m.body = body
              /\ IsList(PeerCode(w, m)) /\ Code(w, m) = PeerCode(w, m) /\ ~Long(w, m)
<1>1. PICK came, m, values : /\ came = w.traffic[i] /\ m = [came EXCEPT !.body = body]
                             /\ values = [c \in DOMAIN body |-> IF w.protocol = "postgres" THEN EncodeValue(body[c])
                                                                ELSE LenencValue(body[c])]
  OBVIOUS
<1>2. came.kind \in Kinds(w) /\ came.kind \in {"DataRow", "ResultRow"}
      /\ IF w.protocol = "postgres" THEN IsPgMessage(came) ELSE IsMySqlPacket(came)
  BY <1>1, TrafficIs DEF IsRow
<1>3. DOMAIN body = 1..Len(body)
  BY ListIs
<1>4. values = [c \in DOMAIN body |-> values[c]]
      /\ \A c \in 1..Len(body) : values[c] = IF w.protocol = "postgres" THEN EncodeValue(body[c])
                                             ELSE LenencValue(body[c])
  BY <1>1, <1>3
<1>5. IsList(values) /\ Len(values) = Len(body)
  BY <1>4, MapIs
<1>6. Lists(values)
  <2>1. ASSUME NEW c \in 1..Len(body) PROVE IsList(values[c])
    <3>1. PICK cell : cell = body[c]
      OBVIOUS
    <3>2. IsList(Flat(cell))
      BY <3>1
    <3>3. IsList(EncodeValue(cell)) /\ IsList(LenencValue(cell))
      BY ONLY <3>2, MadeIsList
    <3>4. values[c] = EncodeValue(cell) \/ values[c] = LenencValue(cell)
      BY <1>4, <3>1
    <3> QED BY <3>3, <3>4
  <2> QED BY <1>5, <2>1 DEF Lists
<1>7. PICK flat : flat = FlattenSeq(values) /\ IsList(flat)
  BY <1>6, FlattenRests
<1>8. CASE w.protocol = "postgres"
  <2>1. came = PgMessage(came.kind, came.body) /\ came.kind = "DataRow"
    <3>1. w.side \in {"client", "server"}
      BY DEF IsJob
    <3>2. came.kind = "DataRow"
      BY <1>2, <1>8, <3>1 DEF Kinds
    <3> QED BY <1>2, <1>8, <3>2 DEF IsPgMessage
  <2>2. m = PgMessage("DataRow", body) /\ m.kind = came.kind /\ m.body = body
    BY <1>1, <2>1 DEF PgMessage
  <2>3. PICK count : count = Unit("count", Len(body))
    OBVIOUS
  <2>4. Flatten(EncodeValue, body) = flat
    BY <1>1, <1>7, <1>8 DEF Flatten
  <2>5. PgEncode(m) = Frame("D", One(count) ++ flat)
    BY <2>1, <2>2, <2>3, <2>4 DEF PgEncode, One, ++
  <2>6. IsList(Frame("D", One(count) ++ flat))
    BY <1>7, FirstOf, FrameIs
  <2> QED BY <1>1, <1>8, <2>2, <2>5, <2>6 DEF PeerCode, Code, Long
<1>9. CASE w.protocol # "postgres"
  <2>1. came = MySqlPacket(came.kind, came.id, came.body) /\ came.kind = "ResultRow"
    BY <1>2, <1>9 DEF IsMySqlPacket, Kinds
  <2>2. m = MySqlPacket("ResultRow", came.id, body)
    BY <1>1, <2>1 DEF MySqlPacket
  <2>3. m.kind = "ResultRow" /\ m.id = came.id /\ m.body = body
    BY <2>2 DEF MySqlPacket
  <2>4. Flatten(LenencValue, body) = flat
    BY <1>1, <1>7, <1>9 DEF Flatten
  <2>5. MySqlEncode(m) = WriteChunked(flat, came.id)
    BY <2>3, <2>4 DEF MySqlEncode
  <2>6. IsList(WriteChunked(flat, came.id))
    BY <1>7, PacketsAre, FlattenRests
  <2> QED BY <1>1, <1>9, <2>1, <2>3, <2>5, <2>6 DEF PeerCode, Code, Long
<1> QED BY <1>8, <1>9

-----------------------------------------------------------------------------
(* The inductive invariant *)

\* The codec stands between two pieces of the session's traffic.
Reading(w, k, j, b, e, s, p) ==
    /\ Place(w, k, j)
    /\ IsList(b) /\ IsList(e) /\ b ++ e = Left(w, k, j)
    /\ s = StartupAt(w, k)
    /\ p = PendingAt(w, k, j)

\* The rule of each column is the one its description falls under.
PgTargets(w, body) == [c \in DOMAIN body |-> PgTarget(body[c], w.policy.rules, w.catalog)]
Aiming(w, k, tg) ==
    /\ w.protocol = "postgres" /\ (\E i \in 1..k : w.traffic[i].kind = "RowDescription") =>
          \E i \in 1..k : /\ w.traffic[i].kind = "RowDescription"
                          /\ tg = PgTargets(w, w.traffic[i].body)
    /\ w.protocol # "postgres" =>
          /\ IsList(tg) /\ Len(tg) = Cardinality(Described(w, k))
          /\ \A c \in 1..Len(tg) : \E i \in Described(w, k) :
                /\ Cardinality(Described(w, i)) = c
                /\ tg[c] = MySqlTarget(w.traffic[i].body, w.policy.rules)

\* What has gone on is the traffic, its rows masked.
Passed(w, k) == IF k <= Cardinality(AskedOf(w)) THEN 0 ELSE k - Cardinality(AskedOf(w))
Came(w, i) == w.traffic[Cardinality(AskedOf(w)) + i]
Made(w, tg, m) ==
    IF IsRow(m) THEN [m EXCEPT !.body = MaskRow(m.body, tg, w.policy).values] ELSE m
Sent(w, k, tg, d) ==
    /\ IsList(d) /\ Len(d) = Passed(w, k)
    /\ \A i \in 1..Len(d) : d[i] = Made(w, tg, Came(w, i))

\* And so are the bytes.
Wrote(w, d, o) ==
    /\ \A i \in 1..Len(d) : IsList(PeerCode(w, d[i]))
    /\ \/ \E i \in 1..Len(d) : Long(w, d[i])
       \/ o = FlattenSeq([i \in DOMAIN d |-> PeerCode(w, d[i])])

\* The session breaks off after the last message only.
Stopped(w, k, st) == st \in Statuses /\ (st = "closed" => k = Len(w.traffic) /\ w.garbage # <<>>)

LEMMA DecodedIs ==
    ASSUME IsJob(job), NEW k, NEW j, Reading(job, k, j, buf, wire, startup, pending),
           Aiming(job, k, targets)
    PROVE  /\ Decoded.status = "message" =>
                 /\ k < Len(job.traffic) /\ Decoded.message = job.traffic[k + 1]
                 /\ Place(job, k + 1, 0)
                 /\ IsList(Decoded.rest) /\ Decoded.rest ++ wire = Left(job, k + 1, 0)
           /\ Decoded.status = "part" =>
                 /\ k < Len(job.traffic) /\ Decoded.message = PendingAt(job, k, j + 1)
                 /\ Place(job, k, j + 1)
                 /\ IsList(Decoded.rest) /\ Decoded.rest ++ wire = Left(job, k, j + 1)
           /\ Decoded.status = "malformed" => k = Len(job.traffic) /\ job.garbage # <<>>
           /\ Decoded.status = "more" /\ wire = <<>> => k = Len(job.traffic) /\ buf = job.garbage
<1>0. /\ Len(job.traffic) \in Nat /\ IsList(buf) /\ IsList(wire) /\ Place(job, k, j)
      /\ buf ++ wire = Left(job, k, j) /\ k \in 0..Len(job.traffic) /\ j \in Nat
  BY TrafficIs DEF Reading, Place
<1>1. PICK d : d = Decoded
  OBVIOUS
<1>2. d = Decode(job, k, j, buf)
  <2>1. CASE job.protocol = "postgres"
    BY <1>1, <2>1 DEF Decoded, Decode, Reading
  <2>2. CASE job.protocol # "postgres"
    BY <1>1, <2>2 DEF Decoded, Decode, Reading, Aiming
  <2> QED BY <2>1, <2>2
<1>3. CASE k = Len(job.traffic)
  <2>1. j = 0 /\ buf ++ wire = job.garbage
    BY <1>0, <1>3 DEF Left, Place
  <2>2. d.status \in {"more", "malformed"} /\ (buf = <<>> => d.status = "more")
    BY <1>0, <1>2, <1>3, <2>1, DecodesNoMore
  <2>3. wire = <<>> => buf = job.garbage
    BY <1>0, <2>1, NoList
  <2>4. job.garbage = <<>> => buf = <<>>
    <3> SUFFICES ASSUME job.garbage = <<>> PROVE buf = <<>>
      OBVIOUS
    <3>1. Len(buf) + Len(wire) = 0
      BY <1>0, <2>1, Joined, NoList
    <3>2. Len(buf) \in Nat /\ Len(wire) \in Nat
      BY <1>0, ListIs
    <3>3. Len(buf) = 0
      BY <3>1, <3>2
    <3> QED BY <1>0, <3>3, NoList
  <2> QED BY <1>1, <1>3, <2>2, <2>3, <2>4
<1>4. CASE k # Len(job.traffic)
  <2>1. PICK pieces, nk, nj : /\ pieces = Pieces(job, job.traffic[k + 1])
                              /\ nk = KAfter(job, k, j) /\ nj = JAfter(job, k, j)
    OBVIOUS
  <2>2. \/ \E r : /\ IsList(r) /\ r ++ wire = Left(job, nk, nj)
                  /\ d = IF j + 1 < Len(pieces)
                         THEN Result("part", PendingAt(job, k, j + 1), r)
                         ELSE Result("message", job.traffic[k + 1], r)
        \/ wire # <<>> /\ d.status = "more"
    BY <1>0, <1>2, <1>4, <2>1, DecodesNext
  <2>3. Place(job, nk, nj)
    BY <1>0, <1>4, <2>1, LeftIs
  <2>4. k < Len(job.traffic)
    BY <1>0, <1>4
  <2>5. ASSUME NEW r, IsList(r), r ++ wire = Left(job, nk, nj), j + 1 < Len(pieces),
               d = Result("part", PendingAt(job, k, j + 1), r)
        PROVE  /\ d.status = "part" /\ d.message = PendingAt(job, k, j + 1)
               /\ IsList(d.rest) /\ d.rest ++ wire = Left(job, k, j + 1) /\ Place(job, k, j + 1)
    <3>1. nk = k /\ nj = j + 1
      BY <2>1, <2>5 DEF KAfter, JAfter
    <3>2. d.status = "part" /\ d.message = PendingAt(job, k, j + 1) /\ d.rest = r
      BY <2>5 DEF Result
    <3> QED BY <2>3, <2>5, <3>1, <3>2
  <2>6. ASSUME NEW r, IsList(r), r ++ wire = Left(job, nk, nj), ~(j + 1 < Len(pieces)),
               d = Result("message", job.traffic[k + 1], r)
        PROVE  /\ d.status = "message" /\ d.message = job.traffic[k + 1]
               /\ IsList(d.rest) /\ d.rest ++ wire = Left(job, k + 1, 0) /\ Place(job, k + 1, 0)
    <3>1. nk = k + 1 /\ nj = 0
      BY <2>1, <2>6 DEF KAfter, JAfter
    <3>2. d.status = "message" /\ d.message = job.traffic[k + 1] /\ d.rest = r
      BY <2>6 DEF Result
    <3> QED BY <2>3, <2>6, <3>1, <3>2
  <2>7. CASE wire # <<>> /\ d.status = "more"
    BY <1>1, <2>7
  <2>8. CASE \E r : /\ IsList(r) /\ r ++ wire = Left(job, nk, nj)
                    /\ d = IF j + 1 < Len(pieces)
                           THEN Result("part", PendingAt(job, k, j + 1), r)
                           ELSE Result("message", job.traffic[k + 1], r)
    <3>1. PICK r : /\ IsList(r) /\ r ++ wire = Left(job, nk, nj)
                   /\ d = IF j + 1 < Len(pieces)
                          THEN Result("part", PendingAt(job, k, j + 1), r)
                          ELSE Result("message", job.traffic[k + 1], r)
      BY <2>8
    <3>2. CASE j + 1 < Len(pieces)
      <4>1. d = Result("part", PendingAt(job, k, j + 1), r)
        BY <3>1, <3>2
      <4>2. /\ d.status = "part" /\ d.message = PendingAt(job, k, j + 1)
            /\ IsList(d.rest) /\ d.rest ++ wire = Left(job, k, j + 1) /\ Place(job, k, j + 1)
        BY <2>5, <3>1, <3>2, <4>1
      <4> QED BY <1>1, <2>4, <4>2
    <3>3. CASE ~(j + 1 < Len(pieces))
      <4>1. d = Result("message", job.traffic[k + 1], r)
        BY <3>1, <3>3
      <4>2. /\ d.status = "message" /\ d.message = job.traffic[k + 1]
            /\ IsList(d.rest) /\ d.rest ++ wire = Left(job, k + 1, 0) /\ Place(job, k + 1, 0)
        BY <2>6, <3>1, <3>3, <4>1
      <4> QED BY <1>1, <2>4, <4>2
    <3> QED BY <3>2, <3>3
  <2> QED BY <2>2, <2>7, <2>8
<1> QED BY <1>3, <1>4

\* A message that is not answered here goes on as the next one.
LEMMA GoesOn ==
    ASSUME NEW w, IsJob(w), NEW k \in 0..(Len(w.traffic) - 1)
    PROVE  /\ Passed(w, k) \in Nat
           /\ w.traffic[k + 1].kind = "SSLRequest" => Passed(w, k + 1) = Passed(w, k)
           /\ w.traffic[k + 1].kind # "SSLRequest" =>
                 Passed(w, k + 1) = Passed(w, k) + 1 /\ Came(w, Passed(w, k) + 1) = w.traffic[k + 1]
<1>1. PICK n : n = Cardinality(AskedOf(w))
  OBVIOUS
<1>2. Len(w.traffic) \in Nat
  BY TrafficIs
<1>3. k \in Nat /\ n \in Nat /\ k + 1 \in 1..Len(w.traffic)
  BY <1>1, <1>2, AskedIs
<1>4. w.traffic[k + 1].kind = "SSLRequest" <=> k + 1 <= n
  BY <1>1, <1>3, AskedIs
<1>5. /\ Passed(w, k) = IF k <= n THEN 0 ELSE k - n
      /\ Passed(w, k + 1) = IF k + 1 <= n THEN 0 ELSE (k + 1) - n
      /\ \A i : Came(w, i) = w.traffic[n + i]
  BY <1>1 DEF Passed, Came
<1>6. Passed(w, k) \in Nat
  BY <1>3, <1>5
<1>7. ASSUME k + 1 <= n PROVE Passed(w, k + 1) = Passed(w, k)
  BY <1>3, <1>5, <1>7
<1>8. ASSUME ~(k + 1 <= n)
      PROVE  Passed(w, k + 1) = Passed(w, k) + 1 /\ Came(w, Passed(w, k) + 1) = w.traffic[k + 1]
  <2>1. Passed(w, k) = k - n
    BY <1>3, <1>5, <1>8
  <2>2. Passed(w, k + 1) = (k + 1) - n
    BY <1>5, <1>8
  <2>3. n + (Passed(w, k) + 1) = k + 1
    BY <1>3, <2>1
  <2> QED BY <1>3, <1>5, <2>1, <2>2, <2>3
<1> QED BY <1>4, <1>6, <1>7, <1>8

\* What has gone on is in the traffic before the messages still to come.
LEMMA CameBefore ==
    ASSUME NEW w, IsJob(w), NEW k \in 0..Len(w.traffic), NEW i \in 1..Passed(w, k)
    PROVE  Cardinality(AskedOf(w)) + i \in 1..k
<1>1. Cardinality(AskedOf(w)) \in Nat /\ k \in Nat
  BY AskedIs, TrafficIs
<1>2. Passed(w, k) = IF k <= Cardinality(AskedOf(w)) THEN 0 ELSE k - Cardinality(AskedOf(w))
  BY DEF Passed
<1> QED BY <1>1, <1>2

LEMMA RowIs ==
    ASSUME NEW w, IsJob(w), NEW i \in 1..Len(w.traffic), IsRow(w.traffic[i]), NEW tg
    PROVE  LET came == w.traffic[i].body
               row == MaskRow(came, tg, w.policy)
           IN /\ w.policy.heuristics.types \subseteq PiiTypes
              /\ IsList(came) /\ \A c \in 1..Len(came) : IsCell(came[c])
              /\ IsList(row.values) /\ Len(row.values) = Len(came)
              /\ \A c \in 1..Len(row.values) : IsList(Flat(row.values[c]))
<1>1. PICK m : m = w.traffic[i]
  OBVIOUS
<1>2. m.kind \in Kinds(w) /\ m.kind \in {"DataRow", "ResultRow"}
      /\ IF w.protocol = "postgres" THEN IsPgMessage(m) ELSE IsMySqlPacket(m)
  BY <1>1, TrafficIs DEF IsRow
<1>3. w.side \in {"client", "server"} /\ w.protocol \in {"postgres", "mysql"}
      /\ w.policy.heuristics.types \subseteq PiiTypes
  BY DEF IsJob
<1>4. IsList(m.body) /\ \A c \in DOMAIN m.body : IsCell(m.body[c])
  <2>1. CASE w.protocol = "postgres"
    <3>1. m.kind = "DataRow" /\ IsPgMessage(m)
      BY <1>2, <1>3, <2>1 DEF Kinds
    <3> QED BY <3>1 DEF IsPgMessage
  <2>2. CASE w.protocol # "postgres"
    <3>1. m.kind = "ResultRow" /\ IsMySqlPacket(m)
      BY <1>2, <1>3, <2>2 DEF Kinds
    <3> QED BY <3>1 DEF IsMySqlPacket
  <2> QED BY <2>1, <2>2
<1>5. \A c \in 1..Len(m.body) : IsCell(m.body[c])
  BY <1>4, ListIs
<1>6. PICK row : row = MaskRow(m.body, tg, w.policy)
  OBVIOUS
<1>7. /\ IsList(row.values) /\ Len(row.values) = Len(m.body)
      /\ \A c \in 1..Len(m.body) : IsList(Flat(row.values[c]))
  BY <1>3, <1>4, <1>5, <1>6, RowMasked
<1> QED BY <1>1, <1>3, <1>4, <1>5, <1>6, <1>7

\* Every message that goes on can be written, and is unless it is long.
LEMMA MadeCode ==
    ASSUME NEW w, IsJob(w), NEW i \in 1..Len(w.traffic), NEW tg
    PROVE  LET m == Made(w, tg, w.traffic[i])
           IN IsList(PeerCode(w, m)) /\ (~Long(w, m) => Code(w, m) = PeerCode(w, m))
<1>1. CASE IsRow(w.traffic[i])
  <2>1. PICK body : body = MaskRow(w.traffic[i].body, tg, w.policy).values
    OBVIOUS
  <2>2. IsList(body) /\ \A c \in 1..Len(body) : IsList(Flat(body[c]))
    BY <1>1, <2>1, RowIs
  <2>3. Made(w, tg, w.traffic[i]) = [w.traffic[i] EXCEPT !.body = body]
    BY <1>1, <2>1 DEF Made
  <2> QED BY <1>1, <2>2, <2>3, RowCode
<1>2. CASE ~IsRow(w.traffic[i])
  <2>1. Made(w, tg, w.traffic[i]) = w.traffic[i]
    BY <1>2 DEF Made
  <2> QED BY <2>1, CodeOf
<1> QED BY <1>1, <1>2

LEMMA SentOn ==
    ASSUME NEW w, IsJob(w), NEW k \in 0..(Len(w.traffic) - 1), NEW tg, NEW next, NEW d,
           Sent(w, k, tg, d), w.traffic[k + 1].kind # "SSLRequest",
           next = tg \/ \A i \in 1..Len(d) : ~IsRow(Came(w, i))
    PROVE  Sent(w, k + 1, next, Append(d, Made(w, next, w.traffic[k + 1])))
<1>1. PICK m, longer : m = Made(w, next, w.traffic[k + 1]) /\ longer = Append(d, m)
  OBVIOUS
<1>2. /\ IsList(d) /\ Len(d) = Passed(w, k)
      /\ \A i \in 1..Len(d) : d[i] = Made(w, tg, Came(w, i))
  BY DEF Sent
<1>3. /\ Passed(w, k) \in Nat /\ Passed(w, k + 1) = Passed(w, k) + 1
      /\ Came(w, Passed(w, k) + 1) = w.traffic[k + 1]
  BY GoesOn
<1>4. /\ IsList(longer) /\ Len(longer) = Len(d) + 1 /\ longer[Len(d) + 1] = m
      /\ \A i \in 1..Len(d) : longer[i] = d[i]
  BY <1>1, <1>2, Appended
<1>5. ASSUME NEW i \in 1..Len(longer) PROVE longer[i] = Made(w, next, Came(w, i))
  <2>1. CASE i = Len(d) + 1
    BY <1>1, <1>2, <1>3, <1>4, <2>1
  <2>2. CASE i # Len(d) + 1
    <3>1. i \in 1..Len(d)
      BY <1>2, <1>3, <1>4, <2>2
    <3>2. Made(w, next, Came(w, i)) = Made(w, tg, Came(w, i))
      BY <3>1 DEF Made
    <3> QED BY <1>2, <1>4, <3>1, <3>2
  <2> QED BY <2>1, <2>2
<1> QED BY <1>1, <1>2, <1>3, <1>4, <1>5 DEF Sent

LEMMA WroteOn ==
    ASSUME NEW w, NEW d, NEW o, IsList(d), Wrote(w, d, o), NEW m, IsList(PeerCode(w, m)),
           ~Long(w, m) => Code(w, m) = PeerCode(w, m)
    PROVE  Wrote(w, Append(d, m), o ++ Code(w, m))
<1>1. PICK longer : longer = Append(d, m)
  OBVIOUS
<1>2. /\ IsList(longer) /\ Len(longer) = Len(d) + 1 /\ longer[Len(d) + 1] = m /\ Len(d) \in Nat
      /\ \A i \in 1..Len(d) : longer[i] = d[i]
  BY <1>1, Appended, ListIs
<1>3. \A i \in 1..Len(d) : IsList(PeerCode(w, d[i]))
  BY DEF Wrote
<1>4. ASSUME NEW i \in 1..Len(longer) PROVE IsList(PeerCode(w, longer[i]))
  <2>1. CASE i = Len(d) + 1
    BY <1>2, <2>1
  <2>2. CASE i # Len(d) + 1
    <3>1. i \in 1..Len(d)
      BY <1>2, <2>2
    <3> QED BY <1>2, <1>3, <3>1
  <2> QED BY <2>1, <2>2
<1>5. CASE \E i \in 1..Len(d) : Long(w, d[i])
  <2>1. PICK i \in 1..Len(d) : Long(w, d[i])
    BY <1>5
  <2>2. i \in 1..Len(longer) /\ longer[i] = d[i]
    BY <1>2
  <2> QED BY <1>1, <1>4, <2>1, <2>2 DEF Wrote
<1>6. CASE Long(w, m)
  <2>1. Len(d) + 1 \in 1..Len(longer)
    BY <1>2
  <2> QED BY <1>1, <1>2, <1>4, <1>6, <2>1 DEF Wrote
<1>7. CASE ~Long(w, m) /\ ~\E i \in 1..Len(d) : Long(w, d[i])
  <2>1. PICK seqs, more : /\ seqs = [i \in DOMAIN d |-> PeerCode(w, d[i])]
                          /\ more = [i \in DOMAIN longer |-> PeerCode(w, longer[i])]
    OBVIOUS
  <2>2. DOMAIN d = 1..Len(d) /\ DOMAIN longer = 1..Len(longer)
    BY <1>2, ListIs
  <2>3. /\ seqs = [i \in DOMAIN d |-> seqs[i]] /\ more = [i \in DOMAIN longer |-> more[i]]
        /\ \A i \in 1..Len(d) : seqs[i] = PeerCode(w, d[i])
        /\ \A i \in 1..Len(longer) : more[i] = PeerCode(w, longer[i])
    BY <2>1, <2>2
  <2>4. IsList(seqs) /\ Len(seqs) = Len(d) /\ IsList(more) /\ Len(more) = Len(longer)
    BY <1>2, <2>3, MapIs
  <2>5. Lists(seqs) /\ Lists(more)
    BY <1>3, <1>4, <2>3, <2>4 DEF Lists
  <2>6. \A i \in 1..Len(seqs) : more[i] = seqs[i]
    <3>1. \A i \in 1..Len(d) : i \in 1..Len(longer)
      BY <1>2
    <3> QED BY <1>2, <2>3, <2>4, <3>1
  <2>7. more[Len(seqs) + 1] = Code(w, m)
    <3>1. Len(d) + 1 \in 1..Len(longer) /\ Len(seqs) + 1 = Len(d) + 1
      BY <1>2, <2>4
    <3>2. more[Len(d) + 1] = PeerCode(w, m)
      BY <1>2, <2>3, <3>1
    <3> QED BY <1>7, <3>1, <3>2
  <2>8. FlattenSeq(more) = FlattenSeq(seqs) ++ more[Len(seqs) + 1]
    BY <1>2, <2>4, <2>5, <2>6, FlattenMore
  <2>9. o = FlattenSeq(seqs)
    BY <1>7, <2>1 DEF Wrote
  <2>10. o ++ Code(w, m) = FlattenSeq(more)
    BY <2>7, <2>8, <2>9
  <2> QED BY <1>1, <1>4, <2>1, <2>10 DEF Wrote
<1> QED BY <1>5, <1>6, <1>7

\* Rows come from the server, after all that describes them.
LEMMA RowsLast ==
    ASSUME NEW w, IsJob(w), NEW k \in 0..(Len(w.traffic) - 1),
           w.traffic[k + 1].kind \in {"RowDescription", "Column"} \/ w.side = "client"
    PROVE  \A i \in 1..Passed(w, k) : ~IsRow(Came(w, i))
<1> SUFFICES ASSUME NEW i \in 1..Passed(w, k), IsRow(Came(w, i)) PROVE FALSE
  OBVIOUS
<1>1. PICK n : n = Cardinality(AskedOf(w)) + i
  OBVIOUS
<1>2. Len(w.traffic) \in Nat /\ DOMAIN w.traffic = 1..Len(w.traffic)
  BY TrafficIs
<1>3. k \in 0..Len(w.traffic) /\ k + 1 \in 1..Len(w.traffic)
  BY <1>2
<1>4. n \in 1..k /\ n \in 1..Len(w.traffic) /\ IsRow(w.traffic[n])
  <2>1. n \in 1..k
    BY <1>1, <1>3, CameBefore
  <2> QED BY <1>1, <1>2, <2>1 DEF Came
<1>5. InOrder(w, n) /\ w.traffic[n].kind \in Kinds(w) /\ w.traffic[n].kind \in {"DataRow", "ResultRow"}
  BY <1>4, TrafficIs DEF IsRow
<1>6. CASE w.side = "client"
  <2>1. w.protocol \in {"postgres", "mysql"}
    BY DEF IsJob
  <2> QED BY <1>5, <1>6, <2>1 DEF Kinds
<1>7. CASE w.traffic[k + 1].kind \in {"RowDescription", "Column"}
  <2>1. k + 1 < n
    BY <1>2, <1>3, <1>4, <1>5, <1>7 DEF InOrder
  <2> QED BY <1>2, <1>4, <2>1
<1> QED BY <1>6, <1>7

LEMMA AimingOn ==
    ASSUME NEW w, IsJob(w), NEW k \in 0..(Len(w.traffic) - 1), NEW tg, NEW next, Aiming(w, k, tg),
           w.traffic[k + 1].kind = "RowDescription" => next = PgTargets(w, w.traffic[k + 1].body),
           w.traffic[k + 1].kind = "Column" =>
              next = Append(tg, MySqlTarget(w.traffic[k + 1].body, w.policy.rules)),
           w.traffic[k + 1].kind \notin {"RowDescription", "Column"} =>
              next = tg \/ (next = <<>> /\ w.side = "client")
    PROVE  Aiming(w, k + 1, next)
<1>1. Len(w.traffic) \in Nat
  BY TrafficIs
<1>2. k \in Nat /\ k + 1 \in 1..Len(w.traffic) /\ k \in 0..Len(w.traffic) /\ k < Len(w.traffic)
  BY <1>1
<1>3. w.traffic[k + 1].kind \in Kinds(w) /\ w.protocol \in {"postgres", "mysql"}
      /\ w.side \in {"client", "server"}
  BY <1>2, TrafficIs DEF IsJob
<1>4. CASE w.protocol = "postgres"
  <2> SUFFICES ASSUME \E i \in 1..(k + 1) : w.traffic[i].kind = "RowDescription"
               PROVE  \E i \in 1..(k + 1) : /\ w.traffic[i].kind = "RowDescription"
                                            /\ next = PgTargets(w, w.traffic[i].body)
    BY <1>4 DEF Aiming
  <2>1. CASE w.traffic[k + 1].kind = "RowDescription"
    <3>1. k + 1 \in 1..(k + 1) /\ next = PgTargets(w, w.traffic[k + 1].body)
      BY <1>2, <2>1
    <3> QED BY <2>1, <3>1
  <2>2. CASE w.traffic[k + 1].kind # "RowDescription"
    <3>1. PICK n \in 1..(k + 1) : w.traffic[n].kind = "RowDescription"
      OBVIOUS
    <3>2. n \in 1..k /\ n \in 1..Len(w.traffic)
      BY <1>1, <1>2, <2>2, <3>1
    <3>3. w.side # "client" /\ w.traffic[k + 1].kind # "Column"
      <4>1. w.traffic[n].kind \in Kinds(w)
        BY <3>2, TrafficIs
      <4> QED BY <1>3, <1>4, <3>1, <4>1 DEF Kinds
    <3>4. next = tg
      BY <2>2, <3>3
    <3>5. PICK i \in 1..k : w.traffic[i].kind = "RowDescription" /\ tg = PgTargets(w, w.traffic[i].body)
      BY <1>4, <3>1, <3>2 DEF Aiming
    <3>6. i \in 1..(k + 1)
      BY <1>2
    <3> QED BY <3>4, <3>5, <3>6
  <2> QED BY <2>1, <2>2
<1>5. CASE w.protocol # "postgres"
  <2>1. /\ IsList(tg) /\ Len(tg) = Cardinality(Described(w, k))
        /\ \A c \in 1..Len(tg) : \E i \in Described(w, k) :
              /\ Cardinality(Described(w, i)) = c
              /\ tg[c] = MySqlTarget(w.traffic[i].body, w.policy.rules)
    BY <1>5 DEF Aiming
  <2>2. w.traffic[k + 1].kind # "RowDescription"
    BY <1>3, <1>5 DEF Kinds
  <2>3. CASE w.traffic[k + 1].kind = "Column"
    <3>1. PICK x : x = MySqlTarget(w.traffic[k + 1].body, w.policy.rules)
      OBVIOUS
    <3>2. next = Append(tg, x)
      BY <2>3, <3>1
    <3>3. /\ IsList(next) /\ Len(next) = Len(tg) + 1 /\ next[Len(tg) + 1] = x /\ Len(tg) \in Nat
          /\ \A c \in 1..Len(tg) : next[c] = tg[c]
      BY <2>1, <3>2, Appended, ListIs
    <3>4. /\ Described(w, k + 1) = Described(w, k) \cup {k + 1}
          /\ Cardinality(Described(w, k + 1)) = Cardinality(Described(w, k)) + 1
      BY <1>2, <2>3, DescribedIs
    <3>5. ASSUME NEW c \in 1..Len(next)
          PROVE  \E i \in Described(w, k + 1) :
                    /\ Cardinality(Described(w, i)) = c
                    /\ next[c] = MySqlTarget(w.traffic[i].body, w.policy.rules)
      <4>1. CASE c = Len(tg) + 1
        <5>1. /\ k + 1 \in Described(w, k + 1) /\ Cardinality(Described(w, k + 1)) = c
              /\ next[c] = MySqlTarget(w.traffic[k + 1].body, w.policy.rules)
          BY <2>1, <3>1, <3>3, <3>4, <4>1
        <5> QED BY <5>1
      <4>2. CASE c # Len(tg) + 1
        <5>1. c \in 1..Len(tg) /\ next[c] = tg[c]
          BY <3>3, <4>2
        <5>2. PICK i \in Described(w, k) : /\ Cardinality(Described(w, i)) = c
                                           /\ tg[c] = MySqlTarget(w.traffic[i].body, w.policy.rules)
          BY <2>1, <5>1
        <5>3. i \in Described(w, k + 1)
          BY <3>4
        <5> QED BY <5>1, <5>2, <5>3
      <4> QED BY <4>1, <4>2
    <3>6. Len(next) = Cardinality(Described(w, k + 1))
      BY <2>1, <3>3, <3>4
    <3> QED BY <1>5, <3>3, <3>5, <3>6 DEF Aiming
  <2>4. CASE w.traffic[k + 1].kind # "Column"
    <3>1. Described(w, k + 1) = Described(w, k)
      BY <1>2, <2>4, DescribedIs
    <3>2. next = tg
      <4> SUFFICES ASSUME next = <<>>, w.side = "client" PROVE tg = <<>>
        BY <2>2, <2>4
      <4>1. Described(w, k) = {}
        <5> SUFFICES ASSUME NEW i \in Described(w, k) PROVE FALSE
          OBVIOUS
        <5>1. i \in 1..k /\ w.traffic[i].kind = "Column"
          BY DEF Described
        <5>2. i \in 1..Len(w.traffic)
          BY <1>1, <1>2, <5>1
        <5>3. w.traffic[i].kind \in Kinds(w)
          BY <5>2, TrafficIs
        <5> QED BY <1>3, <1>5, <5>1, <5>3 DEF Kinds
      <4>2. Len(tg) = 0
        BY <2>1, <4>1, FS_EmptySet
      <4> QED BY <2>1, <4>2, NoList
    <3> QED BY <1>5, <2>1, <3>1, <3>2 DEF Aiming
  <2> QED BY <2>3, <2>4
<1> QED BY <1>4, <1>5

Standing(k, j) ==
    /\ Reading(job, k, j, buf, wire, startup, pending)
    /\ Aiming(job, k, targets)
    /\ Sent(job, k, targets, delivered)
    /\ Wrote(job, delivered, out)
    /\ Stopped(job, k, status)
IInv == IsJob(job) /\ \E k, j : Standing(k, j)

\* A session starts at the beginning.
LEMMA StartsStanding == Init => IInv
<1> SUFFICES ASSUME Init PROVE IInv
  OBVIOUS
<1>1. IsJob(job)
  <2>1. PICK i \in DOMAIN Jobs : job = Jobs[i]
    BY DEF Init
  <2> QED BY <2>1, DataPathAssumption
<1>2. Len(job.traffic) \in Nat /\ DOMAIN job.traffic = 1..Len(job.traffic)
      /\ IsList(job.traffic) /\ IsList(job.garbage)
  BY <1>1, TrafficIs
<1>3. /\ wire = Flatten(PeerWrites, job.traffic) \o job.garbage
      /\ buf = <<>> /\ startup = (job.protocol = "postgres" /\ job.side = "client")
      /\ pending = NoPending /\ targets = <<>> /\ delivered = <<>> /\ out = <<>>
      /\ status = "open"
  BY DEF Init
<1>4. 0 \in 0..Len(job.traffic)
  BY <1>2
<1>5. wire = Left(job, 0, 0)
  <2>1. PICK seqs : seqs = [i \in DOMAIN job.traffic |-> PeerWrites(job.traffic[i])]
    OBVIOUS
  <2>2. ASSUME NEW i \in DOMAIN job.traffic PROVE PeerWrites(job.traffic[i]) = Writes(job, job.traffic[i])
    <3>1. PeerWrites(job.traffic[i]) = PeerCode(job, job.traffic[i])
      BY DEF PeerWrites, PeerCode
    <3>2. PeerCode(job, job.traffic[i]) = Writes(job, job.traffic[i])
      BY <1>1, <1>2, CodeOf
    <3> QED BY <3>1, <3>2
  <2>3. seqs = Encoded(job)
    BY <2>1, <2>2 DEF Encoded
  <2>4. Flatten(PeerWrites, job.traffic) = FlattenSeq(seqs)
    BY <2>1 DEF Flatten
  <2>5. AfterMessage(job)[0] = FlattenSeq(Encoded(job))
    BY <1>1, EncodedIs DEF Rests
  <2>6. wire = AfterMessage(job)[0] ++ job.garbage
    BY <1>3, <2>3, <2>4, <2>5 DEF ++
  <2>7. Left(job, 0, 0) = AfterMessage(job)[0] ++ job.garbage
    BY <1>1, <1>4, LeftAtMessage
  <2> QED BY <2>6, <2>7
<1>6. IsList(wire)
  <2>1. IsList(AfterMessage(job)[0]) /\ Left(job, 0, 0) = AfterMessage(job)[0] ++ job.garbage
    BY <1>1, <1>4, LeftAtMessage
  <2>2. IsList(AfterMessage(job)[0] ++ job.garbage)
    BY ONLY <2>1, <1>2, Joined
  <2> QED BY <1>5, <2>1, <2>2
<1>7. Place(job, 0, 0)
  <2>1. CASE Len(job.traffic) = 0
    BY <1>2, <2>1 DEF Place
  <2>2. CASE Len(job.traffic) # 0
    <3>1. 0 \in 0..(Len(job.traffic) - 1)
      BY <1>2, <2>2
    <3>2. Len(Pieces(job, job.traffic[0 + 1])) \in Nat \ {0}
      BY <1>1, <3>1, PieceRead
    <3> QED BY <1>2, <2>2, <3>2 DEF Place
  <2> QED BY <2>1, <2>2
<1>8. Reading(job, 0, 0, buf, wire, startup, pending)
  <2>1. IsList(buf) /\ buf ++ wire = wire
    BY <1>3, <1>6, NoList
  <2>2. startup = StartupAt(job, 0)
    <3>1. \A i \in 1..0 : job.traffic[i].kind = "SSLRequest"
      OBVIOUS
    <3> QED BY <1>3, <3>1 DEF StartupAt
  <2>3. pending = PendingAt(job, 0, 0)
    BY <1>3 DEF PendingAt, Pending
  <2> QED BY <1>5, <1>6, <1>7, <2>1, <2>2, <2>3 DEF Reading
<1>9. Aiming(job, 0, targets)
  <2>1. ~\E i \in 1..0 : job.traffic[i].kind = "RowDescription"
    OBVIOUS
  <2>2. Described(job, 0) = {}
    BY <1>1, <1>4, DescribedIs
  <2>3. IsList(targets) /\ Len(targets) = 0 /\ Cardinality(Described(job, 0)) = 0
    BY <1>3, <2>2, NoList, FS_EmptySet
  <2>4. ~\E c : c \in 1..Len(targets)
    BY <2>3
  <2> QED BY <2>1, <2>3, <2>4 DEF Aiming
<1>10. Sent(job, 0, targets, delivered)
  <2>1. IsList(delivered) /\ Len(delivered) = 0
    BY <1>3, NoList
  <2>2. Passed(job, 0) = 0
    <3>1. Cardinality(AskedOf(job)) \in Nat
      BY <1>1, <1>2, AskedIs
    <3> QED BY <3>1 DEF Passed
  <2> QED BY <2>1, <2>2 DEF Sent
<1>11. Wrote(job, delivered, out)
  <2>1. Len(delivered) = 0 /\ DOMAIN delivered = {}
    BY <1>3, NoList
  <2>2. [i \in DOMAIN delivered |-> PeerCode(job, delivered[i])] = <<>>
    BY <2>1
  <2>3. FlattenSeq(<<>>) = <<>>
    BY NoList DEF FlattenSeq
  <2>4. out = FlattenSeq([i \in DOMAIN delivered |-> PeerCode(job, delivered[i])])
    BY <1>3, <2>2, <2>3
  <2> QED BY <2>1, <2>4 DEF Wrote
<1>12. Stopped(job, 0, status)
  BY <1>3 DEF Stopped, Statuses
<1>13. Standing(0, 0)
  BY <1>8, <1>9, <1>10, <1>11, <1>12 DEF Standing
<1> QED BY <1>1, <1>13 DEF IInv

\* Bytes that arrive are read after those that have.
LEMMA ArriveKeeps ==
    ASSUME IsJob(job), NEW k, NEW j, Standing(k, j), NEW n \in 1..Len(wire), Arrive(n)
    PROVE  Standing(k, j)'
<1>1. /\ Reading(job, k, j, buf, wire, startup, pending) /\ Aiming(job, k, targets)
      /\ Sent(job, k, targets, delivered) /\ Wrote(job, delivered, out) /\ Stopped(job, k, status)
  BY DEF Standing
<1>2. /\ Place(job, k, j) /\ IsList(buf) /\ IsList(wire) /\ buf ++ wire = Left(job, k, j)
      /\ startup = StartupAt(job, k) /\ pending = PendingAt(job, k, j)
  BY <1>1 DEF Reading
<1>3. PICK came, rest : came = SubSeq(wire, 1, n) /\ rest = SubSeq(wire, n + 1, Len(wire))
  OBVIOUS
<1>4. buf' = buf ++ came /\ wire' = rest
  BY <1>3 DEF Arrive, ++
<1>5. UNCHANGED <<job, startup, pending, targets, delivered, out, status>>
  BY DEF Arrive, codec
<1>6. IsList(came) /\ IsList(rest) /\ came ++ rest = wire
  <2>1. n \in 0..Len(wire)
    BY <1>2, ListIs
  <2> QED BY <1>2, <1>3, <2>1, Rejoined
<1>7. IsList(buf ++ came) /\ (buf ++ came) ++ rest = buf ++ (came ++ rest)
  BY ONLY <1>2, <1>6, Joined, JoinedTwice
<1>8. Reading(job, k, j, buf ++ came, rest, startup, pending)
  BY <1>2, <1>6, <1>7 DEF Reading
<1>9. Standing(k, j)' = /\ Reading(job, k, j, buf ++ came, rest, startup, pending)
                        /\ Aiming(job, k, targets)
                        /\ Sent(job, k, targets, delivered)
                        /\ Wrote(job, delivered, out)
                        /\ Stopped(job, k, status)
  BY <1>4, <1>5 DEF Standing
<1> QED BY <1>1, <1>8, <1>9

\* A message taken out of the buffer is the next of the traffic.
LEMMA TakeMoves ==
    ASSUME IsJob(job), NEW k, NEW j, Standing(k, j), NEW kinds, Take(kinds), UNCHANGED <<job, wire>>
    PROVE  /\ k \in 0..(Len(job.traffic) - 1) /\ k + 1 \in 1..Len(job.traffic)
           /\ Decoded.message = job.traffic[k + 1] /\ job.traffic[k + 1].kind \in kinds
           /\ Reading(job, k + 1, 0, buf', wire', StartupAt(job, k + 1), pending')
           /\ job.traffic[k + 1].kind # "SSLRequest" => ~StartupAt(job, k + 1)
           /\ job.traffic[k + 1].kind # "Startup" => startup = StartupAt(job, k + 1)
<1>1. /\ Reading(job, k, j, buf, wire, startup, pending) /\ Aiming(job, k, targets)
  BY DEF Standing
<1>2. /\ Place(job, k, j) /\ startup = StartupAt(job, k)
  BY <1>1 DEF Reading
<1>3. /\ Decoded.status = "message" /\ Decoded.message.kind \in kinds
      /\ buf' = Decoded.rest /\ pending' = NoPending /\ wire' = wire
  BY DEF Take
<1>4. /\ k < Len(job.traffic) /\ Decoded.message = job.traffic[k + 1]
      /\ Place(job, k + 1, 0)
      /\ IsList(Decoded.rest) /\ Decoded.rest ++ wire = Left(job, k + 1, 0)
  BY <1>1, <1>3, DecodedIs
<1>5. Len(job.traffic) \in Nat /\ k \in 0..Len(job.traffic)
  BY <1>2, TrafficIs DEF Place
<1>6. k \in 0..(Len(job.traffic) - 1) /\ k + 1 \in 1..Len(job.traffic) /\ k \in Nat
  BY <1>4, <1>5
<1>7. IsList(wire)
  BY <1>1 DEF Reading
<1>8. pending' = PendingAt(job, k + 1, 0)
  BY <1>3 DEF PendingAt, Pending
<1>9. Reading(job, k + 1, 0, buf', wire', StartupAt(job, k + 1), pending')
  BY <1>3, <1>4, <1>7, <1>8 DEF Reading
<1>10. /\ \A i \in 1..(k + 1) : i \in 1..k \/ i = k + 1
       /\ \A i \in 1..k : i \in 1..(k + 1)
       /\ k + 1 \in 1..(k + 1)
  BY <1>6
<1>11. StartupAt(job, k + 1) <=> StartupAt(job, k) /\ job.traffic[k + 1].kind = "SSLRequest"
  BY <1>10 DEF StartupAt
<1>12. ASSUME job.traffic[k + 1].kind # "Startup", StartupAt(job, k)
       PROVE  job.traffic[k + 1].kind = "SSLRequest"
  <2>1. job.protocol = "postgres"
    BY <1>12 DEF StartupAt
  <2>2. job.traffic[k + 1].kind \in Early
    BY <1>6, <1>12, <2>1, PgPieceRead
  <2> QED BY <1>12, <2>2 DEF Early
<1>13. StartupAt(job, k) \in BOOLEAN /\ StartupAt(job, k + 1) \in BOOLEAN
  BY DEF StartupAt
<1>14. job.traffic[k + 1].kind # "Startup" => startup = StartupAt(job, k + 1)
  BY <1>2, <1>11, <1>12, <1>13
<1> QED BY <1>3, <1>4, <1>6, <1>9, <1>11, <1>14

\* A message that goes on, and what it says of the columns.
LEMMA SendKeeps ==
    ASSUME IsJob(job), NEW k, NEW j, Standing(k, j), NEW kinds, Take(kinds),
           UNCHANGED <<job, wire, status>>,
           job.traffic[k + 1].kind # "SSLRequest", startup' = StartupAt(job, k + 1),
           SendOn(Made(job, targets', job.traffic[k + 1])),
           job.traffic[k + 1].kind = "RowDescription" =>
              targets' = PgTargets(job, job.traffic[k + 1].body),
           job.traffic[k + 1].kind = "Column" =>
              targets' = Append(targets, MySqlTarget(job.traffic[k + 1].body, job.policy.rules)),
           job.traffic[k + 1].kind \notin {"RowDescription", "Column"} =>
              targets' = targets \/ (targets' = <<>> /\ job.side = "client")
    PROVE  Standing(k + 1, 0)'
<1>1. /\ Aiming(job, k, targets) /\ Sent(job, k, targets, delivered)
      /\ Wrote(job, delivered, out) /\ Stopped(job, k, status)
  BY DEF Standing
<1>2. /\ k \in 0..(Len(job.traffic) - 1) /\ k + 1 \in 1..Len(job.traffic)
      /\ Reading(job, k + 1, 0, buf', wire', StartupAt(job, k + 1), pending')
  BY TakeMoves
<1>3. PICK next, m : next = targets' /\ m = Made(job, next, job.traffic[k + 1])
  OBVIOUS
<1>4. /\ delivered' = Append(delivered, m) /\ out' = out ++ Code(job, m)
  BY <1>3 DEF SendOn, Code, ++
<1>5. Aiming(job, k + 1, next)
  BY <1>1, <1>2, <1>3, AimingOn
<1>6. IsList(delivered) /\ Len(delivered) = Passed(job, k)
  BY <1>1 DEF Sent
<1>7. next = targets \/ \A i \in 1..Len(delivered) : ~IsRow(Came(job, i))
  BY <1>2, <1>3, <1>6, RowsLast
<1>8. Sent(job, k + 1, next, Append(delivered, m))
  BY <1>1, <1>2, <1>3, <1>7, SentOn
<1>9. IsList(PeerCode(job, m)) /\ (~Long(job, m) => Code(job, m) = PeerCode(job, m))
  BY <1>2, <1>3, MadeCode
<1>10. Wrote(job, Append(delivered, m), out ++ Code(job, m))
  BY <1>1, <1>6, <1>9, WroteOn
<1>11. Stopped(job, k + 1, status)
  <2>1. status = "open"
    BY DEF Take
  <2> QED BY <2>1 DEF Stopped, Statuses
<1>12. Standing(k + 1, 0)' = /\ Reading(job, k + 1, 0, buf', wire', startup', pending')
                             /\ Aiming(job, k + 1, targets')
                             /\ Sent(job, k + 1, targets', delivered')
                             /\ Wrote(job, delivered', out')
                             /\ Stopped(job, k + 1, status)
  BY DEF Standing
<1> QED BY <1>2, <1>3, <1>4, <1>5, <1>8, <1>10, <1>11, <1>12

LEMMA DescribeKeeps ==
    ASSUME IsJob(job), NEW k, NEW j, Standing(k, j), Describe
    PROVE  Standing(k + 1, 0)'
<1>1. /\ Take({"RowDescription", "Column"}) /\ UNCHANGED <<job, wire, startup, status>>
      /\ targets' = IF Decoded.message.kind = "Column"
                    THEN Append(targets, MySqlTarget(Decoded.message.body, job.policy.rules))
                    ELSE PgTargets(job, Decoded.message.body)
      /\ SendOn(Decoded.message)
  BY DEF Describe, PgTargets
<1>2. /\ Decoded.message = job.traffic[k + 1]
      /\ job.traffic[k + 1].kind \in {"RowDescription", "Column"}
      /\ job.traffic[k + 1].kind # "Startup" => startup = StartupAt(job, k + 1)
  BY <1>1, TakeMoves
<1>3. Made(job, targets', job.traffic[k + 1]) = job.traffic[k + 1]
  BY <1>2 DEF Made, IsRow
<1>4. startup' = StartupAt(job, k + 1)
  BY <1>1, <1>2
<1>5. SendOn(Made(job, targets', job.traffic[k + 1]))
  BY <1>1, <1>2, <1>3
<1>6. /\ job.traffic[k + 1].kind = "RowDescription" => targets' = PgTargets(job, job.traffic[k + 1].body)
      /\ job.traffic[k + 1].kind = "Column" =>
            targets' = Append(targets, MySqlTarget(job.traffic[k + 1].body, job.policy.rules))
  BY <1>1, <1>2
<1> QED BY <1>1, <1>2, <1>4, <1>5, <1>6, SendKeeps

LEMMA RowKeeps ==
    ASSUME IsJob(job), NEW k, NEW j, Standing(k, j), Row
    PROVE  Standing(k + 1, 0)'
<1>1. /\ Take({"DataRow", "ResultRow"}) /\ UNCHANGED <<job, wire, startup, targets, status>>
      /\ SendOn([Decoded.message EXCEPT !.body = MaskRow(Decoded.message.body, targets, job.policy).values])
  BY DEF Row
<1>2. /\ Decoded.message = job.traffic[k + 1]
      /\ job.traffic[k + 1].kind \in {"DataRow", "ResultRow"}
      /\ job.traffic[k + 1].kind # "Startup" => startup = StartupAt(job, k + 1)
  BY <1>1, TakeMoves
<1>3. targets' = targets /\ startup' = StartupAt(job, k + 1)
  BY <1>1, <1>2
<1>4. SendOn(Made(job, targets', job.traffic[k + 1]))
  BY <1>1, <1>2, <1>3 DEF Made, IsRow
<1> QED BY <1>1, <1>2, <1>3, <1>4, SendKeeps

LEMMA StatementKeeps ==
    ASSUME IsJob(job), NEW k, NEW j, Standing(k, j), Statement
    PROVE  Standing(k + 1, 0)'
<1>1. /\ Take({"Query", "Parse"}) /\ UNCHANGED <<job, wire, startup, status>>
      /\ SendOn(Decoded.message) /\ targets' = <<>>
  BY DEF Statement
<1>2. /\ Decoded.message = job.traffic[k + 1] /\ k + 1 \in 1..Len(job.traffic)
      /\ job.traffic[k + 1].kind \in {"Query", "Parse"}
      /\ job.traffic[k + 1].kind # "Startup" => startup = StartupAt(job, k + 1)
  BY <1>1, TakeMoves
<1>3. Made(job, targets', job.traffic[k + 1]) = job.traffic[k + 1]
  BY <1>2 DEF Made, IsRow
<1>4. startup' = StartupAt(job, k + 1)
  BY <1>1, <1>2
<1>5. SendOn(Made(job, targets', job.traffic[k + 1]))
  BY <1>1, <1>2, <1>3
<1>6. job.side = "client"
  <2>1. job.traffic[k + 1].kind \in Kinds(job)
    BY <1>2, TrafficIs
  <2>2. job.protocol \in {"postgres", "mysql"} /\ job.side \in {"client", "server"}
    BY DEF IsJob
  <2> QED BY <1>2, <2>1, <2>2 DEF Kinds
<1> QED BY <1>1, <1>2, <1>4, <1>5, <1>6, SendKeeps

LEMMA ForwardKeeps ==
    ASSUME IsJob(job), NEW k, NEW j, Standing(k, j), Forward
    PROVE  Standing(k + 1, 0)'
<1>1. /\ Take(Others) /\ UNCHANGED <<job, wire, targets, status>> /\ startup' = FALSE
      /\ SendOn(Decoded.message)
  BY DEF Forward
<1>2. /\ Decoded.message = job.traffic[k + 1] /\ job.traffic[k + 1].kind \in Others
      /\ job.traffic[k + 1].kind # "SSLRequest" => ~StartupAt(job, k + 1)
  BY <1>1, TakeMoves
<1>3. job.traffic[k + 1].kind \notin {"SSLRequest", "RowDescription", "Column", "DataRow", "ResultRow"}
  BY <1>2 DEF Others
<1>4. Made(job, targets', job.traffic[k + 1]) = job.traffic[k + 1]
  BY <1>3 DEF Made, IsRow
<1>5. startup' = StartupAt(job, k + 1)
  <2>1. StartupAt(job, k + 1) \in BOOLEAN
    BY DEF StartupAt
  <2> QED BY <1>1, <1>2, <1>3, <2>1
<1>6. SendOn(Made(job, targets', job.traffic[k + 1]))
  BY <1>1, <1>2, <1>4
<1>7. targets' = targets
  BY <1>1
<1> QED BY <1>1, <1>3, <1>5, <1>6, <1>7, SendKeeps

\* An SSLRequest is answered here.
LEMMA DenySslKeeps ==
    ASSUME IsJob(job), NEW k, NEW j, Standing(k, j), DenySsl
    PROVE  Standing(k + 1, 0)'
<1>1. /\ Take({"SSLRequest"}) /\ UNCHANGED <<job, wire, startup, targets, delivered, out, status>>
  BY DEF DenySsl
<1>2. /\ Aiming(job, k, targets) /\ Sent(job, k, targets, delivered)
      /\ Wrote(job, delivered, out)
  BY DEF Standing
<1>3. /\ k \in 0..(Len(job.traffic) - 1) /\ job.traffic[k + 1].kind = "SSLRequest"
      /\ Reading(job, k + 1, 0, buf', wire', StartupAt(job, k + 1), pending')
      /\ startup = StartupAt(job, k + 1)
  BY <1>1, TakeMoves
<1>4. Aiming(job, k + 1, targets)
  BY <1>2, <1>3, AimingOn
<1>5. Passed(job, k + 1) = Passed(job, k)
  BY <1>3, GoesOn
<1>6. Sent(job, k + 1, targets, delivered)
  BY <1>2, <1>5 DEF Sent
<1>7. Stopped(job, k + 1, status)
  <2>1. status = "open"
    BY <1>1 DEF Take
  <2> QED BY <2>1 DEF Stopped, Statuses
<1>8. Standing(k + 1, 0)' = /\ Reading(job, k + 1, 0, buf', wire', startup, pending')
                            /\ Aiming(job, k + 1, targets)
                            /\ Sent(job, k + 1, targets, delivered)
                            /\ Wrote(job, delivered, out)
                            /\ Stopped(job, k + 1, status)
  BY <1>1 DEF Standing
<1> QED BY <1>2, <1>3, <1>4, <1>6, <1>7, <1>8

LEMMA ReassembleKeeps ==
    ASSUME IsJob(job), NEW k, NEW j, Standing(k, j), Reassemble
    PROVE  Standing(k, j + 1)'
<1>1. /\ Decoded.status = "part" /\ pending' = Decoded.message /\ buf' = Decoded.rest
      /\ UNCHANGED <<job, wire, startup, targets, delivered, out, status>>
  BY DEF Reassemble
<1>2. /\ Reading(job, k, j, buf, wire, startup, pending) /\ Aiming(job, k, targets)
      /\ Sent(job, k, targets, delivered) /\ Wrote(job, delivered, out) /\ Stopped(job, k, status)
  BY DEF Standing
<1>3. /\ Decoded.message = PendingAt(job, k, j + 1)
      /\ Place(job, k, j + 1)
      /\ IsList(Decoded.rest) /\ Decoded.rest ++ wire = Left(job, k, j + 1)
  BY <1>1, <1>2, DecodedIs
<1>4. IsList(wire) /\ startup = StartupAt(job, k)
  BY <1>2 DEF Reading
<1>5. Reading(job, k, j + 1, buf', wire, startup, pending')
  BY <1>1, <1>3, <1>4 DEF Reading
<1>6. Standing(k, j + 1)' = /\ Reading(job, k, j + 1, buf', wire, startup, pending')
                            /\ Aiming(job, k, targets)
                            /\ Sent(job, k, targets, delivered)
                            /\ Wrote(job, delivered, out)
                            /\ Stopped(job, k, status)
  BY <1>1 DEF Standing
<1> QED BY <1>2, <1>5, <1>6

\* The session breaks off where the traffic ends.
LEMMA RejectKeeps ==
    ASSUME IsJob(job), NEW k, NEW j, Standing(k, j), Reject
    PROVE  Standing(k, j)'
<1>1. /\ Decoded.status = "malformed" /\ status' = "closed"
      /\ UNCHANGED <<job, wire, buf, startup, pending, targets, delivered, out>>
  BY DEF Reject, codec
<1>2. /\ Reading(job, k, j, buf, wire, startup, pending) /\ Aiming(job, k, targets)
      /\ Sent(job, k, targets, delivered) /\ Wrote(job, delivered, out)
  BY DEF Standing
<1>3. k = Len(job.traffic) /\ job.garbage # <<>>
  BY <1>1, <1>2, DecodedIs
<1>4. Stopped(job, k, status')
  BY <1>1, <1>3 DEF Stopped, Statuses
<1>5. Standing(k, j)' = /\ Reading(job, k, j, buf, wire, startup, pending)
                        /\ Aiming(job, k, targets)
                        /\ Sent(job, k, targets, delivered)
                        /\ Wrote(job, delivered, out)
                        /\ Stopped(job, k, status')
  BY <1>1 DEF Standing
<1> QED BY <1>2, <1>4, <1>5

LEMMA StutterKeeps ==
    ASSUME NEW k, NEW j, Standing(k, j), UNCHANGED vars
    PROVE  Standing(k, j)'
<1>1. UNCHANGED <<job, wire, buf, startup, pending, targets, delivered, out, status>>
  BY DEF vars, codec
<1> QED BY <1>1 DEF Standing

\* Every step keeps the session between two pieces of its traffic.
LEMMA Stands == Spec => []IInv
<1>1. IInv /\ [Next]_vars => IInv'
  <2> SUFFICES ASSUME IInv, [Next]_vars PROVE IInv'
    OBVIOUS
  <2>1. IsJob(job)
    BY DEF IInv
  <2>2. PICK k, j : Standing(k, j)
    BY DEF IInv
  <2>3. job' = job
    BY DEF Next, vars, Arrive, Describe, Row, Statement, DenySsl, Forward, Reassemble,
           Reject, Finished
  <2>4. IsJob(job)'
    BY <2>1, <2>3
  <2>5. \E kn, jn : Standing(kn, jn)'
    <3>1. CASE \E n \in 1..Len(wire) : Arrive(n)
      BY <2>1, <2>2, <3>1, ArriveKeeps
    <3>2. CASE Describe
      BY <2>1, <2>2, <3>2, DescribeKeeps
    <3>3. CASE Row
      BY <2>1, <2>2, <3>3, RowKeeps
    <3>4. CASE Statement
      BY <2>1, <2>2, <3>4, StatementKeeps
    <3>5. CASE DenySsl
      BY <2>1, <2>2, <3>5, DenySslKeeps
    <3>6. CASE Forward
      BY <2>1, <2>2, <3>6, ForwardKeeps
    <3>7. CASE Reassemble
      BY <2>1, <2>2, <3>7, ReassembleKeeps
    <3>8. CASE Reject
      BY <2>1, <2>2, <3>8, RejectKeeps
    <3>9. CASE Finished \/ UNCHANGED vars
      <4>1. UNCHANGED vars
        BY <3>9 DEF Finished
      <4> QED BY <2>2, <4>1, StutterKeeps
    <3> QED BY <3>1, <3>2, <3>3, <3>4, <3>5, <3>6, <3>7, <3>8, <3>9 DEF Next
  <2> QED BY <2>4, <2>5 DEF IInv
<1> QED BY <1>1, StartsStanding, PTL DEF Spec

-----------------------------------------------------------------------------
(* What follows for the properties *)

\* What has gone on is the traffic that goes on, as far as it has.
LEMMA TrafficOf ==
    ASSUME IsJob(job), NEW k \in 0..Len(job.traffic)
    PROVE  /\ Passed(job, k) \in Nat /\ Passed(job, k) <= Len(Traffic)
           /\ Len(Traffic) \in Nat /\ Len(Traffic) <= Len(job.traffic)
           /\ k = Len(job.traffic) => Passed(job, k) = Len(Traffic)
           /\ \A i \in 1..Passed(job, k) :
                 Traffic[i] = Came(job, i) /\ Cardinality(AskedOf(job)) + i \in 1..Len(job.traffic)
<1>1. PICK n : n = Cardinality(AskedOf(job))
  OBVIOUS
<1>2. Len(job.traffic) \in Nat /\ IsList(job.traffic) /\ n \in 0..Len(job.traffic)
  BY <1>1, TrafficIs, AskedIs
<1>3. n \in Nat /\ k \in Nat /\ n <= Len(job.traffic) /\ k <= Len(job.traffic)
  BY <1>2
<1>4. Traffic = SubSeq(job.traffic, n + 1, Len(job.traffic))
  BY <1>1 DEF Traffic, Asked, AskedOf
<1>5. Passed(job, k) = IF k <= n THEN 0 ELSE k - n
  BY <1>1 DEF Passed
<1>6. /\ n + 1 \in Nat /\ 1 <= n + 1 /\ n + 1 <= Len(job.traffic) + 1
      /\ (Len(job.traffic) - (n + 1)) + 1 = Len(job.traffic) - n
  BY <1>2, <1>3
<1>7. /\ Len(Traffic) = (Len(job.traffic) - (n + 1)) + 1
      /\ \A i \in 1..((Len(job.traffic) - (n + 1)) + 1) : Traffic[i] = job.traffic[((n + 1) + i) - 1]
  BY <1>2, <1>4, <1>6, PartOf
<1>8. Len(Traffic) = Len(job.traffic) - n
  BY <1>6, <1>7
<1>9. Passed(job, k) \in Nat /\ Passed(job, k) <= Len(Traffic) /\ Len(Traffic) \in Nat
      /\ Len(Traffic) <= Len(job.traffic) /\ (k = Len(job.traffic) => Passed(job, k) = Len(Traffic))
  BY <1>2, <1>3, <1>5, <1>8
<1>10. ASSUME NEW i \in 1..Passed(job, k) PROVE Traffic[i] = Came(job, i) /\ n + i \in 1..Len(job.traffic)
  <2>1. i \in 1..((Len(job.traffic) - (n + 1)) + 1) /\ ((n + 1) + i) - 1 = n + i
    BY <1>2, <1>3, <1>5, <1>6, <1>8, <1>9
  <2>2. n + i \in 1..Len(job.traffic)
    BY <1>2, <1>3, <1>6, <2>1
  <2>3. Came(job, i) = job.traffic[n + i]
    BY <1>1 DEF Came
  <2> QED BY <1>7, <2>1, <2>2, <2>3
<1> QED BY <1>1, <1>9, <1>10

LEMMA MessageIs ==
    ASSUME NEW w, IsJob(w), NEW i \in 1..Len(w.traffic)
    PROVE  /\ w.traffic[i] = [w.traffic[i] EXCEPT !.body = w.traffic[i].body]
           /\ \A body : /\ [w.traffic[i] EXCEPT !.body = body].body = body
                        /\ [w.traffic[i] EXCEPT !.body = body].kind = w.traffic[i].kind
<1>1. PICK m : m = w.traffic[i]
  OBVIOUS
<1>2. IF w.protocol = "postgres" THEN IsPgMessage(m) ELSE IsMySqlPacket(m)
  BY <1>1, TrafficIs
<1>3. m = [kind |-> m.kind, body |-> m.body] \/ m = [kind |-> m.kind, id |-> m.id, body |-> m.body]
  BY <1>2 DEF IsPgMessage, PgMessage, IsMySqlPacket, MySqlPacket
<1>4. m = [m EXCEPT !.body = m.body]
  BY <1>3
<1>5. ASSUME NEW body
      PROVE  [m EXCEPT !.body = body].body = body /\ [m EXCEPT !.body = body].kind = m.kind
  BY <1>3
<1> QED BY <1>1, <1>4, <1>5

LEMMA MadeRow ==
    ASSUME NEW w, IsJob(w), NEW i \in 1..Len(w.traffic), NEW tg, IsRow(w.traffic[i])
    PROVE  /\ Made(w, tg, w.traffic[i]).body = MaskRow(w.traffic[i].body, tg, w.policy).values
           /\ Made(w, tg, w.traffic[i])
                = [w.traffic[i] EXCEPT !.body = MaskRow(w.traffic[i].body, tg, w.policy).values]
<1>1. PICK body : body = MaskRow(w.traffic[i].body, tg, w.policy).values
  OBVIOUS
<1>2. Made(w, tg, w.traffic[i]) = [w.traffic[i] EXCEPT !.body = body]
  BY <1>1 DEF Made
<1>3. Made(w, tg, w.traffic[i]).body = body
  BY <1>2, MessageIs
<1> QED BY <1>1, <1>2, <1>3

LEMMA MadeOther ==
    ASSUME NEW w, NEW m, NEW tg, ~IsRow(m)
    PROVE  Made(w, tg, m) = m
BY DEF Made

LEMMA MadeKind ==
    ASSUME NEW w, IsJob(w), NEW i \in 1..Len(w.traffic), NEW tg
    PROVE  Made(w, tg, w.traffic[i]).kind = w.traffic[i].kind
<1>1. PICK body : body = MaskRow(w.traffic[i].body, tg, w.policy).values
  OBVIOUS
<1>2. [w.traffic[i] EXCEPT !.body = body].kind = w.traffic[i].kind
  BY MessageIs
<1>3. Made(w, tg, w.traffic[i])
        = IF IsRow(w.traffic[i]) THEN [w.traffic[i] EXCEPT !.body = body] ELSE w.traffic[i]
  BY <1>1 DEF Made
<1> QED BY <1>2, <1>3

\* Every message delivered is one of the traffic, masked if it is a row.
LEMMA DeliveredIs ==
    ASSUME IsJob(job), NEW k, NEW j, Standing(k, j), NEW i \in DOMAIN delivered
    PROVE  LET n == Cardinality(AskedOf(job)) + i
           IN /\ i \in 1..Len(delivered) /\ n \in 1..k /\ n \in 1..Len(job.traffic)
              /\ Traffic[i] = job.traffic[n]
              /\ delivered[i] = Made(job, targets, job.traffic[n])
              /\ delivered[i].kind = job.traffic[n].kind
<1>1. PICK n : n = Cardinality(AskedOf(job)) + i
  OBVIOUS
<1>2. Sent(job, k, targets, delivered) /\ k \in 0..Len(job.traffic)
  BY DEF Standing, Reading, Place
<1>3. /\ IsList(delivered) /\ Len(delivered) = Passed(job, k)
      /\ \A m \in 1..Len(delivered) : delivered[m] = Made(job, targets, Came(job, m))
  BY <1>2 DEF Sent
<1>4. i \in 1..Len(delivered) /\ i \in 1..Passed(job, k)
  BY <1>3, ListIs
<1>5. Traffic[i] = Came(job, i) /\ n \in 1..Len(job.traffic)
  BY <1>1, <1>2, <1>4, TrafficOf
<1>6. n \in 1..k
  BY <1>1, <1>2, <1>4, CameBefore
<1>7. Came(job, i) = job.traffic[n]
  BY <1>1 DEF Came
<1>8. delivered[i] = Made(job, targets, job.traffic[n])
  BY <1>3, <1>4, <1>7
<1>9. delivered[i].kind = job.traffic[n].kind
  BY <1>5, <1>8, MadeKind
<1> QED BY <1>1, <1>4, <1>5, <1>6, <1>7, <1>8, <1>9

LEMMA StandingFrames ==
    ASSUME IsJob(job), NEW k, NEW j, Standing(k, j)
    PROVE  FramesWhole
<1>1. /\ Reading(job, k, j, buf, wire, startup, pending) /\ Aiming(job, k, targets)
      /\ Sent(job, k, targets, delivered) /\ Wrote(job, delivered, out) /\ Stopped(job, k, status)
  BY DEF Standing
<1>2. k \in 0..Len(job.traffic) /\ IsList(delivered) /\ Len(delivered) = Passed(job, k)
  BY <1>1 DEF Reading, Place, Sent
<1>3. DOMAIN delivered = 1..Len(delivered)
  BY <1>2, ListIs
<1>4. ASSUME NEW i \in DOMAIN delivered
      PROVE  /\ delivered[i] = [Traffic[i] EXCEPT !.body = delivered[i].body]
             /\ ~IsRow(delivered[i]) => delivered[i] = Traffic[i]
             /\ IsRow(delivered[i]) =>
                   /\ Len(delivered[i].body) = Len(Traffic[i].body)
                   /\ \A c \in DOMAIN delivered[i].body :
                         delivered[i].body[c] = Null <=> Traffic[i].body[c] = Null
  <2>1. PICK n : n = Cardinality(AskedOf(job)) + i
    OBVIOUS
  <2>2. /\ n \in 1..Len(job.traffic) /\ Traffic[i] = job.traffic[n]
        /\ delivered[i] = Made(job, targets, job.traffic[n]) /\ delivered[i].kind = job.traffic[n].kind
    BY <2>1, DeliveredIs
  <2>3. /\ delivered[i] = [Traffic[i] EXCEPT !.body = delivered[i].body]
        /\ ~IsRow(delivered[i]) => delivered[i] = Traffic[i]
    <3>1. CASE IsRow(job.traffic[n])
      <4>1. PICK body : body = MaskRow(job.traffic[n].body, targets, job.policy).values
        OBVIOUS
      <4>2. delivered[i].body = body /\ delivered[i] = [Traffic[i] EXCEPT !.body = body]
        BY <2>2, <3>1, <4>1, MadeRow
      <4> QED BY <2>2, <3>1, <4>2 DEF IsRow
    <3>2. CASE ~IsRow(job.traffic[n])
      <4>1. delivered[i] = job.traffic[n]
        BY <2>2, <3>2, MadeOther
      <4>2. job.traffic[n] = [job.traffic[n] EXCEPT !.body = job.traffic[n].body]
        BY <2>2, MessageIs
      <4> QED BY <2>2, <4>1, <4>2
    <3> QED BY <3>1, <3>2
  <2>4. ASSUME IsRow(delivered[i])
        PROVE  /\ Len(delivered[i].body) = Len(Traffic[i].body)
               /\ \A c \in DOMAIN delivered[i].body :
                     delivered[i].body[c] = Null <=> Traffic[i].body[c] = Null
    <3>1. IsRow(job.traffic[n])
      BY <2>2, <2>4 DEF IsRow
    <3>2. PICK came, made : /\ came = job.traffic[n].body
                            /\ made = MaskRow(job.traffic[n].body, targets, job.policy).values
      OBVIOUS
    <3>3. delivered[i].body = made /\ Traffic[i].body = came
      <4>1. Made(job, targets, job.traffic[n]).body
              = MaskRow(job.traffic[n].body, targets, job.policy).values
        BY <2>2, <3>1, MadeRow
      <4> QED BY <2>2, <3>2, <4>1
    <3>4. /\ job.policy.heuristics.types \subseteq PiiTypes
          /\ IsList(came) /\ \A c \in 1..Len(came) : IsCell(came[c])
      BY <2>2, <3>1, <3>2, RowIs
    <3>5. /\ IsList(made) /\ Len(made) = Len(came)
          /\ \A c \in 1..Len(came) : made[c] = Null <=> came[c] = Null
      <4>1. PICK row, policy, strategies :
               /\ policy = job.policy /\ strategies = targets
               /\ row = MaskRow(came, strategies, policy)
        OBVIOUS
      <4>2. made = row.values /\ policy.heuristics.types \subseteq PiiTypes
        BY <3>2, <3>4, <4>1
      <4>3. IsList(came) /\ \A c \in 1..Len(came) : IsCell(came[c])
        BY <3>4
      <4>4. /\ IsList(row.values) /\ Len(row.values) = Len(came)
            /\ \A c \in 1..Len(came) : row.values[c] = Null <=> came[c] = Null
        BY ONLY <4>1, <4>2, <4>3, RowMasked
      <4> QED BY <4>2, <4>4
    <3>6. DOMAIN made = 1..Len(came)
      BY <3>5, ListIs
    <3> QED BY <3>3, <3>5, <3>6
  <2> QED BY <2>3, <2>4
<1>5. \/ \E i \in DOMAIN delivered : LongQuery(delivered[i])
      \/ out = Flatten(PeerWrites, delivered)
  <2>1. CASE \E i \in 1..Len(delivered) : Long(job, delivered[i])
    BY <1>3, <2>1 DEF Long, LongQuery
  <2>2. CASE out = FlattenSeq([i \in DOMAIN delivered |-> PeerCode(job, delivered[i])])
    <3>1. [i \in DOMAIN delivered |-> PeerCode(job, delivered[i])]
            = [i \in DOMAIN delivered |-> PeerWrites(delivered[i])]
      BY DEF PeerCode, PeerWrites
    <3> QED BY <2>2, <3>1 DEF Flatten
  <2> QED BY <1>1, <2>1, <2>2 DEF Wrote
<1>6. status = "closed" => job.garbage # <<>> /\ Len(delivered) = Len(Traffic)
  BY <1>1, <1>2, TrafficOf DEF Stopped
<1>7. wire = <<>> /\ Decoded.status = "more" /\ job.garbage = <<>> =>
         buf = <<>> /\ Len(delivered) = Len(Traffic)
  <2>1. wire = <<>> /\ Decoded.status = "more" => k = Len(job.traffic) /\ buf = job.garbage
    BY <1>1, DecodedIs
  <2> QED BY <1>2, <2>1, TrafficOf
<1>8. \A i \in DOMAIN delivered \ Rows : delivered[i] = Traffic[i]
  BY <1>4 DEF Rows
<1>9. \A i \in Rows : /\ Len(delivered[i].body) = Len(Traffic[i].body)
                      /\ \A c \in DOMAIN delivered[i].body :
                            delivered[i].body[c] = Null <=> Traffic[i].body[c] = Null
  BY <1>4 DEF Rows
<1> QED BY <1>4, <1>5, <1>6, <1>7, <1>8, <1>9 DEF FramesWhole

\* However the network cuts the stream, the other side is sent the messages of the
\* traffic, in order, framed as their protocol has it, and nothing but the values of
\* rows is changed: the codecs of protocol/postgres.rs and protocol/mysql.rs lose
\* nothing and make nothing up, and give up at the first wrong byte only.
THEOREM FramesAreWhole == Spec => []FramesWhole
<1>1. IInv => FramesWhole
  BY StandingFrames DEF IInv
<1> QED BY <1>1, Stands, PTL

-----------------------------------------------------------------------------
(* What the log ring tells of *)

Changed(w, d) == {i \in DOMAIN d : IsRow(d[i]) /\ d[i] # Came(w, i)}
Stated(d)     == {i \in DOMAIN d : d[i].kind \in {"Query", "Parse"}}
Told(w, d)    == Changed(w, d) \cup Stated(d)

\* An entry of a message.
Tell(w, entry, message) ==
    IF IsRow(message)
    THEN /\ entry.kind = "DataMasked"
         /\ \A token \in Range(entry.shown) :
               token.fake /\ (token = Fake("word") \/ token \in TokensOf(message))
    ELSE entry = Entry(message.kind, <<>>, {}, InClear(Sql(message), w.protocol = "mysql"))

\* How many places there are from i on.
Rank(places, i) == Cardinality({k \in places : k >= i})

Recent(w, d, r) ==
    /\ IsList(r)
    /\ Len(r) = IF Cardinality(Told(w, d)) < RingSize THEN Cardinality(Told(w, d)) ELSE RingSize
    /\ \A e \in 1..Len(r) : \E i \in Told(w, d) : Rank(Told(w, d), i) = e /\ Tell(w, r[e], d[i])
Counting(w, d, n) ==
    /\ n \in Nat /\ n >= Cardinality(Changed(w, d))
    /\ Changed(w, d) = {} => n = 0
Logged(w, d, r, n) == Recent(w, d, r) /\ Counting(w, d, n)

LEMMA RankMore ==
    ASSUME NEW n \in Nat, NEW places \in SUBSET (1..n)
    PROVE  LET more == places \cup {n + 1}
           IN /\ IsFiniteSet(places) /\ Cardinality(places) \in Nat
              /\ Cardinality(more) = Cardinality(places) + 1
              /\ Rank(more, n + 1) = 1
              /\ \A i \in places : Rank(places, i) \in Nat /\ Rank(more, i) = Rank(places, i) + 1
<1>1. PICK more : more = places \cup {n + 1}
  OBVIOUS
<1>2. IsFiniteSet(1..n)
  BY FS_Interval
<1>3. /\ IsFiniteSet(places) /\ Cardinality(places) \in Nat
  BY <1>2, FS_Subset, FS_CardinalityType
<1>4. n + 1 \notin places
  OBVIOUS
<1>5. Cardinality(more) = Cardinality(places) + 1
  BY <1>1, <1>3, <1>4, FS_AddElement
<1>6. Rank(more, n + 1) = 1
  <2>1. \A k \in more : k >= n + 1 <=> k = n + 1
    BY <1>1
  <2>2. {k \in more : k >= n + 1} = {n + 1}
    BY <1>1, <2>1
  <2> QED BY <2>2, FS_Singleton DEF Rank
<1>7. ASSUME NEW i \in places PROVE Rank(places, i) \in Nat /\ Rank(more, i) = Rank(places, i) + 1
  <2>1. PICK part : part = {k \in places : k >= i}
    OBVIOUS
  <2>2. IsFiniteSet(part) /\ Cardinality(part) \in Nat /\ n + 1 \notin part
    BY <1>3, <1>4, <2>1, FS_Subset, FS_CardinalityType
  <2>3. {k \in more : k >= i} = part \cup {n + 1}
    BY <1>1, <2>1
  <2>4. Cardinality(part \cup {n + 1}) = Cardinality(part) + 1
    BY <2>2, FS_AddElement
  <2> QED BY <2>1, <2>2, <2>3, <2>4 DEF Rank
<1> QED BY <1>1, <1>3, <1>5, <1>6, <1>7

\* The ranks of two places differ.
LEMMA RankOnce ==
    ASSUME NEW n \in Nat, NEW places \in SUBSET (1..n), NEW e, NEW i \in places, Rank(places, i) = e
    PROVE  Newest(e, places) = i
<1>1. ASSUME NEW a \in places, NEW b \in places, Rank(places, a) = Rank(places, b), a < b
      PROVE  FALSE
  <2>1. PICK upper, lower : /\ upper = {k \in places : k >= b} /\ lower = {k \in places : k >= a}
    OBVIOUS
  <2>2. IsFiniteSet(lower)
    <3>1. IsFiniteSet(1..n)
      BY FS_Interval
    <3>2. lower \subseteq 1..n
      BY <2>1
    <3> QED BY <3>1, <3>2, FS_Subset
  <2>3. upper \subseteq lower
    <3> SUFFICES ASSUME NEW k \in upper PROVE k \in lower
      OBVIOUS
    <3>1. k \in places /\ k >= b
      BY <2>1
    <3>2. k \in Int /\ a \in Int /\ b \in Int
      BY <3>1
    <3>3. k >= a
      BY <1>1, <3>1, <3>2
    <3> QED BY <2>1, <3>1, <3>3
  <2>4. Cardinality(upper) = Cardinality(lower)
    BY <1>1, <2>1 DEF Rank
  <2>5. upper = lower
    BY <2>2, <2>3, <2>4, FS_Subset
  <2> QED BY <1>1, <2>1, <2>5
<1>2. \A b \in places : Rank(places, b) = e => b = i
  <2> SUFFICES ASSUME NEW b \in places, Rank(places, b) = e, b # i PROVE FALSE
    OBVIOUS
  <2>1. b < i \/ i < b
    OBVIOUS
  <2> QED BY <1>1, <2>1
<1>3. Newest(e, places) = CHOOSE b \in places : Rank(places, b) = e
  BY DEF Newest, Rank
<1> QED BY <1>2, <1>3

\* What another message changes of what is told.
Beyond(d) == Len(d) + 1
LEMMA ToldMore ==
    ASSUME NEW w, NEW d, IsList(d), NEW m
    PROVE  /\ \A i : i \in Changed(w, Append(d, m))
                 <=> i \in Changed(w, d) \/ (i = Beyond(d) /\ IsRow(m) /\ m # Came(w, Beyond(d)))
           /\ \A i : i \in Stated(Append(d, m))
                 <=> i \in Stated(d) \/ (i = Beyond(d) /\ m.kind \in {"Query", "Parse"})
<1>0. PICK at : at = Beyond(d)
  OBVIOUS
<1>1. PICK longer : longer = Append(d, m)
  OBVIOUS
<1>2. /\ IsList(longer) /\ Len(longer) = Len(d) + 1 /\ longer[at] = m
      /\ \A i \in 1..Len(d) : longer[i] = d[i]
  BY <1>0, <1>1, Appended DEF Beyond
<1>3. DOMAIN d = 1..Len(d) /\ DOMAIN longer = 1..(Len(d) + 1) /\ Len(d) \in Nat
  BY <1>2, ListIs
<1>4. \A i : i \in DOMAIN longer <=> i \in DOMAIN d \/ i = at
  BY <1>0, <1>3 DEF Beyond
<1>5. at \notin DOMAIN d
  BY <1>0, <1>3 DEF Beyond
<1>6. \A i : i \in Changed(w, longer)
               <=> i \in Changed(w, d) \/ (i = at /\ IsRow(m) /\ m # Came(w, at))
  BY <1>2, <1>3, <1>4, <1>5 DEF Changed
<1>7. \A i : i \in Stated(longer)
               <=> i \in Stated(d) \/ (i = at /\ m.kind \in {"Query", "Parse"})
  BY <1>2, <1>3, <1>4, <1>5 DEF Stated
<1> QED BY <1>0, <1>1, <1>6, <1>7

LEMMA ToldIn ==
    ASSUME NEW w, NEW d, IsList(d)
    PROVE  Changed(w, d) \subseteq 1..Len(d) /\ Told(w, d) \subseteq 1..Len(d)
<1>1. DOMAIN d = 1..Len(d)
  BY ListIs
<1> QED BY <1>1 DEF Changed, Stated, Told

\* A message that is told of.
LEMMA RecentMore ==
    ASSUME NEW w, NEW d, IsList(d), NEW r, Recent(w, d, r), NEW m, NEW entry, Tell(w, entry, m),
           \/ IsRow(m) /\ m # Came(w, Len(d) + 1)
           \/ m.kind \in {"Query", "Parse"}
    PROVE  Recent(w, Append(d, m), <<entry>> \o IF Len(r) < RingSize THEN r ELSE Front(r))
<1>1. PICK n, longer, places : n = Len(d) /\ longer = Append(d, m) /\ places = Told(w, d)
  OBVIOUS
<1>2. /\ Told(w, longer) = places \cup {n + 1} /\ places \in SUBSET (1..n) /\ n \in Nat
      /\ longer[n + 1] = m /\ \A i \in 1..n : longer[i] = d[i]
  <2>0. (IsRow(m) /\ m # Came(w, Beyond(d))) \/ m.kind \in {"Query", "Parse"}
    BY DEF Beyond
  <2>1. \A i : i \in Told(w, Append(d, m)) <=> i \in Told(w, d) \/ i = Beyond(d)
    BY <2>0, ToldMore DEF Told
  <2>4. \A i : i \in Told(w, Append(d, m)) <=> i \in Told(w, d) \/ i = n + 1
    BY <1>1, <2>1 DEF Beyond
  <2>2. Told(w, d) \subseteq 1..Len(d) /\ Len(d) \in Nat
    BY ToldIn, ListIs
  <2>3. longer[n + 1] = m /\ \A i \in 1..n : longer[i] = d[i]
    BY <1>1, Appended
  <2> QED BY <1>1, <2>2, <2>3, <2>4
<1>3. PICK more : more = places \cup {n + 1}
  OBVIOUS
<1>4. /\ Cardinality(places) \in Nat /\ Cardinality(more) = Cardinality(places) + 1
      /\ Rank(more, n + 1) = 1
      /\ \A i \in places : Rank(places, i) \in Nat /\ Rank(more, i) = Rank(places, i) + 1
  BY <1>2, <1>3, RankMore
<1>5. /\ IsList(r) /\ Len(r) = IF Cardinality(places) < RingSize THEN Cardinality(places) ELSE RingSize
      /\ \A e \in 1..Len(r) : \E i \in places : Rank(places, i) = e /\ Tell(w, r[e], d[i])
  BY <1>1 DEF Recent
<1>6. RingSize \in Nat \ {0} /\ Len(r) \in Nat
  BY <1>5, ListIs, DataPathAssumption
<1>7. PICK kept : kept = IF Len(r) < RingSize THEN r ELSE Front(r)
  OBVIOUS
<1>8. /\ IsList(kept) /\ \A e \in 1..Len(kept) : e \in 1..Len(r) /\ kept[e] = r[e]
      /\ Len(kept) = IF Len(r) < RingSize THEN Len(r) ELSE RingSize - 1
  <2>1. CASE Len(r) < RingSize
    BY <1>5, <1>7, <2>1
  <2>2. CASE ~(Len(r) < RingSize)
    <3>1. Len(r) = RingSize
      BY <1>4, <1>5, <1>6, <2>2
    <3>2. kept = SubSeq(r, 1, Len(r) - 1)
      BY <1>7, <2>2 DEF Front
    <3>3. PICK l : l = Len(r) - 1
      OBVIOUS
    <3>4. l \in Nat /\ 1 <= l + 1 /\ l <= Len(r) /\ (l - 1) + 1 = l
      BY <1>6, <3>1, <3>3
    <3>5. IsList(kept) /\ Len(kept) = l /\ \A e \in 1..l : kept[e] = r[(1 + e) - 1]
      BY <1>5, <3>2, <3>3, <3>4, PartOf
    <3>6. \A e \in 1..l : (1 + e) - 1 = e /\ e \in 1..Len(r)
      BY <3>4
    <3> QED BY <2>2, <3>1, <3>3, <3>5, <3>6
  <2> QED BY <2>1, <2>2
<1>9. PICK all : all = One(entry) ++ kept
  OBVIOUS
<1>10. /\ IsList(all) /\ Len(all) = Len(kept) + 1 /\ all[1] = entry
       /\ \A e \in 1..Len(kept) : all[e + 1] = kept[e]
  BY <1>8, <1>9, FirstOf
<1>11. Len(kept) \in Nat
  BY <1>8, ListIs
<1>12. Len(all) = IF Cardinality(more) < RingSize THEN Cardinality(more) ELSE RingSize
  BY <1>4, <1>5, <1>6, <1>8, <1>10, <1>11
<1>13. ASSUME NEW e \in 1..Len(all)
       PROVE  \E i \in more : Rank(more, i) = e /\ Tell(w, all[e], longer[i])
  <2>1. CASE e = 1
    <3>1. n + 1 \in more
      BY <1>3
    <3> QED BY <1>2, <1>4, <1>10, <2>1, <3>1
  <2>2. CASE e # 1
    <3>1. PICK f : f = e - 1
      OBVIOUS
    <3>2. f \in 1..Len(kept) /\ e = f + 1
      BY <1>10, <1>11, <2>2, <3>1
    <3>3. PICK i \in places : Rank(places, i) = f /\ Tell(w, r[f], d[i])
      BY <1>5, <1>8, <3>2
    <3>4. i \in more /\ Rank(more, i) = e /\ longer[i] = d[i] /\ all[e] = r[f]
      BY <1>2, <1>3, <1>4, <1>8, <1>10, <3>2, <3>3
    <3> QED BY <3>3, <3>4
  <2> QED BY <2>1, <2>2
<1>14. Recent(w, longer, all)
  BY <1>2, <1>3, <1>10, <1>12, <1>13 DEF Recent
<1>15. all = <<entry>> \o kept
  BY <1>9 DEF One, ++
<1> QED BY <1>1, <1>7, <1>14, <1>15

\* A message that is not.
LEMMA RecentSame ==
    ASSUME NEW w, NEW d, IsList(d), NEW r, Recent(w, d, r), NEW m,
           ~(IsRow(m) /\ m # Came(w, Len(d) + 1)), m.kind \notin {"Query", "Parse"}
    PROVE  Recent(w, Append(d, m), r) /\ Changed(w, Append(d, m)) = Changed(w, d)
<1>1. PICK longer : longer = Append(d, m)
  OBVIOUS
<1>2. /\ Changed(w, longer) = Changed(w, d) /\ Stated(longer) = Stated(d)
      /\ Told(w, d) \subseteq 1..Len(d) /\ \A i \in 1..Len(d) : longer[i] = d[i]
  <2>0. ~(IsRow(m) /\ m # Came(w, Beyond(d)))
    BY DEF Beyond
  <2>1. /\ \A i : i \in Changed(w, Append(d, m)) <=> i \in Changed(w, d)
        /\ \A i : i \in Stated(Append(d, m)) <=> i \in Stated(d)
    BY <2>0, ToldMore
  <2>2. Told(w, d) \subseteq 1..Len(d)
    BY ToldIn
  <2>3. \A i \in 1..Len(d) : longer[i] = d[i]
    BY <1>1, Appended
  <2>4. Changed(w, longer) = Changed(w, d) /\ Stated(longer) = Stated(d)
    BY <1>1, <2>1
  <2> QED BY <2>2, <2>3, <2>4
<1>3. Told(w, longer) = Told(w, d) /\ \A i \in Told(w, d) : longer[i] = d[i]
  BY <1>2 DEF Told
<1>4. /\ IsList(r)
      /\ Len(r) = IF Cardinality(Told(w, longer)) < RingSize THEN Cardinality(Told(w, longer)) ELSE RingSize
      /\ \A e \in 1..Len(r) : \E i \in Told(w, longer) :
            Rank(Told(w, longer), i) = e /\ Tell(w, r[e], longer[i])
  BY <1>3 DEF Recent
<1> QED BY <1>1, <1>2, <1>4 DEF Recent

\* The next message that goes on is the next of those that have come.
LEMMA NextCame ==
    ASSUME IsJob(job), NEW k, NEW j, Standing(k, j), NEW kinds, Take(kinds), UNCHANGED <<job, wire>>,
           job.traffic[k + 1].kind # "SSLRequest"
    PROVE  IsList(delivered) /\ Came(job, Len(delivered) + 1) = job.traffic[k + 1]
<1>1. k \in 0..(Len(job.traffic) - 1)
  BY TakeMoves
<1>2. IsList(delivered) /\ Len(delivered) = Passed(job, k)
  BY DEF Standing, Sent
<1> QED BY <1>1, <1>2, GoesOn

\* A message forwarded as it came is not told of, unless it is a statement.
LEMMA PassingKeeps ==
    ASSUME IsJob(job), NEW k, NEW j, Standing(k, j), NEW kinds, Take(kinds),
           UNCHANGED <<job, wire, ring, masked>>, SendOn(Decoded.message),
           kinds \cap {"SSLRequest", "Query", "Parse"} = {}, Logged(job, delivered, ring, masked)
    PROVE  Logged(job, delivered, ring, masked)'
<1>1. PICK m : m = Decoded.message
  OBVIOUS
<1>2. m = job.traffic[k + 1] /\ m.kind \in kinds
  BY <1>1, TakeMoves
<1>3. m.kind \notin {"SSLRequest", "Query", "Parse"}
  BY <1>2
<1>4. IsList(delivered) /\ Came(job, Len(delivered) + 1) = m
  BY <1>2, <1>3, NextCame
<1>5. delivered' = Append(delivered, m)
  BY <1>1 DEF SendOn
<1>6. Recent(job, delivered, ring) /\ Counting(job, delivered, masked)
  BY DEF Logged
<1>7. /\ Recent(job, Append(delivered, m), ring)
      /\ Changed(job, Append(delivered, m)) = Changed(job, delivered)
  BY <1>3, <1>4, <1>6, RecentSame
<1>8. Counting(job, Append(delivered, m), masked)
  BY <1>6, <1>7 DEF Counting
<1>9. Logged(job, delivered, ring, masked)'
        = (Recent(job, delivered', ring) /\ Counting(job, delivered', masked))
  BY DEF Logged
<1> QED BY <1>5, <1>7, <1>8, <1>9

\* A row is told of and counted if it is changed.
LEMMA RowLogged ==
    ASSUME IsJob(job), NEW k, NEW j, Standing(k, j), Row, Logged(job, delivered, ring, masked)
    PROVE  Logged(job, delivered, ring, masked)'
<1>1. /\ Take({"DataRow", "ResultRow"}) /\ UNCHANGED <<job, wire>>
  BY DEF Row
<1>2. PICK came, row, m, names :
         /\ came = Decoded.message /\ row = MaskRow(came.body, targets, job.policy)
         /\ m = [came EXCEPT !.body = row.values]
         /\ names = {labels[i] : i \in row.told \cap DOMAIN labels}
  OBVIOUS
<1>3. /\ delivered' = Append(delivered, m) /\ masked' = masked + Len(row.used)
      /\ row.shown = <<>> => ring' = ring
      /\ row.shown # <<>> =>
            ring' = <<Entry("DataMasked", row.shown, names, {})>>
                      \o IF Len(ring) < RingSize THEN ring ELSE Front(ring)
  BY <1>2 DEF Row, SendOn, AddLog
<1>4. came = job.traffic[k + 1] /\ came.kind \in {"DataRow", "ResultRow"} /\ k + 1 \in 1..Len(job.traffic)
  BY <1>1, <1>2, TakeMoves
<1>5. IsList(delivered) /\ Came(job, Len(delivered) + 1) = came
  BY <1>1, <1>4, NextCame
<1>6. IsRow(came)
  BY <1>4 DEF IsRow
<1>7. /\ came = [came EXCEPT !.body = came.body]
      /\ m.body = row.values /\ m.kind = came.kind
  BY <1>2, <1>4, MessageIs
<1>8. IsRow(m) /\ m.kind \notin {"Query", "Parse"} /\ (m = came <=> row.values = came.body)
  BY <1>2, <1>4, <1>7 DEF IsRow
<1>9. /\ job.policy.heuristics.types \subseteq PiiTypes
      /\ IsList(came.body) /\ \A c \in 1..Len(came.body) : IsCell(came.body[c])
  BY <1>4, <1>6, RowIs
<1>10. /\ IsList(row.values) /\ Len(row.values) = Len(came.body)
       /\ IsList(row.used) /\ IsList(row.shown)
       /\ row.values = came.body => row.used = <<>> /\ row.shown = <<>>
       /\ row.values # came.body => row.used # <<>> /\ row.shown # <<>>
       /\ \A token \in Range(row.shown) :
             /\ token.fake
             /\ token = Fake("word") \/ \E c \in 1..Len(came.body) : token \in Range(Flat(row.values[c]))
  <2>1. /\ IsList(row.values) /\ Len(row.values) = Len(came.body)
        /\ IsList(row.used) /\ IsList(row.shown)
    BY <1>2, <1>9, RowMasked
  <2>2. /\ row.values = came.body => row.used = <<>> /\ row.shown = <<>>
        /\ row.values # came.body => row.used # <<>> /\ row.shown # <<>>
    BY <1>2, <1>9, RowMasked
  <2>3. \A token \in Range(row.shown) :
           /\ token.fake
           /\ token = Fake("word") \/ \E c \in 1..Len(came.body) : token \in Range(Flat(row.values[c]))
    <3>1. Shows(row)
      BY <1>2, <1>9, RowMasked
    <3> QED BY <2>1, <3>1 DEF Shows
  <2> QED BY <2>1, <2>2, <2>3
<1>11. /\ Recent(job, delivered, ring) /\ masked \in Nat /\ masked >= Cardinality(Changed(job, delivered))
       /\ (Changed(job, delivered) = {} => masked = 0)
  BY DEF Logged, Counting
<1>12. Logged(job, delivered, ring, masked)'
         = (Recent(job, delivered', ring') /\ Counting(job, delivered', masked'))
  BY <1>1 DEF Logged
<1>13. CASE m = came
  <2>1. row.used = <<>> /\ ring' = ring
    BY <1>3, <1>8, <1>10, <1>13
  <2>2. masked' = masked
    BY <1>3, <1>11, <2>1, NoList
  <2>3. /\ Recent(job, Append(delivered, m), ring)
        /\ Changed(job, Append(delivered, m)) = Changed(job, delivered)
    BY <1>5, <1>8, <1>11, <1>13, RecentSame
  <2>4. Counting(job, Append(delivered, m), masked)
    BY <1>11, <2>3 DEF Counting
  <2> QED BY <1>3, <1>12, <2>1, <2>2, <2>3, <2>4
<1>14. CASE m # came
  <2>1. row.shown # <<>> /\ row.used # <<>>
    BY <1>8, <1>10, <1>14
  <2>2. PICK entry : entry = Entry("DataMasked", row.shown, names, {})
    OBVIOUS
  <2>3. Tell(job, entry, m)
    <3>1. entry.kind = "DataMasked" /\ entry.shown = row.shown
      BY <2>2 DEF Entry
    <3>2. DOMAIN row.values = 1..Len(came.body)
      BY <1>10, ListIs
    <3>3. ASSUME NEW token \in Range(row.shown)
          PROVE  token.fake /\ (token = Fake("word") \/ token \in TokensOf(m))
      BY <1>7, <1>10, <3>2 DEF TokensOf
    <3> QED BY <1>8, <3>1, <3>3 DEF Tell
  <2>4. PICK longer : longer = Append(delivered, m)
    OBVIOUS
  <2>5. Recent(job, longer, ring')
    BY <1>3, <1>5, <1>8, <1>11, <1>14, <2>1, <2>2, <2>3, <2>4, RecentMore
  <2>6. Changed(job, longer) = Changed(job, delivered) \cup {Len(delivered) + 1}
    <3>1. m # Came(job, Beyond(delivered))
      BY <1>5, <1>14 DEF Beyond
    <3>2. \A i : i \in Changed(job, longer) <=> i \in Changed(job, delivered) \/ i = Beyond(delivered)
      BY <1>5, <1>8, <2>4, <3>1, ToldMore
    <3> QED BY <3>2 DEF Beyond
  <2>7. Cardinality(Changed(job, longer)) = Cardinality(Changed(job, delivered)) + 1
        /\ Cardinality(Changed(job, delivered)) \in Nat
    <3>1. Changed(job, delivered) \in SUBSET (1..Len(delivered)) /\ Len(delivered) \in Nat
      BY <1>5, ToldIn, ListIs
    <3> QED BY <2>6, <3>1, RankMore
  <2>8. Len(row.used) \in Nat \ {0}
    BY <1>10, <2>1, ListIs, NoList
  <2>9. masked' \in Nat /\ masked' >= Cardinality(Changed(job, longer)) /\ Changed(job, longer) # {}
    BY <1>3, <1>11, <2>6, <2>7, <2>8
  <2>10. Counting(job, longer, masked')
    BY <2>9 DEF Counting
  <2> QED BY <1>3, <1>12, <2>4, <2>5, <2>10
<1> QED BY <1>13, <1>14

\* A statement is always told of.
LEMMA StatementLogged ==
    ASSUME IsJob(job), NEW k, NEW j, Standing(k, j), Statement, Logged(job, delivered, ring, masked)
    PROVE  Logged(job, delivered, ring, masked)'
<1>1. /\ Take({"Query", "Parse"}) /\ UNCHANGED <<job, wire, masked>>
  BY DEF Statement
<1>2. PICK m, entry : /\ m = Decoded.message
                      /\ entry = Entry(m.kind, <<>>, {}, InClear(Sql(m), job.protocol = "mysql"))
  OBVIOUS
<1>3. /\ delivered' = Append(delivered, m)
      /\ ring' = <<entry>> \o IF Len(ring) < RingSize THEN ring ELSE Front(ring)
  BY <1>2 DEF Statement, SendOn, AddLog, Sql
<1>4. m = job.traffic[k + 1] /\ m.kind \in {"Query", "Parse"}
  BY <1>1, <1>2, TakeMoves
<1>5. IsList(delivered)
  BY <1>1, <1>4, NextCame
<1>6. ~IsRow(m)
  BY <1>4 DEF IsRow
<1>7. Recent(job, delivered, ring) /\ Counting(job, delivered, masked)
  BY DEF Logged
<1>8. Tell(job, entry, m)
  BY <1>2, <1>6 DEF Tell
<1>9. Recent(job, delivered', ring')
  BY <1>3, <1>4, <1>5, <1>7, <1>8, RecentMore
<1>10. Changed(job, Append(delivered, m)) = Changed(job, delivered)
  <2>1. \A i : i \in Changed(job, Append(delivered, m)) <=> i \in Changed(job, delivered)
    BY <1>5, <1>6, ToldMore
  <2> QED BY <2>1
<1>11. Counting(job, delivered', masked')
  BY <1>1, <1>3, <1>7, <1>10 DEF Counting
<1>12. Logged(job, delivered, ring, masked)'
         = (Recent(job, delivered', ring') /\ Counting(job, delivered', masked'))
  BY <1>1 DEF Logged
<1> QED BY <1>9, <1>11, <1>12

\* Nothing else is told of.
LEMMA TellsOfThose == Spec => []Logged(job, delivered, ring, masked)
<1>1. Init => Logged(job, delivered, ring, masked)
  <2> SUFFICES ASSUME Init PROVE Logged(job, delivered, ring, masked)
    OBVIOUS
  <2>1. delivered = <<>> /\ ring = <<>> /\ masked = 0
    BY DEF Init
  <2>2. Changed(job, delivered) = {} /\ Told(job, delivered) = {}
    BY <2>1 DEF Changed, Stated, Told
  <2>3. Cardinality(Changed(job, delivered)) = 0 /\ Cardinality(Told(job, delivered)) = 0
    BY <2>2, FS_EmptySet
  <2>4. IsList(ring) /\ Len(ring) = 0 /\ RingSize \in Nat \ {0}
    BY <2>1, NoList, DataPathAssumption
  <2>5. ~\E e : e \in 1..Len(ring)
    BY <2>4
  <2>6. Recent(job, delivered, ring)
    BY <2>3, <2>4, <2>5 DEF Recent
  <2>7. Counting(job, delivered, masked)
    BY <2>1, <2>3 DEF Counting
  <2> QED BY <2>6, <2>7 DEF Logged
<1>2. IInv /\ Logged(job, delivered, ring, masked) /\ [Next]_vars => Logged(job, delivered, ring, masked)'
  <2> SUFFICES ASSUME IInv, Logged(job, delivered, ring, masked), [Next]_vars
               PROVE  Logged(job, delivered, ring, masked)'
    OBVIOUS
  <2>1. IsJob(job)
    BY DEF IInv
  <2>2. PICK k, j : Standing(k, j)
    BY DEF IInv
  <2>3. CASE Describe
    <3>1. /\ Take({"RowDescription", "Column"}) /\ UNCHANGED <<job, wire, ring, masked>>
          /\ SendOn(Decoded.message)
      BY <2>3 DEF Describe
    <3> QED BY <2>1, <2>2, <3>1, PassingKeeps
  <2>4. CASE Row
    BY <2>1, <2>2, <2>4, RowLogged
  <2>5. CASE Statement
    BY <2>1, <2>2, <2>5, StatementLogged
  <2>6. CASE Forward
    <3>1. Take(Others) /\ UNCHANGED <<job, wire, ring, masked>> /\ SendOn(Decoded.message)
      BY <2>6 DEF Forward
    <3>2. Others \cap {"SSLRequest", "Query", "Parse"} = {}
      BY DEF Others
    <3> QED BY <2>1, <2>2, <3>1, <3>2, PassingKeeps
  <2>7. CASE UNCHANGED <<job, delivered, ring, masked>>
    BY <2>7 DEF Logged, Recent, Counting
  <2> QED
    BY <2>3, <2>4, <2>5, <2>6, <2>7
       DEF Next, Arrive, DenySsl, Reassemble, Reject, Finished, vars
<1> QED BY <1>1, <1>2, Stands, PTL DEF Spec

\* A message put together holds whole packets so far.
LEMMA PendingWhole ==
    ASSUME NEW w, IsJob(w), NEW k, NEW j, Place(w, k, j), PendingAt(w, k, j).some
    PROVE  Len(PendingAt(w, k, j).payload) % Chunk = 0
<1>1. PICK m, payload : m = w.traffic[k + 1] /\ payload = MyPayload(m)
  OBVIOUS
<1>2. w.protocol # "postgres" /\ j # 0
  BY DEF PendingAt, Pending, NoPending
<1>3. PendingAt(w, k, j).payload = SubSeq(payload, 1, j * Chunk)
  BY <1>1, <1>2 DEF PendingAt, Pending
<1>4. k \in 0..(Len(w.traffic) - 1) /\ j \in Nat /\ j < Len(Pieces(w, m))
  BY <1>1, <1>2, TrafficIs DEF Place
<1>5. m.kind \in MyKinds /\ IsMySqlPacket(m)
      /\ (m.kind = "ResultRow" => Cardinality(Described(w, k)) > 0 /\ Len(m.body) = Cardinality(Described(w, k)))
  BY <1>1, <1>2, <1>4, MyPieceRead
<1>6. IsList(payload)
  BY <1>1, <1>5, MyDispatch
<1>7. Full(payload) \in Nat /\ Len(Packets(payload, m.id)) = Full(payload) + 1
  BY <1>6, PacketsAre
<1>8. Pieces(w, m) = Packets(payload, m.id)
  BY <1>1, <1>2 DEF Pieces, MyParts
<1>9. j <= Full(payload)
  BY <1>4, <1>7, <1>8
<1>10. Chunk \in Nat \ {0} /\ Len(payload) \in Nat
  BY <1>6, ListIs, FramesAssumption
<1>11. Full(payload) * Chunk <= Len(payload)
  BY <1>10, DivIs DEF Full
<1>12. j * Chunk \in Nat /\ j * Chunk <= Full(payload) * Chunk
  BY <1>4, <1>7, <1>9, <1>10, TimesIs
<1>13. PICK n, f : n = j * Chunk /\ f = Full(payload) * Chunk
  OBVIOUS
<1>14. f \in Nat
  BY <1>7, <1>10, <1>13, TimesIs
<1>15. n \in Nat /\ 1 <= n + 1 /\ n <= Len(payload) /\ (n - 1) + 1 = n
  BY <1>10, <1>11, <1>12, <1>13, <1>14
<1>16. Len(SubSeq(payload, 1, n)) = (n - 1) + 1
  BY <1>6, <1>15, PartOf
<1>17. n % Chunk = 0
  BY <1>4, <1>10, <1>13, SMTT(30)
<1> QED BY <1>3, <1>13, <1>15, <1>16, <1>17

\* The codecs and the ring keep what they are for: `is_startup` and `pending_large`
\* follow the traffic, the ring never holds more than its capacity, and no more is
\* written than has come.
THEOREM DataPathTyped == Spec => []TypeOK
<1>1. IInv /\ Logged(job, delivered, ring, masked) => TypeOK
  <2> SUFFICES ASSUME IInv, Logged(job, delivered, ring, masked) PROVE TypeOK
    OBVIOUS
  <2>1. IsJob(job)
    BY DEF IInv
  <2>2. PICK k, j : Standing(k, j)
    BY DEF IInv
  <2>3. /\ Place(job, k, j) /\ startup = StartupAt(job, k) /\ pending = PendingAt(job, k, j)
        /\ status \in Statuses /\ Len(delivered) = Passed(job, k)
    BY <2>2 DEF Standing, Reading, Sent, Stopped
  <2>4. startup \in BOOLEAN
    BY <2>3 DEF StartupAt
  <2>5. pending.some => Len(pending.payload) % Chunk = 0
    BY <2>1, <2>3, PendingWhole
  <2>6. Len(ring) <= RingSize /\ masked \in Nat
    <3>1. /\ IsList(ring) /\ masked \in Nat
          /\ Len(ring) = IF Cardinality(Told(job, delivered)) < RingSize
                         THEN Cardinality(Told(job, delivered)) ELSE RingSize
      BY DEF Logged, Recent, Counting
    <3>2. RingSize \in Nat /\ Len(ring) \in Nat
      BY <3>1, ListIs, DataPathAssumption
    <3> QED BY <3>1, <3>2
  <2>7. Len(delivered) <= Len(job.traffic)
    <3>1. k \in 0..Len(job.traffic)
      BY <2>3 DEF Place
    <3>2. /\ Passed(job, k) \in Nat /\ Passed(job, k) <= Len(Traffic) /\ Len(Traffic) \in Nat
          /\ Len(Traffic) <= Len(job.traffic)
      BY <2>1, <3>1, TrafficOf
    <3>3. Len(job.traffic) \in Nat
      BY <2>1, TrafficIs
    <3> QED BY <2>3, <3>2, <3>3
  <2> QED BY <2>3, <2>4, <2>5, <2>6, <2>7 DEF TypeOK
<1> QED BY <1>1, Stands, TellsOfThose, PTL

\* The rows that left other than they came.
LEMMA ChangedRowsAre ==
    ASSUME IsJob(job), NEW k, NEW j, Standing(k, j)
    PROVE  ChangedRows = Changed(job, delivered)
<1>1. ASSUME NEW i \in DOMAIN delivered PROVE Traffic[i] = Came(job, i)
  BY <1>1, DeliveredIs DEF Came
<1> QED BY <1>1 DEF ChangedRows, Rows, Changed

LEMMA KindsGo ==
    ASSUME IsJob(job), NEW k, NEW j, Standing(k, j), NEW i \in DOMAIN delivered
    PROVE  delivered[i].kind \in Kinds(job)
<1>1. PICK n : n = Cardinality(AskedOf(job)) + i
  OBVIOUS
<1>2. n \in 1..Len(job.traffic) /\ delivered[i].kind = job.traffic[n].kind
  BY <1>1, DeliveredIs
<1> QED BY <1>2, TrafficIs

\* AppState.logs tells of the last changes, newest first, and MaskingStats counts
\* them all: what the dashboard shows of a row is what was put in its place.
THEOREM RingTells == Spec => []RingTellsRecent
<1>1. IInv /\ Logged(job, delivered, ring, masked) => RingTellsRecent
  <2> SUFFICES ASSUME IInv, Logged(job, delivered, ring, masked), job.side = "server"
               PROVE  LET n == Cardinality(ChangedRows)
                      IN /\ Len(ring) = IF n < RingSize THEN n ELSE RingSize
                         /\ \A e \in DOMAIN ring :
                               Range(ring[e].shown) \ {Fake("word")}
                                 \subseteq TokensOf(delivered[Newest(e, ChangedRows)])
                         /\ masked >= n
                         /\ n = 0 => masked = 0
    BY DEF RingTellsRecent
  <2>1. IsJob(job)
    BY DEF IInv
  <2>2. PICK k, j : Standing(k, j)
    BY DEF IInv
  <2>3. IsList(delivered)
    BY <2>2 DEF Standing, Sent
  <2>4. ChangedRows = Changed(job, delivered)
    BY <2>1, <2>2, ChangedRowsAre
  <2>5. Stated(delivered) = {}
    <3>1. job.protocol \in {"postgres", "mysql"}
      BY <2>1 DEF IsJob
    <3>2. ASSUME NEW i \in DOMAIN delivered PROVE delivered[i].kind \notin {"Query", "Parse"}
      BY <2>1, <2>2, <3>1, KindsGo DEF Kinds
    <3> QED BY <3>2 DEF Stated
  <2>6. PICK n, places : n = Len(delivered) /\ places = ChangedRows
    OBVIOUS
  <2>7. Told(job, delivered) = places
    BY <2>4, <2>5, <2>6 DEF Told
  <2>8. n \in Nat /\ places \in SUBSET (1..n)
    BY <2>3, <2>6, <2>7, ToldIn, ListIs
  <2>9. IsFiniteSet(places) /\ Cardinality(places) \in Nat
    BY <2>8, RankMore
  <2>10. /\ IsList(ring)
         /\ Len(ring) = IF Cardinality(places) < RingSize THEN Cardinality(places) ELSE RingSize
         /\ \A e \in 1..Len(ring) : \E i \in places :
               Rank(places, i) = e /\ Tell(job, ring[e], delivered[i])
         /\ masked \in Nat /\ masked >= Cardinality(places) /\ (places = {} => masked = 0)
    BY <2>4, <2>6, <2>7 DEF Logged, Recent, Counting
  <2>11. ASSUME NEW e \in DOMAIN ring
         PROVE  Range(ring[e].shown) \ {Fake("word")} \subseteq TokensOf(delivered[Newest(e, places)])
    <3>1. e \in 1..Len(ring)
      BY <2>10, ListIs
    <3>2. PICK i \in places : Rank(places, i) = e /\ Tell(job, ring[e], delivered[i])
      BY <2>10, <3>1
    <3>3. Newest(e, places) = i
      BY <2>8, <3>2, RankOnce
    <3>4. IsRow(delivered[i])
      BY <2>4, <2>6 DEF Changed
    <3> QED BY <3>2, <3>3, <3>4 DEF Tell
  <2>12. Cardinality(places) = 0 => masked = 0
    BY <2>9, <2>10, FS_EmptySet
  <2> QED BY <2>6, <2>10, <2>11, <2>12
<1> QED BY <1>1, Stands, TellsOfThose, PTL

-----------------------------------------------------------------------------
(* Which rule a column is under *)

LEMMA FirstOfMatching ==
    ASSUME NEW rules, IsList(rules), NEW matching \in SUBSET DOMAIN rules, matching # {}
    PROVE  Min(matching) \in DOMAIN rules
<1>1. matching \in SUBSET Nat
  <2>1. DOMAIN rules = 1..Len(rules)
    BY ListIs
  <2> QED BY <2>1
<1>2. \E x \in matching : \A y \in matching : x <= y
  BY <1>1, LeastMember
<1>3. Min(matching) \in matching
  BY <1>2 DEF Min
<1> QED BY <1>3

PgMatches(rule, field, catalog) ==
    /\ \/ rule.table = AnyTable
       \/ /\ field.oid \in DOMAIN catalog.tables
          /\ rule.table \in catalog.tables[field.oid]
    /\ rule.column \in {field.name} \cup ({Origin(field, catalog)} \ {NoName})
MySqlMatches(rule, column) ==
    /\ rule.table \in {AnyTable, column.table} \cup ({column.originTable} \ {NoName})
    /\ rule.column \in {column.name} \cup ({column.origin} \ {NoName})

\* A column that some rule matches is under a rule.
LEMMA PgTargetIs ==
    ASSUME NEW rules, IsList(rules), NEW field, NEW catalog,
           NEW r \in DOMAIN rules, PgMatches(rules[r], field, catalog)
    PROVE  \E q \in DOMAIN rules : PgTarget(field, rules, catalog) = rules[q].strategy
<1>1. PICK matching : matching = {i \in DOMAIN rules : PgMatches(rules[i], field, catalog)}
  OBVIOUS
<1>2. matching \in SUBSET DOMAIN rules /\ matching # {}
  BY <1>1
<1>3. Min(matching) \in DOMAIN rules
  BY <1>2, FirstOfMatching
<1>4. PgTarget(field, rules, catalog) = IF matching = {} THEN NoRule ELSE rules[Min(matching)].strategy
  BY <1>1 DEF PgTarget, FirstMatch, PgMatches
<1> QED BY <1>2, <1>3, <1>4

LEMMA MySqlTargetIs ==
    ASSUME NEW rules, IsList(rules), NEW column,
           NEW r \in DOMAIN rules, MySqlMatches(rules[r], column)
    PROVE  \E q \in DOMAIN rules : MySqlTarget(column, rules) = rules[q].strategy
<1>1. PICK matching : matching = {i \in DOMAIN rules : MySqlMatches(rules[i], column)}
  OBVIOUS
<1>2. matching \in SUBSET DOMAIN rules /\ matching # {}
  BY <1>1
<1>3. Min(matching) \in DOMAIN rules
  BY <1>2, FirstOfMatching
<1>4. MySqlTarget(column, rules) = IF matching = {} THEN NoRule ELSE rules[Min(matching)].strategy
  BY <1>1 DEF MySqlTarget, FirstMatch, MySqlMatches
<1> QED BY <1>2, <1>3, <1>4

\* By the time a row goes on, each column a rule names is under one.
LEMMA NamedIsTargeted ==
    ASSUME IsJob(job), CatalogKnown(job), NEW k \in 0..Len(job.traffic), NEW tg, Aiming(job, k, tg),
           NEW n \in 1..k, IsRow(job.traffic[n]), NEW c \in 1..Len(job.traffic[n].body), Named(c)
    PROVE  /\ c \in DOMAIN tg
           /\ \E q \in DOMAIN job.policy.rules : tg[c] = job.policy.rules[q].strategy
<1>1. PICK rules, origin : rules = job.policy.rules /\ origin = job.origins[c]
  OBVIOUS
<1>2. IsList(rules) /\ Len(job.traffic) \in Nat /\ n \in 1..Len(job.traffic) /\ k \in Nat
      /\ DOMAIN job.traffic = 1..Len(job.traffic)
  BY <1>1, TrafficIs DEF IsJob
<1>3. /\ job.protocol \in {"postgres", "mysql"} /\ job.side \in {"client", "server"}
      /\ Provenance(job)
  BY DEF IsJob
<1>4. job.traffic[n].kind \in Kinds(job) /\ InOrder(job, n) /\ job.traffic[n].kind \in {"DataRow", "ResultRow"}
  BY <1>2, TrafficIs DEF IsRow
<1>5. PICK r \in DOMAIN rules : Names(rules[r], origin)
  BY <1>1 DEF Named
<1>6. origin # NoName /\ rules[r].table \in {AnyTable, origin[1]} /\ rules[r].column = origin[2]
  BY <1>5 DEF Names
<1>7. CASE job.protocol = "postgres"
  <2>1. job.traffic[n].kind = "DataRow"
    BY <1>3, <1>4, <1>7 DEF Kinds
  <2>2. /\ Len(job.traffic[n].body) = Len(job.origins)
        /\ \E i \in 1..(n - 1) : job.traffic[i].kind = "RowDescription"
    BY <1>4, <2>1 DEF InOrder
  <2>3. \E i \in 1..k : job.traffic[i].kind = "RowDescription"
    BY <1>2, <2>2
  <2>4. PICK i \in 1..k : /\ job.traffic[i].kind = "RowDescription"
                          /\ tg = PgTargets(job, job.traffic[i].body)
    BY <1>7, <2>3 DEF Aiming
  <2>5. i \in 1..Len(job.traffic)
    BY <1>2
  <2>6. InOrder(job, i) /\ IsPgMessage(job.traffic[i])
    BY <1>7, <2>5, TrafficIs
  <2>7. Len(job.traffic[i].body) = Len(job.origins) /\ IsList(job.traffic[i].body)
    BY <2>4, <2>6 DEF InOrder, IsPgMessage
  <2>8. c \in DOMAIN job.traffic[i].body
    BY <2>2, <2>7, ListIs
  <2>9. PICK field : field = job.traffic[i].body[c]
    OBVIOUS
  <2>10. FieldOfOrigin(field, origin, job.catalog)
    BY <1>1, <1>2, <1>3, <2>4, <2>5, <2>8, <2>9 DEF Provenance
  <2>11. PgMatches(rules[r], field, job.catalog)
    BY <1>6, <2>10 DEF FieldOfOrigin, PgMatches, Origin
  <2>12. \E q \in DOMAIN rules : PgTarget(field, rules, job.catalog) = rules[q].strategy
    BY <1>2, <2>11, PgTargetIs
  <2>13. c \in DOMAIN tg /\ tg[c] = PgTarget(field, rules, job.catalog)
    BY <1>1, <2>4, <2>8, <2>9 DEF PgTargets
  <2> QED BY <1>1, <2>12, <2>13
<1>8. CASE job.protocol # "postgres"
  <2>1. job.traffic[n].kind = "ResultRow"
    BY <1>3, <1>4, <1>8 DEF Kinds
  <2>2. /\ Len(job.traffic[n].body) = Len(job.origins)
        /\ Cardinality(Described(job, n)) = Len(job.origins)
    BY <1>4, <2>1 DEF InOrder
  <2>3. /\ IsList(tg) /\ Len(tg) = Cardinality(Described(job, k))
        /\ \A d \in 1..Len(tg) : \E i \in Described(job, k) :
              /\ Cardinality(Described(job, i)) = d
              /\ tg[d] = MySqlTarget(job.traffic[i].body, rules)
    BY <1>1, <1>8 DEF Aiming
  <2>4. Cardinality(Described(job, n)) <= Cardinality(Described(job, k))
    <3>1. Described(job, n) \subseteq Described(job, k)
      BY <1>2 DEF Described
    <3>2. IsFiniteSet(Described(job, k))
      BY DescribedIs
    <3> QED BY <3>1, <3>2, FS_Subset
  <2>5. c \in 1..Len(tg) /\ c \in DOMAIN tg
    <3>1. Cardinality(Described(job, k)) \in Nat
      BY DescribedIs
    <3>2. c \in 1..Cardinality(Described(job, n))
      BY <2>2
    <3>3. PICK a, b : a = Cardinality(Described(job, n)) /\ b = Cardinality(Described(job, k))
      OBVIOUS
    <3>4. b \in Nat /\ c \in 1..a /\ a <= b /\ Len(tg) = b
      BY <2>3, <2>4, <3>1, <3>2, <3>3
    <3>5. a \in Nat
      <4>1. n \in 0..Len(job.traffic)
        BY <1>2
      <4> QED BY <3>3, <4>1, DescribedIs
    <3>6. c \in 1..Len(tg)
      BY ONLY <3>4, <3>5
    <3> QED BY <2>3, <3>6, ListIs
  <2>6. PICK i \in Described(job, k) : /\ Cardinality(Described(job, i)) = c
                                       /\ tg[c] = MySqlTarget(job.traffic[i].body, rules)
    BY <2>3, <2>5
  <2>7. i \in DOMAIN job.traffic /\ job.traffic[i].kind = "Column"
    BY <1>2 DEF Described
  <2>8. PICK column : column = job.traffic[i].body
    OBVIOUS
  <2>9. OfOrigin(column, origin)
    BY <1>1, <1>3, <2>6, <2>7, <2>8 DEF Provenance
  <2>10. MySqlMatches(rules[r], column)
    BY <1>6, <2>9 DEF OfOrigin, MySqlMatches
  <2>11. \E q \in DOMAIN rules : MySqlTarget(column, rules) = rules[q].strategy
    BY <1>2, <2>10, MySqlTargetIs
  <2> QED BY <1>1, <2>5, <2>6, <2>8, <2>11
<1> QED BY <1>7, <1>8

\* Every row that has gone on is as MaskRow has it.
LEMMA RowsGo ==
    ASSUME IsJob(job), NEW k, NEW j, Standing(k, j), NEW r \in Rows
    PROVE  LET n == Cardinality(AskedOf(job)) + r
               came == job.traffic[n].body
               row == MaskRow(came, targets, job.policy)
           IN /\ n \in 1..k /\ n \in 1..Len(job.traffic) /\ IsRow(job.traffic[n])
              /\ Traffic[r] = job.traffic[n] /\ delivered[r].body = row.values
              /\ DOMAIN row.values = 1..Len(came) /\ Hides(row, came, targets, job.policy)
<1>1. PICK n, came, row : /\ n = Cardinality(AskedOf(job)) + r /\ came = job.traffic[n].body
                          /\ row = MaskRow(came, targets, job.policy)
  OBVIOUS
<1>2. r \in DOMAIN delivered /\ IsRow(delivered[r])
  BY DEF Rows
<1>3. /\ n \in 1..k /\ n \in 1..Len(job.traffic) /\ Traffic[r] = job.traffic[n]
      /\ delivered[r] = Made(job, targets, job.traffic[n]) /\ delivered[r].kind = job.traffic[n].kind
  BY <1>1, <1>2, DeliveredIs
<1>4. IsRow(job.traffic[n])
  BY <1>2, <1>3 DEF IsRow
<1>5. delivered[r].body = row.values
  <2>1. Made(job, targets, job.traffic[n]).body = MaskRow(job.traffic[n].body, targets, job.policy).values
    BY <1>3, <1>4, MadeRow
  <2> QED BY <1>1, <1>3, <2>1
<1>6. /\ job.policy.heuristics.types \subseteq PiiTypes
      /\ IsList(came) /\ \A c \in 1..Len(came) : IsCell(came[c])
  BY <1>1, <1>3, <1>4, RowIs
<1>7. IsList(row.values) /\ Len(row.values) = Len(came) /\ Hides(row, came, targets, job.policy)
  BY <1>1, <1>6, RowMasked
<1>8. DOMAIN row.values = 1..Len(came)
  BY <1>7, ListIs
<1> QED BY <1>1, <1>3, <1>4, <1>5, <1>7, <1>8

\* "True provenance when the bootstrap resolved it; aliases can't hide a protected
\* source column from a rule then" (on_row_description, on_column_definition): no
\* own token of a value leaves from a column a rule names; a document under a json
\* rule keeps no string that is detected.
THEOREM SensitiveStays == Spec => []SensitiveHidden
<1>1. IInv => SensitiveHidden
  <2> SUFFICES ASSUME IInv, job.policy.enabled, CatalogKnown(job), NEW r \in Rows,
                      NEW c \in DOMAIN delivered[r].body, Named(c)
               PROVE  LET cell == delivered[r].body[c]
                      IN \/ Own(cell) = {}
                         \/ /\ UnderJson /\ IsJson(cell)
                            /\ JsonHidden(cell, job.policy.heuristics.types)
    BY DEF SensitiveHidden
  <2>1. IsJob(job)
    BY DEF IInv
  <2>2. PICK k, j : Standing(k, j)
    BY DEF IInv
  <2>3. PICK n, came, row : /\ n = Cardinality(AskedOf(job)) + r /\ came = job.traffic[n].body
                            /\ row = MaskRow(came, targets, job.policy)
    OBVIOUS
  <2>4. /\ n \in 1..k /\ IsRow(job.traffic[n]) /\ delivered[r].body = row.values
        /\ DOMAIN row.values = 1..Len(came) /\ Hides(row, came, targets, job.policy)
    BY <2>1, <2>2, <2>3, RowsGo
  <2>5. c \in 1..Len(came)
    BY <2>4
  <2>6. k \in 0..Len(job.traffic) /\ Aiming(job, k, targets)
    BY <2>2 DEF Standing, Reading, Place
  <2>7. /\ c \in DOMAIN targets
        /\ \E q \in DOMAIN job.policy.rules : targets[c] = job.policy.rules[q].strategy
    BY <2>1, <2>3, <2>4, <2>5, <2>6, NamedIsTargeted
  <2>8. targets[c] # NoRule /\ Strategy(targets, c) = targets[c]
    BY <2>1, <2>7 DEF IsJob, Strategy
  <2>9. HiddenBy(delivered[r].body[c], targets[c], job.policy.heuristics.types)
    BY <2>4, <2>5, <2>8 DEF Hides
  <2>10. targets[c] = "json" => UnderJson
    BY <2>7 DEF UnderJson
  <2> QED BY <2>9, <2>10 DEF HiddenBy
<1> QED BY <1>1, Stands, PTL

\* mask_text_spans and its callers: under the heuristics no address leaves a column
\* without a rule, nor a number but the second of two with one character between
\* them; and what is no personal data leaves as it came, but for what serde_json drops
\* or rounds in a document of which a string is replaced.  Not looked into are keys,
\* numbers and shadowed members, and the elements of an array beside one replaced.
THEOREM DetectedStays == Spec => []DetectedHidden
<1>1. IInv => DetectedHidden
  <2> SUFFICES ASSUME IInv, job.policy.enabled, job.policy.heuristics.enabled, NEW r \in Rows,
                      NEW c \in DOMAIN delivered[r].body, targets[c] = NoRule
               PROVE  LET types == job.policy.heuristics.types
                          cell  == delivered[r].body[c]
                          came  == Traffic[r].body[c]
                      IN CellHidden(cell, came, types) /\ ElseAsItCame(cell, came, types)
    BY DEF DetectedHidden
  <2>1. IsJob(job)
    BY DEF IInv
  <2>2. PICK k, j : Standing(k, j)
    BY DEF IInv
  <2>3. PICK n, came, row : /\ n = Cardinality(AskedOf(job)) + r /\ came = job.traffic[n].body
                            /\ row = MaskRow(came, targets, job.policy)
    OBVIOUS
  <2>4. /\ Traffic[r] = job.traffic[n] /\ delivered[r].body = row.values
        /\ DOMAIN row.values = 1..Len(came) /\ Hides(row, came, targets, job.policy)
    BY <2>1, <2>2, <2>3, RowsGo
  <2>5. c \in 1..Len(came) /\ Traffic[r].body = came
    BY <2>3, <2>4
  <2>6. Strategy(targets, c) = NoRule
    BY DEF Strategy
  <2> QED BY <2>4, <2>5, <2>6 DEF Hides
<1> QED BY <1>1, Stands, PTL
-----------------------------------------------------------------------------
(* What a statement leaves in the ring: redact_sql_literals against a lexer *)

ScanAt(sql, both, i, at) ==
    IF i = 1 THEN Outside
    ELSE LET c == sql[i - 1]
             before == at[i - 1]
         IN CASE before = Outside ->
                   IF c \in Quotes(both) THEN Inside(c, FALSE) ELSE Outside
              [] before.skip -> Inside(before.quote, FALSE)
              [] before # Outside /\ ~before.skip /\ c = Escape -> Inside(before.quote, TRUE)
              [] before # Outside /\ ~before.skip /\ c = before.quote ->
                   IF Doubled(sql, i - 1) THEN Inside(c, TRUE) ELSE Outside
              [] OTHER -> before
ScanStates == {Outside, Inside(Quote, FALSE), Inside(Quote, TRUE), Inside(Double, FALSE), Inside(Double, TRUE)}

LexNext(mysql, c, before) ==
    CASE before = Outside ->
           IF c \in Literal(mysql) \cup Hiding(mysql) THEN Inside(c, FALSE) ELSE Outside
      [] before.skip -> Inside(before.quote, FALSE)
      [] before # Outside /\ ~before.skip /\ c = Closer(before.quote) -> Outside
      [] before # Outside /\ ~before.skip /\ c = Escape
            /\ mysql /\ before.quote \in Literal(mysql) -> Inside(before.quote, TRUE)
      [] OTHER -> before
LexAt(sql, mysql, i, at) ==
    IF i = 1 THEN Outside ELSE LexNext(mysql, sql[i - 1], at[i - 1])
Openers   == {Quote, Double, Back, Dollar, Note}
LexStates == {Outside} \cup {Inside(q, s) : q \in Openers, s \in BOOLEAN}

LEMMA ScanAtIs ==
    ASSUME NEW sql, NEW both \in BOOLEAN, NEW i \in Nat, NEW at, i # 1 => at[i - 1] \in ScanStates
    PROVE  ScanAt(sql, both, i, at) \in ScanStates
<1>1. CASE i = 1
  BY <1>1 DEF ScanAt, ScanStates
<1>2. CASE i # 1
  <2>1. PICK before, c : before = at[i - 1] /\ c = sql[i - 1]
    OBVIOUS
  <2>2. before = Outside \/ \E q \in {Quote, Double}, s \in BOOLEAN : before = Inside(q, s)
    BY <1>2, <2>1 DEF ScanStates
  <2>3. CASE before = Outside
    <3>1. ScanAt(sql, both, i, at) = IF c \in Quotes(both) THEN Inside(c, FALSE) ELSE Outside
      BY <1>2, <2>1, <2>3 DEF ScanAt, Outside
    <3>2. c \in Quotes(both) => c \in {Quote, Double}
      BY DEF Quotes
    <3> QED BY <3>1, <3>2 DEF ScanStates
  <2>4. ASSUME NEW q \in {Quote, Double}, NEW s \in BOOLEAN, before = Inside(q, s)
        PROVE  ScanAt(sql, both, i, at) \in ScanStates
    <3>1. before # Outside /\ before.skip = s /\ before.quote = q
      BY <2>4 DEF Inside, Outside, Quote, Double
    <3>2. ScanAt(sql, both, i, at) \in {Outside, Inside(q, FALSE), Inside(q, TRUE), before}
      BY <1>2, <2>1, <3>1 DEF ScanAt
    <3> QED BY <2>4, <3>2 DEF ScanStates
  <2> QED BY <2>2, <2>3, <2>4
<1> QED BY <1>1, <1>2

\* redact_sql_literals looks at every character.
LEMMA ScanSteps ==
    ASSUME NEW sql, Len(sql) \in Nat, NEW both \in BOOLEAN
    PROVE  /\ \A i \in 1..(Len(sql) + 1) :
                 Scan(sql, both)[i] = ScanAt(sql, both, i, Scan(sql, both))
<1> DEFINE D == 1..(Len(sql) + 1)
           step == [p \in D \X [D -> ScanStates] |-> ScanAt(sql, both, p[1], p[2])]
           rank == [i \in D |-> i]
           Recursion(f) == f = [i \in D |-> ScanAt(sql, both, i, f)]
<1>1. ScanStates # {}
  BY DEF ScanStates
<1>2. step \in [D \X [D -> ScanStates] -> ScanStates]
  <2> SUFFICES ASSUME NEW i \in D, NEW f \in [D -> ScanStates] PROVE ScanAt(sql, both, i, f) \in ScanStates
    OBVIOUS
  <2>1. i \in Nat /\ (i # 1 => i - 1 \in D)
    OBVIOUS
  <2>2. i # 1 => f[i - 1] \in ScanStates
    BY <2>1
  <2> QED BY <2>1, <2>2, ScanAtIs
<1>3. rank \in [D -> Nat] /\ Len(sql) + 2 \in Nat /\ \A i \in D : rank[i] < Len(sql) + 2
  OBVIOUS
<1>4. ASSUME NEW i \in D, NEW f \in [D -> ScanStates], NEW g \in [D -> ScanStates],
             \A k \in D : rank[k] < rank[i] => f[k] = g[k]
      PROVE  step[<<i, f>>] = step[<<i, g>>]
  <2>1. i # 1 => f[i - 1] = g[i - 1]
    BY <1>4
  <2>2. ScanAt(sql, both, i, f) = ScanAt(sql, both, i, g)
    <3>1. CASE i = 1
      BY <3>1 DEF ScanAt
    <3>2. CASE i # 1
      <4>1. PICK before : before = f[i - 1] /\ before = g[i - 1]
        BY <2>1, <3>2
      <4> QED BY <3>2, <4>1 DEF ScanAt
    <3> QED BY <3>1, <3>2
  <2> QED BY <2>2
<1>5. PICK f \in [D -> ScanStates] : \A i \in D : f[i] = step[<<i, f>>]
  <2>1. PICK bound \in Nat : \A i \in D : rank[i] < bound
    BY <1>3
  <2> HIDE DEF D, step, rank
  <2>2. \A i \in D : \A f, g \in [D -> ScanStates] :
           (\A k \in D : rank[k] < rank[i] => f[k] = g[k]) => step[<<i, f>>] = step[<<i, g>>]
    BY <1>4
  <2>3. rank \in [D -> Nat]
    BY <1>3
  <2>4. Descends(D, ScanStates, step, rank, bound)
    BY ONLY <1>1, <1>2, <2>1, <2>2, <2>3 DEF Descends
  <2>5. \E f \in [D -> ScanStates] : Recurses(D, step, f)
    BY <2>4, RecursionDefined
  <2> QED BY <2>5 DEF Recurses
<1>6. Recursion(f)
  <2>1. \A i \in D : f[i] = ScanAt(sql, both, i, f)
    BY <1>5
  <2> QED BY <2>1
<1>7. Scan(sql, both) = CHOOSE at : Recursion(at)
  BY DEF Scan, ScanAt
<1> HIDE DEF Recursion
<1>8. Recursion(Scan(sql, both))
  BY <1>6, <1>7
<1> QED BY <1>8 DEF Recursion

LEMMA InsideIs ==
    ASSUME NEW q \in Openers, NEW s \in BOOLEAN
    PROVE  /\ Inside(q, s).skip = s /\ Inside(q, s).quote = q /\ Inside(q, s) # Outside
           /\ q # Escape /\ q # Outside.quote
BY DEF Inside, Outside, Openers, Quote, Double, Back, Dollar, Note, Escape

LEMMA LexNextIs ==
    ASSUME NEW mysql \in BOOLEAN, NEW c, NEW before \in LexStates
    PROVE  LexNext(mysql, c, before) \in LexStates
<1>1. CASE before = Outside
  <2>0. ~before.skip
    BY <1>1 DEF Outside
  <2>1. LexNext(mysql, c, before)
          = IF c \in Literal(mysql) \cup Hiding(mysql) THEN Inside(c, FALSE) ELSE Outside
    BY <1>1, <2>0 DEF LexNext
  <2>2. CASE c \in Literal(mysql) \cup Hiding(mysql)
    <3>1. c \in Openers
      BY <2>2 DEF Literal, Hiding, Openers
    <3>2. LexNext(mysql, c, before) = Inside(c, FALSE)
      BY <2>1, <2>2
    <3>3. \A t \in BOOLEAN : Inside(c, t) \in LexStates
      BY <3>1 DEF LexStates
    <3> QED BY <3>2, <3>3
  <2>3. CASE c \notin Literal(mysql) \cup Hiding(mysql)
    BY <2>1, <2>3 DEF LexStates
  <2> QED BY <2>2, <2>3
<1>2. ASSUME NEW q \in Openers, NEW s \in BOOLEAN, before = Inside(q, s)
      PROVE  LexNext(mysql, c, before) \in LexStates
  <2>1. before # Outside /\ before.skip = s /\ before.quote = q
    BY <1>2, InsideIs
  <2>2. LexNext(mysql, c, before) \in {Outside, Inside(q, FALSE), Inside(q, TRUE), before}
    BY <2>1 DEF LexNext
  <2>3. \A t \in BOOLEAN : Inside(q, t) \in LexStates
    BY <1>2 DEF LexStates
  <2>4. Outside \in LexStates
    BY DEF LexStates
  <2> QED BY <2>2, <2>3, <2>4
<1> QED BY <1>1, <1>2 DEF LexStates

LEMMA LexAtIs ==
    ASSUME NEW sql, NEW mysql \in BOOLEAN, NEW i \in Nat, NEW at, i # 1 => at[i - 1] \in LexStates
    PROVE  LexAt(sql, mysql, i, at) \in LexStates
<1>1. CASE i = 1
  BY <1>1 DEF LexAt, LexStates
<1>2. CASE i # 1
  BY <1>2, LexNextIs DEF LexAt
<1> QED BY <1>1, <1>2

\* So does a server's lexer.
LEMMA LexSteps ==
    ASSUME NEW sql, Len(sql) \in Nat, NEW mysql \in BOOLEAN
    PROVE  /\ \A i \in 1..(Len(sql) + 1) :
                 Lex(sql, mysql)[i] = LexAt(sql, mysql, i, Lex(sql, mysql))
<1> DEFINE D == 1..(Len(sql) + 1)
           step == [p \in D \X [D -> LexStates] |-> LexAt(sql, mysql, p[1], p[2])]
           rank == [i \in D |-> i]
           Recursion(f) == f = [i \in D |-> LexAt(sql, mysql, i, f)]
<1>1. LexStates # {}
  BY DEF LexStates
<1>2. step \in [D \X [D -> LexStates] -> LexStates]
  <2> SUFFICES ASSUME NEW i \in D, NEW f \in [D -> LexStates] PROVE LexAt(sql, mysql, i, f) \in LexStates
    OBVIOUS
  <2>1. i \in Nat /\ (i # 1 => i - 1 \in D)
    OBVIOUS
  <2>2. i # 1 => f[i - 1] \in LexStates
    BY <2>1
  <2> QED BY <2>1, <2>2, LexAtIs
<1>3. rank \in [D -> Nat] /\ Len(sql) + 2 \in Nat /\ \A i \in D : rank[i] < Len(sql) + 2
  OBVIOUS
<1>4. ASSUME NEW i \in D, NEW f \in [D -> LexStates], NEW g \in [D -> LexStates],
             \A k \in D : rank[k] < rank[i] => f[k] = g[k]
      PROVE  step[<<i, f>>] = step[<<i, g>>]
  <2>1. i # 1 => f[i - 1] = g[i - 1]
    BY <1>4
  <2>2. LexAt(sql, mysql, i, f) = LexAt(sql, mysql, i, g)
    <3>1. CASE i = 1
      BY <3>1 DEF LexAt
    <3>2. CASE i # 1
      <4>1. PICK before : before = f[i - 1] /\ before = g[i - 1]
        BY <2>1, <3>2
      <4> QED BY <3>2, <4>1 DEF LexAt
    <3> QED BY <3>1, <3>2
  <2> QED BY <2>2
<1>5. PICK f \in [D -> LexStates] : \A i \in D : f[i] = step[<<i, f>>]
  <2>1. PICK bound \in Nat : \A i \in D : rank[i] < bound
    BY <1>3
  <2> HIDE DEF D, step, rank
  <2>2. \A i \in D : \A f, g \in [D -> LexStates] :
           (\A k \in D : rank[k] < rank[i] => f[k] = g[k]) => step[<<i, f>>] = step[<<i, g>>]
    BY <1>4
  <2>3. rank \in [D -> Nat]
    BY <1>3
  <2>4. Descends(D, LexStates, step, rank, bound)
    BY ONLY <1>1, <1>2, <2>1, <2>2, <2>3 DEF Descends
  <2>5. \E f \in [D -> LexStates] : Recurses(D, step, f)
    BY <2>4, RecursionDefined
  <2> QED BY <2>5 DEF Recurses
<1>6. Recursion(f)
  <2>1. \A i \in D : f[i] = LexAt(sql, mysql, i, f)
    BY <1>5
  <2> QED BY <2>1
<1>7. Lex(sql, mysql) = CHOOSE at : Recursion(at)
  BY DEF Lex, LexAt, LexNext
<1> HIDE DEF Recursion
<1>8. Recursion(Lex(sql, mysql))
  BY <1>6, <1>7
<1> QED BY <1>8 DEF Recursion

\* What the scanner makes of a character, outside a literal and inside one.
FromOutside(sql, both, at, i) ==
    at[i] = Outside =>
        at[i + 1] = IF sql[i] \in Quotes(both) THEN Inside(sql[i], FALSE) ELSE Outside
FromInside(sql, at, i, q) ==
    /\ at[i] = Inside(q, TRUE) => at[i + 1] = Inside(q, FALSE)
    /\ at[i] = Inside(q, FALSE) =>
          /\ sql[i] = Escape => at[i + 1] = Inside(q, TRUE)
          /\ sql[i] = q /\ Doubled(sql, i) => at[i + 1] = Inside(q, TRUE)
          /\ sql[i] = q /\ ~Doubled(sql, i) => at[i + 1] = Outside
          /\ sql[i] \notin {q, Escape} => at[i + 1] = Inside(q, FALSE)

LEMMA ScanGoesOn ==
    ASSUME NEW sql, Len(sql) \in Nat, NEW both \in BOOLEAN, NEW i \in 1..Len(sql)
    PROVE  /\ FromOutside(sql, both, Scan(sql, both), i)
           /\ \A q \in {Quote, Double} : FromInside(sql, Scan(sql, both), i, q)
<1>0. PICK at : at = Scan(sql, both)
  OBVIOUS
<1>1. i + 1 \in 1..(Len(sql) + 1) /\ (i + 1) - 1 = i /\ i + 1 # 1
  OBVIOUS
<1>2. at[i + 1] = ScanAt(sql, both, i + 1, at)
  BY <1>0, <1>1, ScanSteps
<1>3. PICK c, before : c = sql[i] /\ before = at[i]
  OBVIOUS
<1>4. at[i + 1] =
          CASE before = Outside -> IF c \in Quotes(both) THEN Inside(c, FALSE) ELSE Outside
            [] before.skip -> Inside(before.quote, FALSE)
            [] before # Outside /\ ~before.skip /\ c = Escape -> Inside(before.quote, TRUE)
            [] before # Outside /\ ~before.skip /\ c = before.quote ->
                 IF Doubled(sql, i) THEN Inside(c, TRUE) ELSE Outside
            [] OTHER -> before
  BY <1>1, <1>2, <1>3 DEF ScanAt
<1>5. ~Outside.skip
  BY DEF Outside
<1>6. before = Outside => at[i + 1] = IF c \in Quotes(both) THEN Inside(c, FALSE) ELSE Outside
  BY <1>4, <1>5
<1>7. ASSUME NEW q \in {Quote, Double}, NEW s \in BOOLEAN
      PROVE  Inside(q, s).skip = s /\ Inside(q, s).quote = q /\ Inside(q, s) # Outside /\ q # Escape
  BY DEF Inside, Outside, Quote, Double, Escape
<1>8. ASSUME NEW q \in {Quote, Double}, before = Inside(q, TRUE) PROVE at[i + 1] = Inside(q, FALSE)
  <2>1. before.skip /\ before.quote = q /\ before # Outside
    BY <1>7, <1>8
  <2> QED BY <1>4, <2>1
<1>9. ASSUME NEW q \in {Quote, Double}, before = Inside(q, FALSE)
      PROVE  /\ c = Escape => at[i + 1] = Inside(q, TRUE)
             /\ c = q /\ Doubled(sql, i) => at[i + 1] = Inside(q, TRUE)
             /\ c = q /\ ~Doubled(sql, i) => at[i + 1] = Outside
             /\ c \notin {q, Escape} => at[i + 1] = Inside(q, FALSE)
  <2>1. ~before.skip /\ before.quote = q /\ before # Outside /\ q # Escape
    BY <1>7, <1>9
  <2>2. c = Escape => at[i + 1] = Inside(q, TRUE)
    BY <1>4, <2>1
  <2>3. c = q => at[i + 1] = IF Doubled(sql, i) THEN Inside(q, TRUE) ELSE Outside
    BY <1>4, <2>1
  <2>4. c \notin {q, Escape} => at[i + 1] = before
    BY <1>4, <2>1
  <2> QED BY <1>9, <2>2, <2>3, <2>4
<1>10. FromOutside(sql, both, at, i)
  BY <1>3, <1>6 DEF FromOutside
<1>11. \A q \in {Quote, Double} : FromInside(sql, at, i, q)
  BY <1>3, <1>8, <1>9 DEF FromInside
<1> QED BY <1>0, <1>10, <1>11


\* What the lexer makes of one.
LexFromOutside(sql, mysql, at, i) ==
    at[i] = Outside =>
        at[i + 1] = IF sql[i] \in Literal(mysql) \cup Hiding(mysql) THEN Inside(sql[i], FALSE) ELSE Outside
LexFromInside(sql, mysql, at, i, q) ==
    /\ at[i] = Inside(q, TRUE) => at[i + 1] = Inside(q, FALSE)
    /\ at[i] = Inside(q, FALSE) =>
          /\ sql[i] = Closer(q) => at[i + 1] = Outside
          /\ sql[i] # Closer(q) /\ sql[i] = Escape /\ mysql /\ q \in Literal(mysql) =>
                at[i + 1] = Inside(q, TRUE)
          /\ sql[i] # Closer(q) /\ ~(sql[i] = Escape /\ mysql /\ q \in Literal(mysql)) =>
                at[i + 1] = Inside(q, FALSE)

LEMMA LexGoesOn ==
    ASSUME NEW sql, Len(sql) \in Nat, NEW mysql \in BOOLEAN, NEW i \in 1..Len(sql)
    PROVE  /\ LexFromOutside(sql, mysql, Lex(sql, mysql), i)
           /\ \A q \in Openers : LexFromInside(sql, mysql, Lex(sql, mysql), i, q)
<1>0. PICK at : at = Lex(sql, mysql)
  OBVIOUS
<1>1. i + 1 \in 1..(Len(sql) + 1) /\ (i + 1) - 1 = i /\ i + 1 # 1
  OBVIOUS
<1>2. at[i + 1] = LexAt(sql, mysql, i + 1, at)
  BY <1>0, <1>1, LexSteps
<1>3. PICK c, before : c = sql[i] /\ before = at[i]
  OBVIOUS
<1>4. at[i + 1] = LexNext(mysql, c, before)
  BY <1>1, <1>2, <1>3 DEF LexAt
<1>5. ~Outside.skip
  BY DEF Outside
<1>6. before = Outside =>
         at[i + 1] = IF c \in Literal(mysql) \cup Hiding(mysql) THEN Inside(c, FALSE) ELSE Outside
  BY <1>4, <1>5 DEF LexNext
<1>7. ASSUME NEW q \in Openers, before = Inside(q, TRUE) PROVE at[i + 1] = Inside(q, FALSE)
  <2>1. before.skip /\ before.quote = q /\ before # Outside
    BY <1>7, InsideIs
  <2> QED BY <1>4, <2>1 DEF LexNext
<1>8. ASSUME NEW q \in Openers, before = Inside(q, FALSE)
      PROVE  /\ c = Closer(q) => at[i + 1] = Outside
             /\ c # Closer(q) /\ c = Escape /\ mysql /\ q \in Literal(mysql) => at[i + 1] = Inside(q, TRUE)
             /\ c # Closer(q) /\ ~(c = Escape /\ mysql /\ q \in Literal(mysql)) =>
                   at[i + 1] = Inside(q, FALSE)
  <2>1. ~before.skip /\ before.quote = q /\ before # Outside
    BY <1>8, InsideIs
  <2>2. q # Escape /\ Closer(q) # Escape
    BY InsideIs DEF Closer, Break, Escape
  <2>3. c = Closer(q) => at[i + 1] = Outside
    BY <1>4, <2>1, <2>2 DEF LexNext
  <2>4. c # Closer(q) /\ c = Escape /\ mysql /\ q \in Literal(mysql) => at[i + 1] = Inside(q, TRUE)
    BY <1>4, <2>1 DEF LexNext
  <2>5. c # Closer(q) /\ ~(c = Escape /\ mysql /\ q \in Literal(mysql)) => at[i + 1] = before
    BY <1>4, <2>1 DEF LexNext
  <2> QED BY <1>8, <2>3, <2>4, <2>5
<1>9. LexFromOutside(sql, mysql, at, i)
  BY <1>3, <1>6 DEF LexFromOutside
<1>10. \A q \in Openers : LexFromInside(sql, mysql, at, i, q)
  BY <1>3, <1>7, <1>8 DEF LexFromInside
<1> QED BY <1>0, <1>9, <1>10

\* The scanner and the lexer agree on what is a literal: the first of two quotes that stand
\* for one closes and opens for the lexer.
InStep(sql, mysql, scan, lex, i) ==
    \/ /\ scan[i] = Outside
       /\ lex[i] = Outside \/ \E q \in Hiding(mysql) : lex[i] = Inside(q, FALSE)
    \/ \E q \in Quotes(mysql) :
          \/ scan[i] = Inside(q, FALSE) /\ lex[i] = Inside(q, FALSE)
          \/ /\ scan[i] = Inside(q, TRUE)
             /\ \/ lex[i] = Inside(q, TRUE)
                \/ lex[i] = Outside /\ i <= Len(sql) /\ sql[i] = q

\* They do from character to character, but at a misleading one.
LEMMA StaysInStep ==
    ASSUME NEW sql, IsList(sql), NEW mysql \in BOOLEAN, NEW i \in 1..Len(sql),
           i \notin Misleading(sql, mysql),
           InStep(sql, mysql, Scan(sql, mysql), Lex(sql, mysql), i)
    PROVE  InStep(sql, mysql, Scan(sql, mysql), Lex(sql, mysql), i + 1)
<1>1. PICK scan, lex, c : scan = Scan(sql, mysql) /\ lex = Lex(sql, mysql) /\ c = sql[i]
  OBVIOUS
<1>2. Len(sql) \in Nat /\ i \in DOMAIN sql
  BY ListIs
<1>3. /\ FromOutside(sql, mysql, scan, i) /\ \A q \in {Quote, Double} : FromInside(sql, scan, i, q)
      /\ LexFromOutside(sql, mysql, lex, i) /\ \A q \in Openers : LexFromInside(sql, mysql, lex, i, q)
  BY <1>1, <1>2, ScanGoesOn, LexGoesOn
<1>4. /\ Quotes(mysql) \subseteq {Quote, Double} /\ Quotes(mysql) \subseteq Literal(mysql)
      /\ Literal(mysql) \subseteq Openers /\ Hiding(mysql) \subseteq Openers
      /\ Hiding(mysql) \cap Literal(mysql) = {} /\ {Quote, Double} \subseteq Openers
      /\ \A q \in Literal(mysql) : q \in Quotes(mysql) \/ (q = Dollar /\ ~mysql)
      /\ \A q \in Quotes(mysql) : Closer(q) = q /\ q # Escape
  BY DEF Quotes, Literal, Hiding, Openers, Closer, Quote, Double, Back, Dollar, Note, Escape
<1>5. /\ lex[i].quote \in Hiding(mysql) => c \notin Quotes(mysql)
      /\ ~mysql /\ lex[i].quote \in Literal(mysql) => c # Escape
      /\ ~mysql /\ lex[i] = Outside => c # Dollar
  BY <1>1, <1>2 DEF Misleading
<1>6. CASE scan[i] = Outside /\ lex[i] = Outside
  <2>1. scan[i + 1] = IF c \in Quotes(mysql) THEN Inside(c, FALSE) ELSE Outside
    BY <1>1, <1>3, <1>6 DEF FromOutside
  <2>2. lex[i + 1] = IF c \in Literal(mysql) \cup Hiding(mysql) THEN Inside(c, FALSE) ELSE Outside
    BY <1>1, <1>3, <1>6 DEF LexFromOutside
  <2>3. c \in Literal(mysql) => c \in Quotes(mysql)
    BY <1>4, <1>5, <1>6
  <2>4. c \in Hiding(mysql) => c \notin Quotes(mysql)
    BY <1>4
  <2> QED BY <1>1, <1>4, <2>1, <2>2, <2>3, <2>4 DEF InStep
<1>7. ASSUME NEW q \in Hiding(mysql), scan[i] = Outside, lex[i] = Inside(q, FALSE)
      PROVE  InStep(sql, mysql, scan, lex, i + 1)
  <2>1. q \in Openers /\ lex[i].quote = q
    BY <1>4, <1>7, InsideIs
  <2>2. c \notin Quotes(mysql)
    BY <1>5, <2>1
  <2>3. scan[i + 1] = Outside
    BY <1>1, <1>3, <1>7, <2>2 DEF FromOutside
  <2>4. q \notin Literal(mysql)
    BY <1>4
  <2>5. lex[i + 1] = Outside \/ lex[i + 1] = Inside(q, FALSE)
    BY <1>3, <1>7, <2>1, <2>4 DEF LexFromInside
  <2> QED BY <2>3, <2>5 DEF InStep
<1>8. ASSUME NEW q \in Quotes(mysql), scan[i] = Inside(q, FALSE), lex[i] = Inside(q, FALSE)
      PROVE  InStep(sql, mysql, scan, lex, i + 1)
  <2>1. q \in Openers /\ q \in {Quote, Double} /\ q \in Literal(mysql) /\ Closer(q) = q /\ q # Escape
        /\ lex[i].quote = q
    BY <1>4, <1>8, InsideIs
  <2>2. FromInside(sql, scan, i, q) /\ LexFromInside(sql, mysql, lex, i, q)
    BY <1>3, <2>1
  <2>3. CASE c = q
    <3>1. lex[i + 1] = Outside
      BY <1>1, <1>8, <2>1, <2>2, <2>3 DEF LexFromInside
    <3>2. CASE Doubled(sql, i)
      <4>1. scan[i + 1] = Inside(q, TRUE)
        BY <1>1, <1>8, <2>2, <2>3, <3>2 DEF FromInside
      <4>2. i + 1 <= Len(sql) /\ sql[i + 1] = q
        <5>1. i < Len(sql) /\ sql[i + 1] = sql[i]
          BY <3>2 DEF Doubled
        <5>2. i + 1 <= Len(sql)
          BY <1>2, <5>1
        <5>3. sql[i + 1] = q
          BY <1>1, <2>3, <5>1
        <5> QED BY <5>2, <5>3
      <4> QED BY <3>1, <4>1, <4>2 DEF InStep
    <3>3. CASE ~Doubled(sql, i)
      <4>1. scan[i + 1] = Outside
        BY <1>1, <1>8, <2>2, <2>3, <3>3 DEF FromInside
      <4> QED BY <3>1, <4>1 DEF InStep
    <3> QED BY <3>2, <3>3
  <2>4. CASE c = Escape
    <3>1. mysql
      BY <1>5, <2>1, <2>4
    <3>2. scan[i + 1] = Inside(q, TRUE)
      BY <1>1, <1>8, <2>2, <2>4 DEF FromInside
    <3>3. lex[i + 1] = Inside(q, TRUE)
      BY <1>1, <1>8, <2>1, <2>2, <2>4, <3>1 DEF LexFromInside
    <3> QED BY <3>2, <3>3 DEF InStep
  <2>5. CASE c \notin {q, Escape}
    <3>1. scan[i + 1] = Inside(q, FALSE) /\ lex[i + 1] = Inside(q, FALSE)
      BY <1>1, <1>8, <2>1, <2>2, <2>5 DEF FromInside, LexFromInside
    <3> QED BY <3>1 DEF InStep
  <2> QED BY <2>3, <2>4, <2>5
<1>9. ASSUME NEW q \in Quotes(mysql), scan[i] = Inside(q, TRUE),
             lex[i] = Inside(q, TRUE) \/ (lex[i] = Outside /\ i <= Len(sql) /\ sql[i] = q)
      PROVE  InStep(sql, mysql, scan, lex, i + 1)
  <2>1. q \in Openers /\ q \in {Quote, Double} /\ q \in Literal(mysql)
    BY <1>4
  <2>2. scan[i + 1] = Inside(q, FALSE)
    BY <1>3, <1>9, <2>1 DEF FromInside
  <2>3. lex[i + 1] = Inside(q, FALSE)
    <3>1. CASE lex[i] = Inside(q, TRUE)
      BY <1>3, <2>1, <3>1 DEF LexFromInside
    <3>2. CASE lex[i] = Outside /\ sql[i] = q
      BY <1>3, <2>1, <3>2 DEF LexFromOutside
    <3> QED BY <1>9, <3>1, <3>2
  <2> QED BY <2>2, <2>3 DEF InStep
<1>10. InStep(sql, mysql, scan, lex, i)
  BY <1>1
<1>11. InStep(sql, mysql, scan, lex, i + 1)
  <2>1. CASE scan[i] = Outside /\ (lex[i] = Outside \/ \E q \in Hiding(mysql) : lex[i] = Inside(q, FALSE))
    BY <1>1, <1>6, <1>7, <2>1
  <2>2. ASSUME NEW q \in Quotes(mysql),
               \/ scan[i] = Inside(q, FALSE) /\ lex[i] = Inside(q, FALSE)
               \/ /\ scan[i] = Inside(q, TRUE)
                  /\ lex[i] = Inside(q, TRUE) \/ (lex[i] = Outside /\ i <= Len(sql) /\ sql[i] = q)
        PROVE  InStep(sql, mysql, scan, lex, i + 1)
    BY <1>8, <1>9, <2>2
  <2> QED BY <1>10, <2>1, <2>2 DEF InStep
<1> QED BY <1>1, <1>11

\* Where nothing has been misleading, no place of a literal is copied.
LEMMA LiteralsAreRedacted ==
    ASSUME NEW sql, IsList(sql), NEW mysql \in BOOLEAN,
           NEW p \in InClear(sql, mysql) \cap Literals(sql, mysql)
    PROVE  \E k \in Misleading(sql, mysql) : k <= p
<1> SUFFICES ASSUME \A k \in Misleading(sql, mysql) : ~(k <= p) PROVE FALSE
  OBVIOUS
<1>1. PICK scan, lex, n : scan = Scan(sql, mysql) /\ lex = Lex(sql, mysql) /\ n = Len(sql)
  OBVIOUS
<1>2. n \in Nat /\ DOMAIN sql = 1..n /\ p \in 1..n
  BY <1>1, ListIs DEF InClear
<1> DEFINE Good == {m \in Nat : m + 1 <= p => InStep(sql, mysql, scan, lex, m + 1)}
<1>3. 0 \in Good
  <2>1. 1 \in 1..(Len(sql) + 1) /\ Len(sql) \in Nat
    BY <1>1, <1>2
  <2>2. scan[1] = Outside /\ lex[1] = Outside
    <3>1. scan[1] = ScanAt(sql, mysql, 1, scan) /\ lex[1] = LexAt(sql, mysql, 1, lex)
      BY <1>1, <2>1, ScanSteps, LexSteps
    <3> QED BY <3>1 DEF ScanAt, LexAt
  <2>3. InStep(sql, mysql, scan, lex, 1)
    BY <2>2 DEF InStep
  <2>4. 0 + 1 = 1
    OBVIOUS
  <2> QED BY <2>3, <2>4
<1>4. ASSUME NEW m \in Nat, m \in Good PROVE m + 1 \in Good
  <2> SUFFICES ASSUME (m + 1) + 1 <= p PROVE InStep(sql, mysql, scan, lex, (m + 1) + 1)
    OBVIOUS
  <2>1. m + 1 \in 1..Len(sql) /\ m + 1 <= p
    BY <1>1, <1>2
  <2>2. m + 1 \notin Misleading(sql, mysql)
    BY <2>1
  <2>3. InStep(sql, mysql, scan, lex, m + 1)
    BY <1>4, <2>1
  <2> HIDE DEF Good
  <2> QED BY <1>1, <2>1, <2>2, <2>3, StaysInStep
<1>5. InStep(sql, mysql, scan, lex, p)
  <2> HIDE DEF Good
  <2>1. \A m \in Nat : m \in Good
    BY <1>3, <1>4, HoldsAllNaturals
  <2>2. p - 1 \in Nat /\ (p - 1) + 1 = p
    BY <1>2
  <2>3. p - 1 \in Good
    BY <2>1, <2>2
  <2> QED BY <2>2, <2>3 DEF Good
<1>6. scan[p] = Outside /\ sql[p] \notin Quotes(mysql)
  BY <1>1 DEF InClear
<1>7. \A q \in {Quote, Double}, t \in BOOLEAN : Inside(q, t) # Outside
  BY InsideIs DEF Openers
<1>8. lex[p] = Outside \/ \E q \in Hiding(mysql) : lex[p] = Inside(q, FALSE)
  <2>1. Quotes(mysql) \subseteq {Quote, Double}
    BY DEF Quotes
  <2> QED BY <1>5, <1>6, <1>7, <2>1 DEF InStep
<1>9. lex[p].quote \in Literal(mysql) \/ (lex[p] = Outside /\ sql[p] \in Literal(mysql))
  BY <1>1 DEF Literals
<1>10. CASE lex[p] = Outside
  <2>1. Outside.quote \notin Literal(mysql)
    BY DEF Outside, Literal, Quote, Double, Dollar
  <2>2. sql[p] \in Literal(mysql)
    BY <1>9, <1>10, <2>1
  <2>3. ~mysql /\ sql[p] = Dollar
    BY <1>6, <2>2 DEF Literal, Quotes
  <2>4. p \in Misleading(sql, mysql)
    BY <1>1, <1>2, <1>10, <2>3 DEF Misleading
  <2> QED BY <1>2, <2>4
<1>11. ASSUME NEW q \in Hiding(mysql), lex[p] = Inside(q, FALSE) PROVE FALSE
  <2>1. q \in Openers
    BY DEF Hiding, Openers
  <2>2. lex[p].quote = q /\ lex[p] # Outside
    BY <1>11, <2>1, InsideIs
  <2>3. q \notin Literal(mysql)
    BY DEF Hiding, Literal, Note, Back, Double, Quote, Dollar
  <2> QED BY <1>9, <2>2, <2>3
<1> QED BY <1>8, <1>10, <1>11

\* A statement that has gone on came from the client, and is a list of characters.
LEMMA StatementsGo ==
    ASSUME IsJob(job), NEW k, NEW j, Standing(k, j), NEW i \in DOMAIN delivered,
           delivered[i].kind \in {"Query", "Parse"}
    PROVE  job.side = "client" /\ IsList(Sql(delivered[i]))
<1>1. PICK n : n = Cardinality(AskedOf(job)) + i
  OBVIOUS
<1>2. /\ n \in 1..Len(job.traffic) /\ delivered[i] = Made(job, targets, job.traffic[n])
      /\ delivered[i].kind = job.traffic[n].kind
  BY <1>1, DeliveredIs
<1>3. PICK m : m = job.traffic[n]
  OBVIOUS
<1>4. delivered[i] = m /\ m.kind \in {"Query", "Parse"}
  BY <1>2, <1>3, MadeOther DEF IsRow
<1>5. m.kind \in Kinds(job) /\ IF job.protocol = "postgres" THEN IsPgMessage(m) ELSE IsMySqlPacket(m)
  BY <1>2, <1>3, TrafficIs
<1>6. job.protocol \in {"postgres", "mysql"} /\ job.side \in {"client", "server"}
  BY DEF IsJob
<1>7. job.side = "client" /\ (job.protocol = "mysql" => m.kind = "Query")
  BY <1>4, <1>5, <1>6 DEF Kinds
<1>8. CASE job.protocol = "postgres"
  <2>1. IsPgMessage(m)
    BY <1>5, <1>8
  <2>2. m.kind = "Parse" => IsList(m.body.query)
    BY <2>1 DEF IsPgMessage
  <2>3. m.kind = "Query" => IsList(m.body)
    BY <2>1 DEF IsPgMessage
  <2> QED BY <1>4, <1>7, <2>2, <2>3 DEF Sql
<1>9. CASE job.protocol = "mysql"
  <2>1. IsMySqlPacket(m) /\ m.kind = "Query"
    BY <1>5, <1>7, <1>9
  <2>2. IsList(m.body)
    BY <2>1 DEF IsMySqlPacket
  <2> QED BY <1>4, <1>7, <2>1, <2>2 DEF Sql
<1> QED BY <1>6, <1>8, <1>9

\* The names of the columns, those held and those in the ring, are names given.
Given(names, given) == IsList(names) /\ \A i \in 1..Len(names) : names[i] \in given
Showing(r, given)   == IsList(r) /\ \A e \in 1..Len(r) : r[e].names \subseteq given
Labelled == Given(labels, NamesGiven(job)) /\ Showing(ring, NamesGiven(job))

LEMMA ShowingMore ==
    ASSUME NEW r, NEW given, Showing(r, given), NEW entry, entry.names \subseteq given
    PROVE  Showing(<<entry>> \o IF Len(r) < RingSize THEN r ELSE Front(r), given)
<1>1. IsList(r) /\ Len(r) \in Nat /\ RingSize \in Nat \ {0}
      /\ \A e \in 1..Len(r) : r[e].names \subseteq given
  BY ListIs, DataPathAssumption DEF Showing
<1>2. PICK kept : kept = IF Len(r) < RingSize THEN r ELSE Front(r)
  OBVIOUS
<1>3. IsList(kept) /\ \A e \in 1..Len(kept) : kept[e].names \subseteq given
  <2>1. CASE Len(r) < RingSize
    BY <1>1, <1>2, <2>1
  <2>2. CASE ~(Len(r) < RingSize)
    <3>1. kept = SubSeq(r, 1, Len(r) - 1)
      BY <1>2, <2>2 DEF Front
    <3>2. PICK l : l = Len(r) - 1
      OBVIOUS
    <3>3. l \in Nat /\ 1 <= l + 1 /\ l <= Len(r) /\ (l - 1) + 1 = l
      BY <1>1, <2>2, <3>2
    <3>4. IsList(kept) /\ Len(kept) = l /\ \A e \in 1..l : kept[e] = r[(1 + e) - 1]
      BY <1>1, <3>1, <3>2, <3>3, PartOf
    <3>5. \A e \in 1..l : (1 + e) - 1 = e /\ e \in 1..Len(r)
      BY <3>3
    <3> QED BY <1>1, <3>4, <3>5
  <2> QED BY <2>1, <2>2
<1>4. PICK all : all = One(entry) ++ kept
  OBVIOUS
<1>5. /\ IsList(all) /\ Len(all) = Len(kept) + 1 /\ all[1] = entry
      /\ \A e \in 1..Len(kept) : all[e + 1] = kept[e]
  BY <1>3, <1>4, FirstOf
<1>6. Len(kept) \in Nat
  BY <1>3, ListIs
<1>7. ASSUME NEW e \in 1..Len(all) PROVE all[e].names \subseteq given
  <2>1. CASE e = 1
    BY <1>5, <2>1
  <2>2. CASE e # 1
    <3>1. PICK f : f = e - 1
      OBVIOUS
    <3>2. f \in 1..Len(kept) /\ e = f + 1
      BY <1>5, <1>6, <2>2, <3>1
    <3> QED BY <1>3, <1>5, <3>2
  <2> QED BY <2>1, <2>2
<1>8. Showing(all, given)
  BY <1>5, <1>7 DEF Showing
<1>9. all = <<entry>> \o kept
  BY <1>4 DEF One, ++
<1> QED BY <1>2, <1>8, <1>9

LEMMA NamesAreGiven ==
    ASSUME NEW w, IsJob(w), NEW n \in 1..Len(w.traffic), NEW m, m = w.traffic[n]
    PROVE  /\ m.kind = "Column" => m.body.name \in NamesGiven(w)
           /\ m.kind = "RowDescription" =>
                 Given([i \in DOMAIN m.body |-> m.body[i].name], NamesGiven(w))
<1>1. NamesOf(m) \subseteq NamesGiven(w)
  <2>1. n \in DOMAIN w.traffic
    BY ListIs DEF IsJob
  <2> QED BY <2>1 DEF NamesGiven
<1>2. m.kind = "Column" => m.body.name \in NamesOf(m)
  BY DEF NamesOf
<1>3. ASSUME m.kind = "RowDescription" PROVE Given([i \in DOMAIN m.body |-> m.body[i].name], NamesGiven(w))
  <2>1. NamesOf(m) = {m.body[c].name : c \in DOMAIN m.body}
    BY <1>3 DEF NamesOf
  <2>2. IsList(m.body)
    <3>1. w.protocol = "postgres"
      <4>1. m.kind \in Kinds(w) /\ w.protocol \in {"postgres", "mysql"} /\ w.side \in {"client", "server"}
        BY TrafficIs DEF IsJob
      <4> QED BY <1>3, <4>1 DEF Kinds
    <3>2. IsPgMessage(m)
      BY <3>1, TrafficIs
    <3> QED BY <1>3, <3>2 DEF IsPgMessage
  <2>3. PICK names, l : names = [i \in DOMAIN m.body |-> m.body[i].name] /\ l = Len(m.body)
    OBVIOUS
  <2>4. l \in Nat /\ DOMAIN m.body = 1..l
    BY <2>2, <2>3, ListIs
  <2>5. names = [i \in 1..l |-> names[i]] /\ \A i \in 1..l : names[i] = m.body[i].name
    BY <2>3, <2>4
  <2>6. IsList(names) /\ Len(names) = l
    BY <2>4, <2>5, ListOf
  <2>7. \A i \in 1..l : names[i] \in NamesGiven(w)
    BY <1>1, <2>1, <2>4, <2>5
  <2> QED BY <2>3, <2>6, <2>7 DEF Given
<1> QED BY <1>1, <1>2, <1>3

LEMMA NamesKept == Spec => []Labelled
<1>1. Init => Labelled
  BY NoList DEF Init, Labelled, Given, Showing
<1>2. IInv /\ Labelled /\ [Next]_vars => Labelled'
  <2> SUFFICES ASSUME IInv, Labelled, [Next]_vars PROVE Labelled'
    OBVIOUS
  <2>1. IsJob(job)
    BY DEF IInv
  <2>2. PICK k, j : Standing(k, j)
    BY DEF IInv
  <2>3. PICK given : given = NamesGiven(job)
    OBVIOUS
  <2>4. Given(labels, given) /\ Showing(ring, given)
    BY <2>3 DEF Labelled
  <2>5. job' = job
    BY DEF Next, vars, Arrive, Describe, Row, Statement, DenySsl, Forward, Reassemble,
           Reject, Finished
  <2>6. Labelled' = (Given(labels', given) /\ Showing(ring', given))
    BY <2>3, <2>5 DEF Labelled
  <2>7. CASE Describe
    <3>1. PICK m : m = Decoded.message
      OBVIOUS
    <3>2. /\ Take({"RowDescription", "Column"}) /\ UNCHANGED <<job, wire, ring>>
          /\ labels' = IF m.kind = "Column" THEN Append(labels, m.body.name)
                       ELSE [i \in DOMAIN m.body |-> m.body[i].name]
      BY <2>7, <3>1 DEF Describe
    <3>3. k + 1 \in 1..Len(job.traffic) /\ m = job.traffic[k + 1] /\ m.kind \in {"RowDescription", "Column"}
      BY <2>1, <2>2, <3>1, <3>2, TakeMoves
    <3>4. /\ m.kind = "Column" => m.body.name \in given
          /\ m.kind = "RowDescription" => Given([i \in DOMAIN m.body |-> m.body[i].name], given)
      BY <2>1, <2>3, <3>3, NamesAreGiven
    <3>5. CASE m.kind = "Column"
      <4>1. PICK name : name = m.body.name
        OBVIOUS
      <4>2. labels' = Append(labels, name) /\ name \in given
        BY <3>2, <3>4, <3>5, <4>1
      <4>3. /\ IsList(labels) /\ \A i \in 1..Len(labels) : labels[i] \in given
        BY <2>4 DEF Given
      <4>4. /\ IsList(labels') /\ Len(labels') = Len(labels) + 1 /\ Len(labels) \in Nat
            /\ \A i \in 1..Len(labels) : labels'[i] = labels[i]
            /\ labels'[Len(labels) + 1] = name
        BY <4>2, <4>3, Appended, ListIs
      <4>5. ASSUME NEW i \in 1..Len(labels') PROVE labels'[i] \in given
        <5>1. i \in 1..Len(labels) \/ i = Len(labels) + 1
          BY <4>4
        <5> QED BY <4>2, <4>3, <4>4, <5>1
      <4> QED BY <2>4, <2>6, <3>2, <4>4, <4>5 DEF Given
    <3>6. CASE m.kind = "RowDescription"
      <4>1. Given(labels', given)
        BY <3>2, <3>4, <3>6
      <4> QED BY <2>4, <2>6, <3>2, <4>1
    <3> QED BY <3>3, <3>5, <3>6
  <2>8. CASE Row
    <3>1. PICK row, names : /\ row = MaskRow(Decoded.message.body, targets, job.policy)
                            /\ names = {labels[i] : i \in row.told \cap DOMAIN labels}
      OBVIOUS
    <3>2. /\ labels' = labels
          /\ \/ ring' = ring
             \/ ring' = <<Entry("DataMasked", row.shown, names, {})>>
                           \o IF Len(ring) < RingSize THEN ring ELSE Front(ring)
      BY <2>8, <3>1 DEF Row, AddLog
    <3>3. DOMAIN labels = 1..Len(labels) /\ \A i \in 1..Len(labels) : labels[i] \in given
      BY <2>4, ListIs DEF Given
    <3>4. names \subseteq given
      BY <3>1, <3>3
    <3>5. PICK entry : entry = Entry("DataMasked", row.shown, names, {})
      OBVIOUS
    <3>6. entry.names \subseteq given
      BY <3>4, <3>5 DEF Entry
    <3>7. Showing(ring', given)
      BY <2>4, <3>2, <3>5, <3>6, ShowingMore
    <3> QED BY <2>4, <2>6, <3>2, <3>7
  <2>9. CASE Statement
    <3>1. PICK kind, clear : ring' = <<Entry(kind, <<>>, {}, clear)>>
                                        \o IF Len(ring) < RingSize THEN ring ELSE Front(ring)
      BY <2>9 DEF Statement, AddLog
    <3>2. labels' = <<>>
      BY <2>9 DEF Statement
    <3>3. PICK entry : entry = Entry(kind, <<>>, {}, clear)
      OBVIOUS
    <3>4. entry.names \subseteq given
      BY <3>3 DEF Entry
    <3>5. Showing(ring', given)
      BY <2>4, <3>1, <3>3, <3>4, ShowingMore
    <3>6. Given(<<>>, given)
      BY NoList DEF Given
    <3> QED BY <2>6, <3>2, <3>5, <3>6
  <2>10. CASE UNCHANGED <<labels, ring>>
    BY <2>4, <2>6, <2>10
  <2> QED
    BY <2>7, <2>8, <2>9, <2>10
       DEF Next, Arrive, DenySsl, Forward, Reassemble, Reject, Finished, vars
<1> QED BY <1>1, <1>2, Stands, PTL DEF Spec

\* "The record intentionally carries no pre-masking bytes" (interceptor.rs) and
\* redact_sql_literals of main.rs: whatever the rows and the statements, the ring an
\* operator reads shows no token of a row but those the proxy made, names no column other
\* than its description did, and shows a place of a literal only behind one where the
\* scanner of redact_sql_literals has been misled about where the literals are.
THEOREM LogKeepsValuesOut == Spec => []LogCarriesNoValue
<1>1. IInv /\ Logged(job, delivered, ring, masked) /\ Labelled => LogCarriesNoValue
  <2> SUFFICES ASSUME IInv, Logged(job, delivered, ring, masked), Labelled, NEW e \in DOMAIN ring
               PROVE  /\ \A x \in DOMAIN ring[e].shown : ring[e].shown[x].fake
                      /\ ring[e].names \subseteq NamesGiven(job)
                      /\ ring[e].kind # "DataMasked" =>
                            LET sql == Sql(delivered[Newest(e, Statements)])
                            IN \A p \in ring[e].inClear \cap Literals(sql, job.protocol = "mysql") :
                                  OutOfStep(sql, p)
    BY DEF LogCarriesNoValue
  <2>1. IsJob(job)
    BY DEF IInv
  <2>2. PICK k, j : Standing(k, j)
    BY DEF IInv
  <2>3. IsList(delivered)
    BY <2>2 DEF Standing, Sent
  <2>4. PICK n, places : n = Len(delivered) /\ places = Told(job, delivered)
    OBVIOUS
  <2>5. n \in Nat /\ places \in SUBSET (1..n)
    BY <2>3, <2>4, ToldIn, ListIs
  <2>6. IsList(ring) /\ \A x \in 1..Len(ring) : \E i \in places :
                           Rank(places, i) = x /\ Tell(job, ring[x], delivered[i])
    BY <2>4 DEF Logged, Recent
  <2>7. e \in 1..Len(ring)
    BY <2>6, ListIs
  <2>0. ring[e].names \subseteq NamesGiven(job)
    BY <2>7 DEF Labelled, Showing
  <2>8. PICK i \in places : Rank(places, i) = e /\ Tell(job, ring[e], delivered[i])
    BY <2>6, <2>7
  <2>9. PICK entry, message : entry = ring[e] /\ message = delivered[i]
    OBVIOUS
  <2>10. CASE IsRow(message)
    <3>1. entry.kind = "DataMasked" /\ \A token \in Range(entry.shown) : token.fake
      BY <2>8, <2>9, <2>10 DEF Tell
    <3>2. \A x \in DOMAIN entry.shown : entry.shown[x] \in Range(entry.shown)
      BY DEF Range
    <3> QED BY <2>0, <2>9, <3>1, <3>2
  <2>11. CASE ~IsRow(message)
    <3>1. entry = Entry(message.kind, <<>>, {}, InClear(Sql(message), job.protocol = "mysql"))
      BY <2>8, <2>9, <2>11 DEF Tell
    <3>2. entry.shown = <<>> /\ entry.inClear = InClear(Sql(message), job.protocol = "mysql")
      BY <3>1 DEF Entry
    <3>3. i \in Stated(delivered)
      BY <2>4, <2>9, <2>11 DEF Told, Changed
    <3>4. i \in DOMAIN delivered /\ message.kind \in {"Query", "Parse"}
      BY <2>9, <3>3 DEF Stated
    <3>5. job.side = "client" /\ IsList(Sql(message))
      BY <2>1, <2>2, <2>9, <3>4, StatementsGo
    <3>6. Changed(job, delivered) = {}
      <4>1. job.protocol \in {"postgres", "mysql"}
        BY <2>1 DEF IsJob
      <4>2. ASSUME NEW x \in DOMAIN delivered PROVE delivered[x].kind \notin {"DataRow", "ResultRow"}
        BY <2>1, <2>2, <3>5, <4>1, KindsGo DEF Kinds
      <4> QED BY <4>2 DEF Changed, IsRow
    <3>7. places = Statements
      BY <2>4, <3>6 DEF Told, Stated, Statements
    <3>8. Newest(e, Statements) = i
      BY <2>5, <2>8, <3>7, RankOnce
    <3>9. PICK sql, mysql : sql = Sql(message) /\ mysql = (job.protocol = "mysql")
      OBVIOUS
    <3>10. \A p \in InClear(sql, mysql) \cap Literals(sql, mysql) : OutOfStep(sql, p)
      <4>1. mysql \in BOOLEAN /\ IsList(sql)
        BY <3>5, <3>9
      <4>2. \A p \in InClear(sql, mysql) \cap Literals(sql, mysql) : \E x \in Misleading(sql, mysql) : x <= p
        BY <4>1, LiteralsAreRedacted
      <4> QED BY <3>9, <4>2 DEF OutOfStep
    <3>11. DOMAIN entry.shown = {}
      BY <3>2
    <3>12. \A p \in entry.inClear \cap Literals(sql, mysql) : OutOfStep(sql, p)
      BY <3>2, <3>9, <3>10
    <3>13. sql = Sql(delivered[Newest(e, Statements)])
      BY <2>9, <3>8, <3>9
    <3> QED BY <2>0, <2>9, <3>9, <3>11, <3>12, <3>13
  <2> QED BY <2>10, <2>11
<1> QED BY <1>1, Stands, TellsOfThose, NamesKept, PTL
=============================================================================
