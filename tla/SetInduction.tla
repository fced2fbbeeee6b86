---------------------------- MODULE SetInduction ----------------------------
(***************************************************************************)
(* Induction on the natural numbers for a set instead of an operator: the  *)
(* form in which the provers can use it.  A fact about all n is proved by  *)
(* showing that the set of those that have it holds zero and is closed     *)
(* under the successor.  So is it shown that a recursion over a sequence   *)
(* defines something.                                                      *)
(***************************************************************************)
EXTENDS Naturals, SequencesExt, WellFoundedInduction, TLAPS

\* Every set of natural numbers that is not empty has a least member; the library
\* has the fact for relations.
LEMMA LeastMember ==
  ASSUME NEW S \in SUBSET Nat, S # {}
  PROVE  \E x \in S : \A y \in S : x <= y
<1> DEFINE Less == {pair \in Nat \X Nat : pair[1] < pair[2]}
<1>1. IsWellFoundedOn(Less, Nat)
  BY NatLessThanWellFounded DEF OpToRel
<1>2. ASSUME NEW x \in Nat, NEW y \in Nat PROVE <<y, x>> \in Less <=> y < x
  OBVIOUS
<1> HIDE DEF Less
<1>3. PICK x \in S : \A y \in S : ~(<<y, x>> \in Less)
  BY <1>1, WFMin
<1>4. ASSUME NEW y \in S PROVE x <= y
  <2>1. x \in Nat /\ y \in Nat /\ ~(<<y, x>> \in Less)
    BY <1>3
  <2>2. ~(y < x)
    BY <2>1, <1>2
  <2> QED BY <2>1, <2>2
<1> QED BY <1>4

\* A set that holds zero and the successor of each of its numbers holds them all.
LEMMA HoldsAllNaturals ==
  ASSUME NEW S, 0 \in S, \A n \in Nat : n \in S => n + 1 \in S
  PROVE  \A n \in Nat : n \in S
<1> SUFFICES ASSUME Nat \ S # {} PROVE FALSE
  OBVIOUS
<1>1. PICK m \in Nat \ S : \A k \in Nat \ S : m <= k
  BY LeastMember
<1>2. m # 0 /\ m - 1 \in Nat /\ m - 1 \in S
  BY <1>1
<1> QED BY <1>1, <1>2

-----------------------------------------------------------------------------
\* A recursion is defined where each value depends only on values of lower rank:
\* step[i, f] is what the recursion makes of i when the values so far are those of f.
Descends(D, V, step, rank, bound) ==
    /\ V # {}
    /\ step \in [D \X [D -> V] -> V]
    /\ rank \in [D -> Nat]
    /\ bound \in Nat
    /\ \A i \in D : rank[i] < bound
    /\ \A i \in D : \A f, g \in [D -> V] :
          (\A k \in D : rank[k] < rank[i] => f[k] = g[k]) => step[<<i, f>>] = step[<<i, g>>]
Recurses(D, step, f) == \A i \in D : f[i] = step[<<i, f>>]

LEMMA RecursionDefined ==
  ASSUME NEW D, NEW V, NEW step, NEW rank, NEW bound, Descends(D, V, step, rank, bound)
  PROVE  \E f \in [D -> V] : Recurses(D, step, f)
<1> USE DEF Descends
<1> DEFINE Holds(m, f) == \A i \in D : rank[i] < m => f[i] = step[<<i, f>>]
           Known == {m \in Nat : \E f \in [D -> V] : Holds(m, f)}
<1>1. 0 \in Known
  <2>1. PICK v \in V : TRUE
    OBVIOUS
  <2>2. [i \in D |-> v] \in [D -> V] /\ Holds(0, [i \in D |-> v])
    OBVIOUS
  <2> QED BY <2>2
<1>2. ASSUME NEW m \in Nat, m \in Known PROVE m + 1 \in Known
  <2>1. PICK f \in [D -> V] : Holds(m, f)
    BY <1>2
  <2>2. PICK g : g = [i \in D |-> IF rank[i] < m + 1 THEN step[<<i, f>>] ELSE f[i]]
    OBVIOUS
  <2>3. g \in [D -> V]
    BY <2>2
  <2>4. ASSUME NEW i \in D, rank[i] < m PROVE g[i] = f[i]
    BY <2>1, <2>2, <2>4
  <2>5. ASSUME NEW i \in D, rank[i] < m + 1 PROVE g[i] = step[<<i, g>>]
    <3>1. \A k \in D : rank[k] < rank[i] => f[k] = g[k]
      BY <2>4, <2>5
    <3>2. step[<<i, f>>] = step[<<i, g>>]
      BY <2>3, <3>1
    <3> QED BY <2>2, <2>5, <3>2
  <2>6. Holds(m + 1, g)
    BY <2>5
  <2> QED BY <2>3, <2>6
<1> HIDE DEF Known
<1>3. \A m \in Nat : m \in Known
  BY <1>1, <1>2, HoldsAllNaturals
<1>4. PICK f \in [D -> V] : Holds(bound, f)
  BY <1>3 DEF Known
<1> QED BY <1>4 DEF Recurses

-----------------------------------------------------------------------------
\* FlattenSeq's recursion is defined.
Flattens(flat, seqs, m) ==
    /\ flat = [i \in 1..m |-> flat[i]]
    /\ \A i \in 1..m : flat[i] = IF i = 1 THEN seqs[i] ELSE flat[i - 1] \o seqs[i]

LEMMA FlattenSteps ==
  ASSUME NEW seqs, NEW n \in Nat \ {0}, Len(seqs) = n
  PROVE  \E flat : Flattens(flat, seqs, n) /\ FlattenSeq(seqs) = flat[n]
<1> DEFINE Known == {m \in Nat : \E flat : Flattens(flat, seqs, m)}
<1>1. 0 \in Known
  <2>1. Flattens([i \in 1..0 |-> 0], seqs, 0)
    BY DEF Flattens
  <2> QED BY <2>1
<1>2. ASSUME NEW m \in Nat, m \in Known PROVE m + 1 \in Known
  <2>1. PICK flat : Flattens(flat, seqs, m)
    BY <1>2
  <2> DEFINE longer == [i \in 1..(m + 1) |->
                          IF i <= m THEN flat[i]
                          ELSE IF i = 1 THEN seqs[i] ELSE flat[i - 1] \o seqs[i]]
  <2>2. ASSUME NEW i \in 1..(m + 1)
        PROVE  longer[i] = IF i = 1 THEN seqs[i] ELSE longer[i - 1] \o seqs[i]
    <3>1. CASE i <= m
      <4>1. i \in 1..m /\ longer[i] = flat[i] /\ (i # 1 => longer[i - 1] = flat[i - 1])
        BY <3>1
      <4>2. flat[i] = IF i = 1 THEN seqs[i] ELSE flat[i - 1] \o seqs[i]
        BY <2>1, <4>1 DEF Flattens
      <4> QED BY <4>1, <4>2
    <3>2. CASE i = m + 1
      BY <3>2
    <3> QED BY <3>1, <3>2
  <2>3. longer = [i \in 1..(m + 1) |-> longer[i]]
    OBVIOUS
  <2> HIDE DEF longer
  <2>4. Flattens(longer, seqs, m + 1)
    BY <2>2, <2>3 DEF Flattens
  <2>5. m + 1 \in Nat
    OBVIOUS
  <2> QED BY <2>4, <2>5
<1> HIDE DEF Known
<1>3. \A m \in Nat : m \in Known
  BY <1>1, <1>2, HoldsAllNaturals
<1>4. \E flat : Flattens(flat, seqs, n)
  BY <1>3 DEF Known
<1> DEFINE Recursion(flat) ==
             flat = [i \in 1..n |-> IF i = 1 THEN seqs[i] ELSE flat[i - 1] \o seqs[i]]
<1>5. ASSUME NEW flat PROVE Recursion(flat) <=> Flattens(flat, seqs, n)
  BY DEF Flattens
<1>6. FlattenSeq(seqs) = (CHOOSE flat : Recursion(flat))[n]
  BY DEF FlattenSeq
<1> HIDE DEF Recursion
<1>7. Recursion(CHOOSE flat : Recursion(flat))
  BY <1>4, <1>5
<1> QED BY <1>5, <1>6, <1>7
=============================================================================
