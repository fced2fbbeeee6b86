------------------------- MODULE ControlPlaneProofs -------------------------
(***************************************************************************)
(* What holds of the rule list, the policy store, the start of the         *)
(* process, access to the API, the health check and the database scan for  *)
(* any lists, any scenes, any number of handlers and reloads, and any      *)
(* number of crashes.                                                      *)
(***************************************************************************)
EXTENDS ControlPlane, SetInduction, SequenceTheorems, FiniteSetTheorems

-----------------------------------------------------------------------------
(* What the edits of the rule list do to its keys, for any list and any rules *)

\* A list has a rule of this key; its first one decides.
Has(rules, col)      == With(rules, col) # {}
Standing(rules, col) == rules[First(rules, col)].strategy

Fields == {"table", "column", "strategy"}

-----------------------------------------------------------------------------
(* Lists and their first rules *)

\* A list of rules is a function on the numbers up to its length.
LEMMA ListShape ==
    ASSUME NEW rules, IsRuleList(rules)
    PROVE  /\ Len(rules) \in Nat /\ DOMAIN rules = 1..Len(rules)
           /\ rules = [i \in 1..Len(rules) |-> rules[i]]
           /\ rules \in Seq(Range(rules))
           /\ \A i \in 1..Len(rules) : DOMAIN rules[i] = Fields
<1>1. rules \in Seq(Range(rules))
  BY DEF IsRuleList
<1>2. /\ Len(rules) \in Nat /\ DOMAIN rules = 1..Len(rules)
      /\ rules = [i \in 1..Len(rules) |-> rules[i]]
  BY <1>1, LenProperties
<1> QED BY <1>1, <1>2 DEF IsRuleList, Fields

\* And every such function is one.
LEMMA MakesList ==
    ASSUME NEW n \in Nat, NEW f, f = [i \in 1..n |-> f[i]],
           \A i \in 1..n : DOMAIN f[i] = Fields
    PROVE  IsRuleList(f) /\ Len(f) = n
<1>1. DOMAIN f = 1..n
  OBVIOUS
<1>2. \A i \in 1..n : f[i] \in Range(f)
  BY <1>1 DEF Range
<1>3. f \in Seq(Range(f)) /\ Len(f) = n
  BY <1>2
<1> QED BY <1>1, <1>3 DEF IsRuleList, Fields

\* The first rule of a key is where it is, and nowhere else.
LEMMA FirstIs ==
    ASSUME NEW rules, IsRuleList(rules), NEW col, Has(rules, col)
    PROVE  /\ First(rules, col) \in 1..Len(rules)
           /\ Key(rules[First(rules, col)]) = col
           /\ \A i \in 1..Len(rules) : Key(rules[i]) = col => First(rules, col) <= i
<1>1. With(rules, col) \in SUBSET Nat /\ With(rules, col) # {}
      /\ With(rules, col) = {i \in 1..Len(rules) : Key(rules[i]) = col}
  BY ListShape DEF With, Has
<1>2. \E x \in With(rules, col) : \A y \in With(rules, col) : x <= y
  BY <1>1, LeastMember
<1>3. First(rules, col) \in With(rules, col)
      /\ \A y \in With(rules, col) : First(rules, col) <= y
  BY <1>2 DEF First, Min
<1> QED BY <1>1, <1>3

LEMMA FirstAt ==
    ASSUME NEW rules, IsRuleList(rules), NEW col, NEW i \in 1..Len(rules),
           Key(rules[i]) = col, \A j \in 1..Len(rules) : Key(rules[j]) = col => i <= j
    PROVE  Has(rules, col) /\ First(rules, col) = i
<1>1. Has(rules, col)
  BY ListShape DEF Has, With
<1>2. First(rules, col) \in 1..Len(rules) /\ First(rules, col) <= i /\ i <= First(rules, col)
  BY <1>1, FirstIs
<1>3. Len(rules) \in Nat
  BY ListShape
<1> QED BY <1>1, <1>2, <1>3

LEMMA HasOne ==
    ASSUME NEW rules, IsRuleList(rules), NEW col
    PROVE  Has(rules, col) <=> \E i \in 1..Len(rules) : Key(rules[i]) = col
BY ListShape DEF Has, With

-----------------------------------------------------------------------------
(* upsert_rule *)

\* It decides its own key and leaves the others, and no rule changes its place.
LEMMA UpsertOne ==
    ASSUME NEW list, IsRuleList(list), NEW rule, DOMAIN rule = Fields
    PROVE  LET upserted == Upsert(list, rule)
           IN /\ IsRuleList(upserted)
              /\ Has(upserted, Key(rule)) /\ Standing(upserted, Key(rule)) = rule.strategy
              /\ \A k : k # Key(rule) => /\ Has(upserted, k) <=> Has(list, k)
                                         /\ Has(list, k) => Standing(upserted, k) = Standing(list, k)
              /\ \A k : Has(list, k) => /\ Has(upserted, k)
                                        /\ First(upserted, k) = First(list, k)
              /\ \A i \in 1..Len(upserted) :
                    \/ upserted[i].strategy = rule.strategy
                    \/ i \in 1..Len(list) /\ upserted[i] = list[i]
<1> DEFINE col      == Key(rule)
           upserted == Upsert(list, rule)
           n        == Len(list)
<1>1. /\ n \in Nat /\ DOMAIN list = 1..n /\ list \in Seq(Range(list))
      /\ list = [i \in 1..n |-> list[i]]
      /\ \A i \in 1..n : DOMAIN list[i] = Fields
  BY ListShape
<1>2. CASE ~Has(list, col)
  <2>1. upserted = Append(list, rule)
    BY <1>2 DEF Upsert, Has
  <2>2. upserted = [i \in 1..(n + 1) |-> IF i = n + 1 THEN rule ELSE list[i]]
    <3> DEFINE S == Range(list) \cup {rule}
    <3>1. list \in Seq(S) /\ rule \in S
      BY <1>1
    <3> HIDE DEF S
    <3>2. /\ upserted \in Seq(S) /\ Len(upserted) = n + 1
          /\ \A i \in 1..n : upserted[i] = list[i]
          /\ upserted[n + 1] = rule
      BY <2>1, <3>1, AppendProperties
    <3> HIDE DEF upserted, n
    <3>3. upserted = [i \in 1..(n + 1) |-> upserted[i]]
      BY <3>2, LenProperties
    <3>4. \A i \in 1..(n + 1) : upserted[i] = IF i = n + 1 THEN rule ELSE list[i]
      BY <1>1, <3>2
    <3> QED BY <3>3, <3>4
  <2> HIDE DEF upserted
  <2>3. \A i \in 1..(n + 1) : upserted[i] = IF i = n + 1 THEN rule ELSE list[i]
    BY <2>2
  <2>4. IsRuleList(upserted) /\ Len(upserted) = n + 1
    <3>1. upserted = [i \in 1..(n + 1) |-> upserted[i]]
      BY <2>2
    <3>2. \A i \in 1..(n + 1) : DOMAIN upserted[i] = Fields
      BY <1>1, <2>3
    <3> QED BY <1>1, <3>1, <3>2, MakesList
  <2>5. \A j \in 1..n : Key(list[j]) # col
    BY <1>2, HasOne
  <2>6. Has(upserted, col) /\ First(upserted, col) = n + 1
    <3>1. n + 1 \in 1..Len(upserted) /\ Key(upserted[n + 1]) = col
      BY <1>1, <2>3, <2>4
    <3>2. \A j \in 1..Len(upserted) : Key(upserted[j]) = col => n + 1 <= j
      BY <1>1, <2>3, <2>4, <2>5
    <3> HIDE DEF col
    <3> QED BY <2>4, <3>1, <3>2, FirstAt
  <2>7. ASSUME NEW k, Has(list, k)
        PROVE  Has(upserted, k) /\ First(upserted, k) = First(list, k) /\ First(list, k) \in 1..n
    <3>1. /\ First(list, k) \in 1..n /\ Key(list[First(list, k)]) = k
          /\ \A j \in 1..n : Key(list[j]) = k => First(list, k) <= j
      BY <2>7, FirstIs
    <3> DEFINE first == First(list, k)
    <3> HIDE DEF first
    <3>2. first \in 1..Len(upserted) /\ Key(upserted[first]) = k
      BY <1>1, <2>3, <2>4, <3>1 DEF first
    <3>3. \A j \in 1..Len(upserted) : Key(upserted[j]) = k => first <= j
      BY <1>1, <2>3, <2>4, <3>1 DEF first
    <3> QED BY <2>4, <3>1, <3>2, <3>3, FirstAt DEF first
  <2>8. ASSUME NEW k, k # col, Has(upserted, k)
        PROVE  Has(list, k)
    <3>1. PICK i \in 1..(n + 1) : Key(upserted[i]) = k
      BY <2>4, <2>8, HasOne
    <3>2. i \in 1..n /\ Key(list[i]) = k
      BY <1>1, <2>3, <2>8, <3>1
    <3> QED BY <3>2, HasOne
  <2>9. Standing(upserted, col) = rule.strategy
    BY <1>1, <2>3, <2>6 DEF Standing
  <2>10. \A k : Has(list, k) => Standing(upserted, k) = Standing(list, k)
    BY <1>1, <2>3, <2>7 DEF Standing
  <2>11. \A i \in 1..Len(upserted) : \/ upserted[i].strategy = rule.strategy
                                     \/ i \in 1..n /\ upserted[i] = list[i]
    BY <1>1, <2>3, <2>4
  <2> QED BY <2>4, <2>6, <2>7, <2>8, <2>9, <2>10, <2>11 DEF upserted
<1>3. CASE Has(list, col)
  <2> DEFINE at == First(list, col)
  <2>1. /\ at \in 1..n /\ Key(list[at]) = col
        /\ \A j \in 1..n : Key(list[j]) = col => at <= j
    BY <1>3, FirstIs
  <2>2. upserted = [list EXCEPT ![at].strategy = rule.strategy]
    BY <1>3 DEF Upsert, Has
  <2> HIDE DEF upserted, at
  <2>3. /\ upserted = [i \in 1..n |-> upserted[i]]
        /\ \A i \in 1..n : i # at => upserted[i] = list[i]
        /\ upserted[at] = [list[at] EXCEPT !.strategy = rule.strategy]
    BY <1>1, <2>1, <2>2
  <2>4. /\ DOMAIN upserted[at] = Fields /\ Key(upserted[at]) = col
        /\ upserted[at].strategy = rule.strategy
    <3>1. DOMAIN list[at] = {"table", "column", "strategy"}
      BY <1>1, <2>1 DEF Fields
    <3> QED BY <2>1, <2>3, <3>1 DEF Fields, Key
  <2>5. \A i \in 1..n : DOMAIN upserted[i] = Fields /\ Key(upserted[i]) = Key(list[i])
    BY <1>1, <2>1, <2>3, <2>4
  <2>6. IsRuleList(upserted) /\ Len(upserted) = n
    <3>1. \A i \in 1..n : DOMAIN upserted[i] = Fields
      BY <2>5
    <3> QED BY <1>1, <2>3, <3>1, MakesList
  <2>7. ASSUME NEW k
        PROVE  /\ Has(upserted, k) <=> Has(list, k)
               /\ Has(list, k) => First(upserted, k) = First(list, k) /\ First(list, k) \in 1..n
    <3>1. Has(upserted, k) <=> Has(list, k)
      BY <2>5, <2>6, HasOne
    <3>2. ASSUME Has(list, k) PROVE First(upserted, k) = First(list, k) /\ First(list, k) \in 1..n
      <4>1. /\ First(list, k) \in 1..n /\ Key(list[First(list, k)]) = k
            /\ \A j \in 1..n : Key(list[j]) = k => First(list, k) <= j
        BY <3>2, FirstIs
      <4> DEFINE first == First(list, k)
      <4> HIDE DEF first
      <4>2. first \in 1..Len(upserted) /\ Key(upserted[first]) = k
            /\ \A j \in 1..Len(upserted) : Key(upserted[j]) = k => first <= j
        BY <2>5, <2>6, <4>1 DEF first
      <4> QED BY <2>6, <4>1, <4>2, FirstAt DEF first
    <3> QED BY <3>1, <3>2
  <2>8. Has(upserted, col) /\ Standing(upserted, col) = rule.strategy
    BY <1>3, <2>4, <2>7 DEF Standing, at
  <2>9. ASSUME NEW k, k # col, Has(list, k)
        PROVE  Standing(upserted, k) = Standing(list, k)
    <3>1. First(list, k) \in 1..n /\ Key(list[First(list, k)]) = k
      BY <2>9, FirstIs
    <3>2. First(list, k) # at
      BY <2>1, <2>9, <3>1
    <3> QED BY <2>3, <2>7, <2>9, <3>1, <3>2 DEF Standing
  <2>10. \A i \in 1..Len(upserted) : \/ upserted[i].strategy = rule.strategy
                                     \/ i \in 1..n /\ upserted[i] = list[i]
    BY <2>3, <2>4, <2>6
  <2> QED BY <2>6, <2>7, <2>8, <2>9, <2>10 DEF upserted
<1> QED BY <1>2, <1>3
-----------------------------------------------------------------------------
(* Vec::retain *)

\* What is retained so far is an increasing choice of the places.
LEMMA RetainPicks ==
    ASSUME NEW rules, IsRuleList(rules), NEW places \in SUBSET (1..Len(rules))
    PROVE  LET kept == Retain(rules, places)
           IN /\ IsRuleList(kept)
              /\ \E at \in [1..Len(kept) -> places] :
                    /\ \A j \in 1..Len(kept) : kept[j] = rules[at[j]]
                    /\ \A i, j \in 1..Len(kept) : i < j => at[i] < at[j]
                    /\ \A p \in places : \E j \in 1..Len(kept) : at[j] = p
<1> DEFINE N == Len(rules)
           Kept(g, i) == IF i = 0 THEN <<>>
                         ELSE IF i \in places THEN Append(g[i - 1], rules[i]) ELSE g[i - 1]
<1>1. N \in Nat /\ \A i \in 1..N : DOMAIN rules[i] = Fields
  BY ListShape
<1>9. \A p \in places : p \in Nat /\ 1 <= p /\ p <= N
  BY <1>1
<1> HIDE DEF N
<1>2. PICK g : g = [i \in 0..N |-> Kept(g, i)]
  <2> DEFINE S == {n \in Nat : \E f : f = [i \in 0..n |-> Kept(f, i)]}
  <2>1. 0 \in S
    <3> DEFINE f == [i \in 0..0 |-> <<>>]
    <3>1. f = [i \in 0..0 |-> Kept(f, i)]
      OBVIOUS
    <3> HIDE DEF f
    <3> QED BY <3>1
  <2>2. ASSUME NEW n \in Nat, n \in S PROVE n + 1 \in S
    <3>1. PICK f : f = [i \in 0..n |-> Kept(f, i)]
      BY <2>2
    <3> HIDE DEF Kept
    <3> DEFINE h == [i \in 0..(n + 1) |-> IF i = n + 1 THEN Kept(f, i) ELSE f[i]]
    <3>2. ASSUME NEW i \in 0..(n + 1) PROVE Kept(h, i) = Kept(f, i)
      <4>1. i # 0 => i - 1 \in 0..n /\ i - 1 # n + 1
        OBVIOUS
      <4>2. i # 0 => h[i - 1] = f[i - 1]
        BY <4>1
      <4> QED BY <4>2 DEF Kept
    <3>3. \A i \in 0..(n + 1) : i # n + 1 => f[i] = Kept(f, i)
      BY <3>1
    <3>4. h = [i \in 0..(n + 1) |-> Kept(h, i)]
      <4>1. \A i \in 0..(n + 1) : h[i] = Kept(h, i)
        BY <3>2, <3>3
      <4> HIDE DEF h
      <4> QED BY <4>1 DEF h
    <3> HIDE DEF h
    <3> QED BY <3>4
  <2> HIDE DEF S
  <2>3. N \in S
    BY <1>1, <2>1, <2>2, HoldsAllNaturals
  <2> QED BY <2>3 DEF S
<1>3. PICK upTo : /\ upTo = [i \in 0..N |-> Kept(upTo, i)]
                  /\ Retain(rules, places) = upTo[N]
  BY <1>2 DEF Retain, N
<1> DEFINE Picks(n) ==
      LET kept == upTo[n]
      IN /\ IsRuleList(kept)
         /\ \E at \in [1..Len(kept) -> places] :
               /\ \A j \in 1..Len(kept) : at[j] <= n /\ kept[j] = rules[at[j]]
               /\ \A i, j \in 1..Len(kept) : i < j => at[i] < at[j]
               /\ \A p \in places : p <= n => \E j \in 1..Len(kept) : at[j] = p
<1>4. Picks(0)
  <2>1. upTo[0] = <<>>
    BY <1>1, <1>3
  <2>2. IsRuleList(<<>>) /\ Len(<<>>) = 0
    BY DEF IsRuleList
  <2>3. \A p \in places : ~(p <= 0)
    BY <1>9
  <2>4. PICK at : at = [i \in 1..0 |-> 0]
    OBVIOUS
  <2>5. at \in [1..0 -> places] /\ \A j \in 1..0 : FALSE
    BY <2>4
  <2>6. /\ \A j \in 1..0 : at[j] <= 0 /\ <<>>[j] = rules[at[j]]
        /\ \A i, j \in 1..0 : i < j => at[i] < at[j]
        /\ \A p \in places : p <= 0 => \E j \in 1..0 : at[j] = p
    BY <2>3, <2>5
  <2>7. 1..Len(upTo[0]) = 1..0 /\ IsRuleList(upTo[0])
    BY <2>1, <2>2
  <2> QED BY <2>1, <2>5, <2>6, <2>7
<1>5. ASSUME NEW n \in Nat, n + 1 <= N, Picks(n) PROVE Picks(n + 1)
  <2> DEFINE kept == upTo[n]
             m    == Len(kept)
  <2>1. PICK at \in [1..m -> places] :
               /\ \A j \in 1..m : at[j] <= n /\ kept[j] = rules[at[j]]
               /\ \A i, j \in 1..m : i < j => at[i] < at[j]
               /\ \A p \in places : p <= n => \E j \in 1..m : at[j] = p
    BY <1>5
  <2>2. IsRuleList(kept) /\ m \in Nat
    BY <1>5, ListShape
  <2>3. n + 1 \in 0..N /\ n + 1 # 0 /\ (n + 1) - 1 = n
    BY <1>1, <1>5
  <2>4. upTo[n + 1] = IF n + 1 \in places THEN Append(kept, rules[n + 1]) ELSE kept
    <3>1. upTo[n + 1] = Kept(upTo, n + 1)
      BY <1>3, <2>3
    <3> QED BY <2>3, <3>1
  <2> HIDE DEF kept, m
  <2>7. \A j \in 1..m : at[j] \in places /\ at[j] \in Nat /\ at[j] <= n
    BY <1>9, <2>1
  <2>5. CASE n + 1 \notin places
    <3>1. \A p \in places : p <= n + 1 => p <= n
      BY <1>9, <2>5
    <3>2. upTo[n + 1] = kept
      BY <2>4, <2>5
    <3>3. \A j \in 1..m : at[j] <= n + 1
      BY <2>7
    <3>4. /\ \A j \in 1..m : at[j] <= n + 1 /\ kept[j] = rules[at[j]]
          /\ \A i, j \in 1..m : i < j => at[i] < at[j]
          /\ \A p \in places : p <= n + 1 => \E j \in 1..m : at[j] = p
      BY <2>1, <3>1, <3>3
    <3> QED BY <2>1, <2>2, <3>2, <3>4 DEF m
  <2>6. CASE n + 1 \in places
    <3> DEFINE longer == Append(kept, rules[n + 1])
               to == [j \in 1..(m + 1) |-> IF j = m + 1 THEN n + 1 ELSE at[j]]
    <3>1. /\ longer = [j \in 1..(m + 1) |-> longer[j]]
          /\ \A j \in 1..m : longer[j] = kept[j]
          /\ longer[m + 1] = rules[n + 1]
      <4> DEFINE S == Range(kept) \cup {rules[n + 1]}
      <4>1. kept \in Seq(S) /\ rules[n + 1] \in S
        BY <2>2, ListShape
      <4> HIDE DEF S
      <4>2. longer \in Seq(S) /\ Len(longer) = m + 1
        BY <4>1, AppendProperties DEF m
      <4>5. \A j \in 1..m : longer[j] = kept[j]
        BY <4>1, AppendProperties DEF m
      <4>6. longer[m + 1] = rules[n + 1]
        BY <4>1, AppendProperties DEF m
      <4> HIDE DEF longer
      <4>3. longer = [j \in 1..Len(longer) |-> longer[j]]
        BY <4>2, LenProperties
      <4>4. longer = [j \in 1..(m + 1) |-> longer[j]]
        BY <4>2, <4>3, Zenon
      <4> QED BY <4>4, <4>5, <4>6
    <3>2. upTo[n + 1] = longer
      BY <2>4, <2>6
    <3> HIDE DEF longer
    <3>14. \A j \in 1..(m + 1) : j = m + 1 \/ j \in 1..m
      BY <2>2
    <3>3. \A j \in 1..m : DOMAIN kept[j] = Fields
      BY <2>2, ListShape DEF m
    <3>4. n + 1 \in 1..N /\ DOMAIN rules[n + 1] = Fields
      BY <1>1, <1>5
    <3>5. \A j \in 1..(m + 1) : DOMAIN longer[j] = Fields
      BY <3>1, <3>3, <3>4, <3>14, Zenon
    <3>15. m + 1 \in Nat
      BY <2>2
    <3>6. IsRuleList(longer) /\ Len(longer) = m + 1
      BY <3>1, <3>5, <3>15, MakesList
    <3>8. to \in [1..(m + 1) -> places]
      BY <2>2, <2>6, <2>7, <3>14
    <3>9. to[m + 1] = n + 1 /\ \A j \in 1..m : to[j] = at[j]
      BY <2>2
    <3> HIDE DEF to
    <3>10. \A j \in 1..(m + 1) : to[j] <= n + 1 /\ longer[j] = rules[to[j]]
      <4>1. \A j \in 1..m : to[j] <= n + 1 /\ longer[j] = rules[to[j]]
        <5> SUFFICES ASSUME NEW j \in 1..m PROVE to[j] <= n + 1 /\ longer[j] = rules[to[j]]
          OBVIOUS
        <5>1. to[j] = at[j] /\ longer[j] = kept[j]
          BY <3>1, <3>9
        <5>2. at[j] \in Nat /\ at[j] <= n /\ kept[j] = rules[at[j]]
          BY <2>1, <2>7
        <5> QED BY <5>1, <5>2
      <4>2. to[m + 1] <= n + 1 /\ longer[m + 1] = rules[to[m + 1]]
        BY <3>1, <3>9
      <4> QED BY <3>14, <4>1, <4>2
    <3>11. \A i, j \in 1..(m + 1) : i < j => to[i] < to[j]
      <4>1. ASSUME NEW i \in 1..(m + 1), NEW j \in 1..(m + 1), i < j PROVE to[i] < to[j]
        <5>1. i \in 1..m
          BY <2>2, <4>1
        <5>2. CASE j \in 1..m
          BY <2>1, <3>9, <4>1, <5>1, <5>2
        <5>3. CASE j = m + 1
          BY <2>7, <3>9, <5>1, <5>3
        <5> QED BY <3>14, <5>2, <5>3
      <4> QED BY <4>1
    <3>12. ASSUME NEW p \in places, p <= n + 1
           PROVE  \E j \in 1..(m + 1) : to[j] = p
      <4>1. CASE p = n + 1
        BY <2>2, <3>9, <4>1
      <4>2. CASE p # n + 1
        <5>1. p <= n
          BY <1>9, <3>12, <4>2
        <5>2. PICK j \in 1..m : at[j] = p
          BY <2>1, <5>1
        <5> QED BY <2>2, <3>9, <5>2
      <4> QED BY <4>1, <4>2
    <3>13. \A p \in places : p <= n + 1 => \E j \in 1..(m + 1) : to[j] = p
      BY <3>12
    <3> QED BY <3>2, <3>6, <3>8, <3>10, <3>11, <3>13
  <2> QED BY <2>5, <2>6
<1>6. Picks(N)
  <2> HIDE DEF Picks
  <2> DEFINE S == {n \in Nat : n <= N => Picks(n)}
  <2>1. 0 \in S
    BY <1>4
  <2>2. ASSUME NEW n \in Nat, n \in S PROVE n + 1 \in S
    BY <1>1, <1>5, <2>2
  <2> HIDE DEF S
  <2>3. N \in S
    BY <1>1, <2>1, <2>2, HoldsAllNaturals
  <2> QED BY <1>1, <2>3 DEF S
<1>7. PICK at \in [1..Len(upTo[N]) -> places] :
          /\ \A j \in 1..Len(upTo[N]) : at[j] <= N /\ upTo[N][j] = rules[at[j]]
          /\ \A i, j \in 1..Len(upTo[N]) : i < j => at[i] < at[j]
          /\ \A p \in places : p <= N => \E j \in 1..Len(upTo[N]) : at[j] = p
  BY <1>6
<1>8. \A p \in places : \E j \in 1..Len(upTo[N]) : at[j] = p
  BY <1>7, <1>9
<1>10. IsRuleList(upTo[N])
  BY <1>6
<1> DEFINE kept == upTo[N]
<1>11. \E to \in [1..Len(kept) -> places] :
          /\ \A j \in 1..Len(kept) : kept[j] = rules[to[j]]
          /\ \A i, j \in 1..Len(kept) : i < j => to[i] < to[j]
          /\ \A p \in places : \E j \in 1..Len(kept) : to[j] = p
  BY <1>7, <1>8
<1>12. Retain(rules, places) = kept /\ IsRuleList(kept)
  BY <1>3, <1>10
<1> HIDE DEF kept
<1> QED BY <1>11, <1>12

\* A key whose first rule is retained stands as it stood, and in the same order.
LEMMA RetainKeys ==
    ASSUME NEW rules, IsRuleList(rules), NEW places \in SUBSET (1..Len(rules))
    PROVE  LET kept == Retain(rules, places)
           IN /\ IsRuleList(kept)
              /\ \A j \in 1..Len(kept) : \E p \in places : kept[j] = rules[p]
              /\ \A k : Has(kept, k) <=> \E p \in places : Key(rules[p]) = k
              /\ \A k : Has(rules, k) /\ First(rules, k) \in places =>
                           Has(kept, k) /\ Standing(kept, k) = Standing(rules, k)
              /\ \A a, b : /\ Has(rules, a) /\ First(rules, a) \in places
                           /\ Has(rules, b) /\ First(rules, b) \in places
                           /\ First(rules, a) < First(rules, b)
                           => First(kept, a) < First(kept, b)
<1> DEFINE kept == Retain(rules, places)
<1>1. IsRuleList(kept) /\ Len(kept) \in Nat
  BY RetainPicks, ListShape
<1>2. PICK at \in [1..Len(kept) -> places] :
         /\ \A j \in 1..Len(kept) : kept[j] = rules[at[j]]
         /\ \A i, j \in 1..Len(kept) : i < j => at[i] < at[j]
         /\ \A p \in places : \E j \in 1..Len(kept) : at[j] = p
  BY RetainPicks
<1> HIDE DEF kept
<1>3. \A p \in places : p \in Nat /\ p \in 1..Len(rules)
  BY ListShape
<1>4. \A j \in 1..Len(kept) : at[j] \in places /\ at[j] \in Nat
  BY <1>2, <1>3
<1>5. ASSUME NEW k PROVE Has(kept, k) <=> \E p \in places : Key(rules[p]) = k
  <2>1. Has(kept, k) <=> \E j \in 1..Len(kept) : Key(kept[j]) = k
    BY <1>1, HasOne
  <2>2. \A j \in 1..Len(kept) : Key(kept[j]) = Key(rules[at[j]])
    BY <1>2
  <2>3. ASSUME NEW p \in places, Key(rules[p]) = k
        PROVE  \E j \in 1..Len(kept) : Key(kept[j]) = k
    <3>1. PICK j \in 1..Len(kept) : at[j] = p
      BY <1>2
    <3> QED BY <2>2, <2>3, <3>1
  <2>4. ASSUME NEW j \in 1..Len(kept), Key(kept[j]) = k
        PROVE  \E p \in places : Key(rules[p]) = k
    BY <1>4, <2>2, <2>4
  <2> QED BY <2>1, <2>3, <2>4
<1>6. ASSUME NEW k, Has(rules, k), First(rules, k) \in places
      PROVE  Has(kept, k) /\ First(kept, k) \in 1..Len(kept)
             /\ at[First(kept, k)] = First(rules, k)
  <2>1. /\ Key(rules[First(rules, k)]) = k
        /\ \A i \in 1..Len(rules) : Key(rules[i]) = k => First(rules, k) <= i
    BY <1>6, FirstIs
  <2>2. PICK j \in 1..Len(kept) : at[j] = First(rules, k)
    BY <1>2, <1>6
  <2>3. Key(kept[j]) = k
    BY <1>2, <2>1, <2>2
  <2>4. ASSUME NEW i \in 1..Len(kept), Key(kept[i]) = k PROVE j <= i
    <3>1. at[i] \in 1..Len(rules) /\ Key(rules[at[i]]) = k
      BY <1>2, <1>3, <1>4, <2>4
    <3>2. at[j] <= at[i]
      BY <2>1, <2>2, <3>1
    <3>3. i < j => at[i] < at[j]
      BY <1>2
    <3> QED BY <1>1, <1>4, <3>2, <3>3
  <2>5. Has(kept, k) /\ First(kept, k) = j
    BY <1>1, <2>3, <2>4, FirstAt
  <2> QED BY <2>2, <2>5
<1>7. ASSUME NEW k, Has(rules, k), First(rules, k) \in places
      PROVE  Standing(kept, k) = Standing(rules, k)
  BY <1>2, <1>6, <1>7 DEF Standing
<1>8. ASSUME NEW a, NEW b, Has(rules, a), First(rules, a) \in places,
             Has(rules, b), First(rules, b) \in places, First(rules, a) < First(rules, b)
      PROVE  First(kept, a) < First(kept, b)
  <2>1. First(kept, a) \in 1..Len(kept) /\ at[First(kept, a)] = First(rules, a)
    BY <1>6, <1>8
  <2>2. First(kept, b) \in 1..Len(kept) /\ at[First(kept, b)] = First(rules, b)
    BY <1>6, <1>8
  <2> DEFINE i == First(kept, a)   j == First(kept, b)
  <2>3. i \in 1..Len(kept) /\ j \in 1..Len(kept) /\ at[i] < at[j]
    BY <1>8, <2>1, <2>2
  <2> HIDE DEF i, j
  <2>4. j < i => at[j] < at[i]
    BY <1>2, <2>3
  <2>5. i # j /\ ~(j < i)
    BY <1>4, <2>3, <2>4
  <2>6. i < j
    BY <1>1, <2>3, <2>5
  <2> QED BY <2>6 DEF i, j
<1>9. \A j \in 1..Len(kept) : \E p \in places : kept[j] = rules[p]
  BY <1>2, <1>4
<1> QED BY <1>1, <1>5, <1>6, <1>7, <1>8, <1>9 DEF kept

\* dedupe_rules: the first rule of each key is what decided before.
LEMMA DedupeKeys ==
    ASSUME NEW rules, IsRuleList(rules)
    PROVE  LET kept == Dedupe(rules)
           IN /\ IsRuleList(kept)
              /\ \A j \in 1..Len(kept) : \E i \in 1..Len(rules) : kept[j] = rules[i]
              /\ \A k : /\ Has(kept, k) <=> Has(rules, k)
                        /\ Has(rules, k) => Standing(kept, k) = Standing(rules, k)
              /\ \A a, b : Has(rules, a) /\ Has(rules, b) /\ First(rules, a) < First(rules, b)
                              => First(kept, a) < First(kept, b)
<1> DEFINE places == {i \in DOMAIN rules : i = First(rules, Key(rules[i]))}
<1>1. places \in SUBSET (1..Len(rules)) /\ Dedupe(rules) = Retain(rules, places)
  BY ListShape DEF Dedupe
<1>2. ASSUME NEW k, Has(rules, k) PROVE First(rules, k) \in places
  BY <1>2, FirstIs, ListShape
<1>3. ASSUME NEW k, NEW p \in places, Key(rules[p]) = k PROVE Has(rules, k)
  BY <1>1, <1>3, HasOne
<1> DEFINE kept == Retain(rules, places)
<1> HIDE DEF places
<1>4. /\ IsRuleList(kept)
      /\ \A j \in 1..Len(kept) : \E p \in places : kept[j] = rules[p]
      /\ \A k : Has(kept, k) <=> \E p \in places : Key(rules[p]) = k
  BY <1>1, RetainKeys
<1>5. \A k : Has(rules, k) => Has(kept, k) /\ Standing(kept, k) = Standing(rules, k)
  BY <1>1, <1>2, RetainKeys
<1>6. \A a, b : Has(rules, a) /\ Has(rules, b) /\ First(rules, a) < First(rules, b)
                   => First(kept, a) < First(kept, b)
  BY <1>1, <1>2, RetainKeys
<1> HIDE DEF kept
<1>7. \A k : Has(kept, k) => Has(rules, k)
  BY <1>3, <1>4
<1>8. \A j \in 1..Len(kept) : \E i \in 1..Len(rules) : kept[j] = rules[i]
  BY <1>1, <1>4
<1>9. kept = Dedupe(rules)
  BY <1>1 DEF kept
<1> QED BY <1>4, <1>5, <1>6, <1>7, <1>8, <1>9

\* delete_rule: the keys it names are gone, and no others.
Named(k, table, column) == k[2] = column /\ table \in {NoTable, k[1]}
LEMMA DeleteKeys ==
    ASSUME NEW rules, IsRuleList(rules), NEW table, NEW column
    PROVE  LET rest == Delete(rules, table, column)
           IN /\ IsRuleList(rest)
              /\ \A j \in 1..Len(rest) : /\ ~Deletes(rest[j], table, column)
                                         /\ \E i \in 1..Len(rules) : rest[j] = rules[i]
              /\ \A k : Named(k, table, column) => ~Has(rest, k)
              /\ \A k : ~Named(k, table, column) =>
                           /\ Has(rest, k) <=> Has(rules, k)
                           /\ Has(rules, k) => Standing(rest, k) = Standing(rules, k)
              /\ \A a, b : /\ ~Named(a, table, column) /\ ~Named(b, table, column)
                           /\ Has(rules, a) /\ Has(rules, b) /\ First(rules, a) < First(rules, b)
                           => First(rest, a) < First(rest, b)
<1> DEFINE places == {i \in DOMAIN rules : ~Deletes(rules[i], table, column)}
           rest   == Retain(rules, places)
<1>1. places \in SUBSET (1..Len(rules)) /\ Delete(rules, table, column) = rest
  BY ListShape DEF Delete
<1>2. \A rule : Deletes(rule, table, column) <=> Named(Key(rule), table, column)
  BY DEF Deletes, Named, Key
<1>3. \A i \in 1..Len(rules) : i \in places <=> ~Named(Key(rules[i]), table, column)
  BY <1>2, ListShape
<1> HIDE DEF places
<1>4. /\ IsRuleList(rest)
      /\ \A j \in 1..Len(rest) : \E p \in places : rest[j] = rules[p]
      /\ \A k : Has(rest, k) <=> \E p \in places : Key(rules[p]) = k
      /\ \A k : Has(rules, k) /\ First(rules, k) \in places =>
                   Has(rest, k) /\ Standing(rest, k) = Standing(rules, k)
      /\ \A a, b : /\ Has(rules, a) /\ First(rules, a) \in places
                   /\ Has(rules, b) /\ First(rules, b) \in places
                   /\ First(rules, a) < First(rules, b)
                   => First(rest, a) < First(rest, b)
  BY <1>1, RetainKeys
<1> HIDE DEF rest
<1>5. \A k : Named(k, table, column) => ~Has(rest, k)
  BY <1>1, <1>3, <1>4
<1>6. ASSUME NEW k, ~Named(k, table, column), Has(rules, k) PROVE First(rules, k) \in places
  BY <1>3, <1>6, FirstIs
<1>7. ASSUME NEW k, ~Named(k, table, column) PROVE Has(rest, k) <=> Has(rules, k)
  <2>1. Has(rest, k) => Has(rules, k)
    BY <1>1, <1>4, HasOne
  <2> QED BY <1>4, <1>6, <1>7, <2>1
<1>8. \A j \in 1..Len(rest) : /\ ~Deletes(rest[j], table, column)
                              /\ \E i \in 1..Len(rules) : rest[j] = rules[i]
  BY <1>1, <1>2, <1>3, <1>4
<1> QED BY <1>1, <1>4, <1>5, <1>6, <1>7, <1>8

-----------------------------------------------------------------------------
(* add_rule and import_rules *)

\* The last rule of a key is where it is, and nowhere else.
LEMMA LastIs ==
    ASSUME NEW rules, IsRuleList(rules), NEW col, Has(rules, col)
    PROVE  /\ Max(With(rules, col)) \in 1..Len(rules)
           /\ Key(rules[Max(With(rules, col))]) = col
           /\ \A i \in 1..Len(rules) : Key(rules[i]) = col => i <= Max(With(rules, col))
<1> DEFINE n    == Len(rules)
           Down == {d \in 0..n : n - d \in With(rules, col)}
<1>1. n \in Nat /\ With(rules, col) = {i \in 1..n : Key(rules[i]) = col}
  BY ListShape DEF With
<1> HIDE DEF n
<1>2. Down \in SUBSET Nat /\ \A d \in Down : d \in Nat /\ n - d \in With(rules, col)
  BY <1>1
<1>3. \A i \in With(rules, col) : i \in 1..n /\ n - i \in Down
  BY <1>1
<1>4. PICK i \in With(rules, col) : i \in 1..n
  BY <1>3 DEF Has
<1> HIDE DEF Down
<1>5. PICK d \in Down : \A e \in Down : d <= e
  BY <1>2, <1>3, <1>4, LeastMember
<1>6. \A j \in With(rules, col) : n - d >= j
  <2> SUFFICES ASSUME NEW j \in With(rules, col) PROVE n - d >= j
    OBVIOUS
  <2>1. j \in 1..n /\ d <= n - j /\ d \in Nat
    BY <1>2, <1>3, <1>5
  <2> QED BY <1>1, <2>1
<1>7. Max(With(rules, col)) \in With(rules, col)
      /\ \A j \in With(rules, col) : Max(With(rules, col)) >= j
  BY <1>2, <1>5, <1>6 DEF Max
<1>8. \A j \in With(rules, col) : j \in Int
  BY <1>1
<1> QED BY <1>1, <1>7, <1>8 DEF n

\* normalize_rule changes no field but the table.
LEMMA NormalizedFields ==
    ASSUME NEW rule, DOMAIN rule = Fields
    PROVE  DOMAIN Normalized(rule) = Fields /\ Normalized(rule).strategy = rule.strategy
           /\ Normalized(rule).column = rule.column
BY DEF Normalized, Fields

\* Every rule that is given decides its key, the last of a key for good; the keys of no
\* given rule are as they were.
LEMMA ImportKeys ==
    ASSUME NEW rules, IsRuleList(rules), NEW incoming, IsRuleList(incoming)
    PROVE  LET imported == Import(rules, incoming)
               N        == Len(incoming)
           IN /\ IsRuleList(imported)
              /\ \A k : (\A i \in 1..N : Key(Normalized(incoming[i])) # k) =>
                           /\ Has(imported, k) <=> Has(rules, k)
                           /\ Has(rules, k) => Standing(imported, k) = Standing(rules, k)
              /\ \A i \in 1..N :
                    LET k == Key(Normalized(incoming[i]))
                    IN /\ Has(imported, k)
                       /\ (\A j \in 1..N : Key(Normalized(incoming[j])) = k => j <= i) =>
                             Standing(imported, k) = incoming[i].strategy
              /\ \A a, b : Has(rules, a) /\ Has(rules, b) /\ First(rules, a) < First(rules, b)
                              => First(imported, a) < First(imported, b)
              /\ \A j \in 1..Len(imported) :
                    \/ \E i \in 1..Len(rules) : imported[j].strategy = rules[i].strategy
                    \/ \E i \in 1..N : imported[j].strategy = incoming[i].strategy
<1> DEFINE N == Len(incoming)
           given(i) == Normalized(incoming[i])
           Grown(g, i) == IF i = 0 THEN Dedupe(rules) ELSE Upsert(g[i - 1], given(i))
<1>1. N \in Nat /\ \A i \in 1..N : DOMAIN incoming[i] = Fields
  BY ListShape
<1> HIDE DEF N
<1>2. PICK g : g = [i \in 0..N |-> Grown(g, i)]
  <2> HIDE DEF given
  <2> DEFINE S == {n \in Nat : \E f : f = [i \in 0..n |-> Grown(f, i)]}
  <2>1. 0 \in S
    <3> DEFINE f == [i \in 0..0 |-> Dedupe(rules)]
    <3>1. f = [i \in 0..0 |-> Grown(f, i)]
      OBVIOUS
    <3> HIDE DEF f
    <3> QED BY <3>1
  <2>2. ASSUME NEW n \in Nat, n \in S PROVE n + 1 \in S
    <3>1. PICK f : f = [i \in 0..n |-> Grown(f, i)]
      BY <2>2
    <3> HIDE DEF Grown
    <3> DEFINE h == [i \in 0..(n + 1) |-> IF i = n + 1 THEN Grown(f, i) ELSE f[i]]
    <3>2. ASSUME NEW i \in 0..(n + 1) PROVE Grown(h, i) = Grown(f, i)
      <4>1. i # 0 => i - 1 \in 0..n /\ i - 1 # n + 1
        OBVIOUS
      <4>2. i # 0 => h[i - 1] = f[i - 1]
        BY <4>1
      <4> QED BY <4>2 DEF Grown
    <3>3. \A i \in 0..(n + 1) : i # n + 1 => f[i] = Grown(f, i)
      BY <3>1
    <3>4. h = [i \in 0..(n + 1) |-> Grown(h, i)]
      <4>1. \A i \in 0..(n + 1) : h[i] = Grown(h, i)
        BY <3>2, <3>3
      <4> HIDE DEF h
      <4> QED BY <4>1 DEF h
    <3> HIDE DEF h
    <3> QED BY <3>4
  <2> HIDE DEF S
  <2>3. N \in S
    BY <1>1, <2>1, <2>2, HoldsAllNaturals
  <2> QED BY <2>3 DEF S
<1>3. PICK upTo : /\ upTo = [i \in 0..N |-> Grown(upTo, i)]
                  /\ Import(rules, incoming) = upTo[N]
  BY <1>2 DEF Import, N
<1>4. \A i \in 1..N : DOMAIN given(i) = Fields /\ given(i).strategy = incoming[i].strategy
  BY <1>1, NormalizedFields
<1> HIDE DEF given
<1>5. \A n \in Nat : n + 1 <= N => upTo[n + 1] = Upsert(upTo[n], given(n + 1))
  <2> SUFFICES ASSUME NEW n \in Nat, n + 1 <= N
               PROVE  upTo[n + 1] = Upsert(upTo[n], given(n + 1))
    OBVIOUS
  <2>1. n + 1 \in 0..N /\ n + 1 # 0 /\ (n + 1) - 1 = n
    BY <1>1
  <2> QED BY <1>3, <2>1
<1>6. upTo[0] = Dedupe(rules)
  BY <1>1, <1>3
<1> HIDE DEF Grown
<1> DEFINE
      Kept(n)   == \A k : (\A i \in 1..n : Key(given(i)) # k) =>
                             /\ Has(upTo[n], k) <=> Has(rules, k)
                             /\ Has(rules, k) => Standing(upTo[n], k) = Standing(rules, k)
      Gained(n) == \A i \in 1..n :
                      /\ Has(upTo[n], Key(given(i)))
                      /\ (\A j \in 1..n : Key(given(j)) = Key(given(i)) => j <= i) =>
                            Standing(upTo[n], Key(given(i))) = incoming[i].strategy
      Order(n)  == \A a, b : Has(rules, a) /\ Has(rules, b) /\ First(rules, a) < First(rules, b)
                               => First(upTo[n], a) < First(upTo[n], b)
      Stay(n)   == \A k : Has(rules, k) => Has(upTo[n], k)
      Whence(n) == \A j \in 1..Len(upTo[n]) :
                      \/ \E i \in 1..Len(rules) : upTo[n][j].strategy = rules[i].strategy
                      \/ \E i \in 1..n : upTo[n][j].strategy = incoming[i].strategy
      Done(n)   == /\ IsRuleList(upTo[n])
                   /\ Kept(n) /\ Gained(n) /\ Order(n) /\ Stay(n) /\ Whence(n)
<1>7. Done(0)
  BY <1>6, DedupeKeys
<1>8. ASSUME NEW n \in Nat, n + 1 <= N, Done(n) PROVE Done(n + 1)
  <2> DEFINE old == upTo[n]   rule == given(n + 1)   edited == upTo[n + 1]
  <2>1. n + 1 \in 1..N /\ DOMAIN rule = Fields /\ rule.strategy = incoming[n + 1].strategy
    BY <1>1, <1>4, <1>8
  <2>2. edited = Upsert(old, rule)
    BY <1>5, <1>8
  <2>3. /\ IsRuleList(edited)
        /\ Has(edited, Key(rule)) /\ Standing(edited, Key(rule)) = rule.strategy
        /\ \A k : k # Key(rule) => /\ Has(edited, k) <=> Has(old, k)
                                   /\ Has(old, k) => Standing(edited, k) = Standing(old, k)
        /\ \A k : Has(old, k) => /\ Has(edited, k)
                                 /\ First(edited, k) = First(old, k)
        /\ \A i \in 1..Len(edited) :
              \/ edited[i].strategy = rule.strategy
              \/ i \in 1..Len(old) /\ edited[i] = old[i]
    <3> HIDE DEF rule, edited, old
    <3> QED BY <1>8, <2>1, <2>2, UpsertOne DEF old
  <2>4. /\ \A i \in 1..(n + 1) : i = n + 1 \/ i \in 1..n
        /\ \A i \in 1..n : i \in 1..(n + 1) /\ i \in Nat /\ i < n + 1
        /\ n + 1 \in 1..(n + 1)
    OBVIOUS
  <2>5. Kept(n + 1)
    <3> SUFFICES ASSUME NEW k, \A i \in 1..(n + 1) : Key(given(i)) # k
                 PROVE  /\ Has(edited, k) <=> Has(rules, k)
                        /\ Has(rules, k) => Standing(edited, k) = Standing(rules, k)
      OBVIOUS
    <3>1. k # Key(rule) /\ \A i \in 1..n : Key(given(i)) # k
      BY <2>4
    <3>2. /\ Has(old, k) <=> Has(rules, k)
          /\ Has(rules, k) => Standing(old, k) = Standing(rules, k)
      BY <1>8, <3>1
    <3> HIDE DEF rule, edited, old
    <3> QED BY <2>3, <3>1, <3>2
  <2>6. Gained(n + 1)
    <3> SUFFICES ASSUME NEW i \in 1..(n + 1)
                 PROVE  /\ Has(edited, Key(given(i)))
                        /\ (\A j \in 1..(n + 1) : Key(given(j)) = Key(given(i)) => j <= i) =>
                              Standing(edited, Key(given(i))) = incoming[i].strategy
      OBVIOUS
    <3>1. CASE i = n + 1
      BY <2>1, <2>3, <3>1
    <3>2. CASE i \in 1..n
      <4>1. Has(old, Key(given(i)))
        BY <1>8, <3>2
      <4>2. Has(edited, Key(given(i)))
        BY <2>3, <4>1
      <4>3. ASSUME \A j \in 1..(n + 1) : Key(given(j)) = Key(given(i)) => j <= i
            PROVE  Standing(edited, Key(given(i))) = incoming[i].strategy
        <5>1. Key(given(i)) # Key(rule)
          <6>1. ~(n + 1 <= i)
            BY <2>4, <3>2
          <6> QED BY <2>4, <4>3, <6>1
        <5>2. Standing(old, Key(given(i))) = incoming[i].strategy
          BY <1>8, <2>4, <3>2, <4>3
        <5> HIDE DEF rule, edited, old
        <5> QED BY <2>3, <4>1, <5>1, <5>2
      <4> QED BY <4>2, <4>3
    <3> QED BY <2>4, <3>1, <3>2
  <2>7. Order(n + 1) /\ Stay(n + 1)
    <3>1. ASSUME NEW k, Has(rules, k)
          PROVE  Has(old, k) /\ Has(edited, k) /\ First(edited, k) = First(old, k)
      <4>1. Has(old, k)
        BY <1>8, <3>1
      <4> HIDE DEF rule, edited, old
      <4> QED BY <2>3, <4>1
    <3>2. ASSUME NEW a, NEW b, Has(rules, a), Has(rules, b), First(rules, a) < First(rules, b)
          PROVE  First(old, a) < First(old, b)
      BY <1>8, <3>2
    <3> QED BY <3>1, <3>2
  <2>8. Whence(n + 1)
    <3> SUFFICES ASSUME NEW j \in 1..Len(edited)
                 PROVE  \/ \E i \in 1..Len(rules) : edited[j].strategy = rules[i].strategy
                        \/ \E i \in 1..(n + 1) : edited[j].strategy = incoming[i].strategy
      OBVIOUS
    <3>1. CASE edited[j].strategy = rule.strategy
      BY <2>1, <2>4, <3>1
    <3>2. CASE j \in 1..Len(old) /\ edited[j] = old[j]
      BY <1>8, <2>4, <3>2
    <3> HIDE DEF rule, edited, old
    <3> QED BY <2>3, <3>1, <3>2
  <2>9. IsRuleList(upTo[n + 1])
    BY <2>3
  <2> HIDE DEF Kept, Gained, Order, Stay, Whence
  <2> QED BY <2>5, <2>6, <2>7, <2>8, <2>9
<1>9. Done(N)
  <2> HIDE DEF Done
  <2> DEFINE S == {n \in Nat : n <= N => Done(n)}
  <2>1. 0 \in S
    BY <1>7
  <2>2. ASSUME NEW n \in Nat, n \in S PROVE n + 1 \in S
    BY <1>1, <1>8, <2>2
  <2> HIDE DEF S
  <2>3. N \in S
    BY <1>1, <2>1, <2>2, HoldsAllNaturals
  <2> QED BY <1>1, <2>3 DEF S
<1> DEFINE imported == Import(rules, incoming)
<1>10. imported = upTo[N]
  BY <1>3
<1> HIDE DEF imported
<1>11. IsRuleList(imported)
  BY <1>9, <1>10
<1>12. \A k : (\A i \in 1..N : Key(Normalized(incoming[i])) # k) =>
                   /\ Has(imported, k) <=> Has(rules, k)
                   /\ Has(rules, k) => Standing(imported, k) = Standing(rules, k)
  BY <1>9, <1>10 DEF given
<1>13. \A i \in 1..N :
         LET k == Key(Normalized(incoming[i]))
         IN /\ Has(imported, k)
            /\ (\A j \in 1..N : Key(Normalized(incoming[j])) = k => j <= i) =>
                  Standing(imported, k) = incoming[i].strategy
  BY <1>9, <1>10 DEF given
<1>14. \A a, b : Has(rules, a) /\ Has(rules, b) /\ First(rules, a) < First(rules, b)
                     => First(imported, a) < First(imported, b)
  BY <1>9, <1>10
<1>15. \A j \in 1..Len(imported) :
          \/ \E i \in 1..Len(rules) : imported[j].strategy = rules[i].strategy
          \/ \E i \in 1..N : imported[j].strategy = incoming[i].strategy
  BY <1>9, <1>10
<1> QED BY <1>11, <1>12, <1>13, <1>14, <1>15 DEF N, imported

-----------------------------------------------------------------------------
(* The inductive invariants *)

PolicyFields == {"rules", "enabled", "secret", "api", "health", "settings", "auth"}

\* A policy whose thresholds can be compared with counts and whose address can be bound,
\* and one that AppConfig::load has given its secret.
Formed(c) ==
    /\ IsPolicy(c)
    /\ InEffect(c.health) \in Limits
    /\ Binds(c.settings)
Resolved(c) == Formed(c) /\ Loaded(c) = c

\* Whatever a handler, a reload, the file or the process has is a policy, or torn.
Shapes ==
    /\ scene \in Scenes
    /\ DOMAIN content = Inodes
    /\ DOMAIN pc = Handlers /\ DOMAIN new = Handlers
    /\ DOMAIN rpc = Reloaders /\ DOMAIN read = Reloaders
    /\ path \in Inodes
    /\ tmp \in Inodes \cup {NoFile}
    /\ \A i \in Inodes : content[i] = Torn \/ Formed(content[i])
    /\ up => Resolved(live)
    /\ \A r \in Reloaders : rpc[r] # "idle" => Resolved(read[r])
    /\ \A h \in Handlers : pc[h] \in Editing => Resolved(new[h])
    /\ request \in scene.requests
    /\ \A h \in Handlers : pc[h] \notin {"idle", "refused"} => request[h] # NoRequest

\* The file holds a policy, and what is in force has been one of the file's.
FromSeen(c) == c \in {Loaded(d) : d \in seen}
Origins ==
    /\ \A c \in seen : Formed(c)
    /\ content[path] \in seen
    /\ up => FromSeen(live)
    /\ \A r \in Reloaders : rpc[r] # "idle" => FromSeen(read[r])
    /\ \A h \in Handlers : pc[h] = "renamed" => new[h] \in seen

\* One handler at a time has the temporary file, which is not the policy file.
OneWriter ==
    /\ \A g, h \in At({"opened", "written"}) : g = h
    /\ DOMAIN fd = Handlers
    /\ tmp \in Handlers \cup {NoFile}
    /\ tmp # path
    /\ \A h \in Handlers :
          /\ pc[h] \in {"idle", "admitted", "cloned"} => h \notin {path, tmp}
          /\ pc[h] = "opened" => tmp # NoFile /\ fd[h] = tmp /\ content[tmp] = Torn
          /\ pc[h] = "written" => tmp # NoFile /\ content[tmp] = new[h]

StoreInv == Shapes /\ Origins /\ OneWriter
DiskInv  == Shapes /\ ("write" \notin raced => StoreInv)

\* What credentials the API asks for has been in the file, whoever overtook whom.
AsksAsSeen(c) == \E d \in seen : c.api = d.api
ApiSeen ==
    /\ Torn \notin seen
    /\ \A i \in Inodes : content[i] # Torn => AsksAsSeen(content[i])
    /\ up => AsksAsSeen(live)
    /\ \A r \in Reloaders : rpc[r] # "idle" => AsksAsSeen(read[r])
    /\ \A h \in Handlers : pc[h] \in Editing => AsksAsSeen(new[h])

\* A probe, with the thresholds it was judged by.
Measured == [connected : BOOLEAN, limits : Limits]

\* The n probes up to i went wrong, or well.
Failed(n, i) == InARow(n, i, FALSE)
Worked(n, i) == InARow(n, i, TRUE)

\* The counters are the failures and the successes at the end of the probes.
Counts ==
    /\ probes \in Seq(Measured)
    /\ health \in [checked : BOOLEAN, healthy : BOOLEAN, failures : Nat, successes : Nat]
    /\ \A n \in Nat : Failed(n, Len(probes)) <=> n <= health.failures
    /\ \A n \in Nat : Worked(n, Len(probes)) <=> n <= health.successes

Risen == \E i \in DOMAIN probes : RoseAt(i) /\ \A j \in i..Len(probes) : ~FellAt(j)
HealthInv == Counts /\ (health.healthy <=> Risen) /\ (probes # <<>> => prober)

\* While no two changes overlap: what has been read is still in the file, and a commit that
\* has renamed has no other beside it.
Alone ==
    /\ \A r \in Reloaders : rpc[r] # "idle" => read[r] = Loaded(File)
    /\ \A h \in Handlers : pc[h] = "renamed" =>
          /\ new[h] = File
          /\ \A g \in Handlers \ {h} : pc[g] \notin Editing
    /\ ~up => /\ \A h \in Handlers : pc[h] \notin Editing
              /\ \A r \in Reloaders : rpc[r] = "idle"

\* The edits of the handlers leave the secret alone, and a reload that has set the key is
\* about to put the policy of the file in force.
Keyed(c) == c.secret # NoSecret => key = c.secret
KeyFollows == up =>
    /\ \A h \in Handlers : pc[h] \in Editing => new[h].secret = live.secret
    /\ IF \E r \in Reloaders : rpc[r] = "keyed" THEN Keyed(Loaded(File)) ELSE Keyed(live)

\* Where no editor saves: what is in force is in the file, but for the moment between
\* rename and swap, and but for those who do not wait for it.
FileFollows ==
    up /\ detached = {} /\ (\A h \in Handlers : pc[h] # "renamed") => live = Loaded(File)
NoSaves == scene.saves = 0 /\ saves \in Nat

AgreeInv ==
    /\ DiskInv
    /\ raced = {} => Alone /\ KeyFollows
    /\ scene.saves = 0 => NoSaves /\ (raced = {} => FileFollows)

\* Contents that do not load are no policy.
TornIsNoPolicy == DOMAIN Torn # PolicyFields

-----------------------------------------------------------------------------
(* Policies *)

\* AppConfig::load gives a policy the secret of the environment and changes nothing
\* else, so that loading what was loaded changes nothing.
LEMMA LoadResolves ==
    ASSUME NEW c, Formed(c), scene \in Scenes
    PROVE  Resolved(Loaded(c))
<1>1. CASE scene.envSecret = NoSecret
  BY <1>1 DEF Resolved, Loaded
<1>2. CASE scene.envSecret # NoSecret
  <2>1. Loaded(c) = [c EXCEPT !.secret = scene.envSecret]
    BY <1>2 DEF Loaded
  <2>2. scene.envSecret \in Secrets \cup {NoSecret}
    BY ConfigStoreAssumption
  <2>3. Formed(Loaded(c))
    BY <2>1, <2>2 DEF Formed, IsPolicy
  <2>4. Loaded(Loaded(c)) = Loaded(c)
    BY <1>2, <2>1 DEF Loaded, Formed, IsPolicy
  <2>5. QED
    BY <2>3, <2>4 DEF Resolved
<1>3. QED
  BY <1>1, <1>2

\* An edit of one field leaves secret and thresholds alone.
LEMMA EditResolves ==
    ASSUME NEW c, Resolved(c), NEW v
    PROVE  /\ IsRuleList(v) /\ Acceptable(v) => Resolved([c EXCEPT !.rules = v])
           /\ v \in BOOLEAN => Resolved([c EXCEPT !.enabled = v])
<1>1. DOMAIN c = {"rules", "enabled", "secret", "api", "health", "settings", "auth"} /\ Formed(c)
  BY DEF Resolved, Formed, IsPolicy
<1>2. scene.envSecret # NoSecret => c.secret = scene.envSecret
  BY <1>1 DEF Resolved, Loaded
<1>3. /\ IsRuleList(v) /\ Acceptable(v) => Formed([c EXCEPT !.rules = v])
      /\ v \in BOOLEAN => Formed([c EXCEPT !.enabled = v])
  BY <1>1 DEF Formed, IsPolicy
<1>4. /\ Loaded([c EXCEPT !.rules = v]) = [c EXCEPT !.rules = v]
      /\ Loaded([c EXCEPT !.enabled = v]) = [c EXCEPT !.enabled = v]
  BY <1>1, <1>2 DEF Loaded
<1>5. QED
  BY <1>3, <1>4 DEF Resolved

\* A policy stays one when the step leaves the scene alone, as every step does.
LEMMA SameScene ==
    ASSUME scene' = scene, NEW c
    PROVE  /\ Loaded(c)' = Loaded(c)
           /\ Resolved(c)' = Resolved(c)
BY DEF Loaded, Resolved, Formed

\* The policies a scene provides are formed.
LEMMA SceneFormed ==
    ASSUME scene \in Scenes, NEW c \in scene.files \cup scene.edits
    PROVE  Formed(c) /\ c # Torn
BY ConfigStoreAssumption, ControlPlaneAssumption DEF Formed, IsPolicy

-----------------------------------------------------------------------------
(* The edits *)

\* add_rule, import_rules, delete_rule and update_config make a policy of a policy.
LEMMA EditIsPolicy ==
    ASSUME NEW c, Resolved(c), NEW asked, IsRequest(asked)
    PROVE  /\ asked.op \in {"add", "import"} /\ Acceptable(asked.rules) =>
                 Resolved([c EXCEPT !.rules = Import(c.rules, asked.rules)])
           /\ asked.op = "delete" =>
                 Resolved([c EXCEPT !.rules = Delete(c.rules, asked.table, asked.column)])
           /\ asked.op = "update" /\ asked.enabled # <<>> =>
                 Resolved([c EXCEPT !.enabled = Head(asked.enabled)])
<1>1. IsRuleList(c.rules) /\ Acceptable(c.rules)
  BY DEF Resolved, Formed, IsPolicy
<1>2. ASSUME asked.op \in {"add", "import"}, Acceptable(asked.rules)
      PROVE  Resolved([c EXCEPT !.rules = Import(c.rules, asked.rules)])
  <2> DEFINE imported == Import(c.rules, asked.rules)
  <2>1. IsRuleList(asked.rules)
    BY <1>2 DEF IsRequest
  <2>2. IsRuleList(imported)
    BY <1>1, <2>1, ImportKeys
  <2>3. \A j \in 1..Len(imported) :
           \/ \E i \in 1..Len(c.rules) : imported[j].strategy = c.rules[i].strategy
           \/ \E i \in 1..Len(asked.rules) : imported[j].strategy = asked.rules[i].strategy
    BY <1>1, <2>1, ImportKeys, SMTT(20)
  <2> HIDE DEF imported
  <2>4. ASSUME NEW j \in 1..Len(imported) PROVE imported[j].strategy \in KnownStrategies
    <3>1. /\ \A i \in 1..Len(c.rules) : c.rules[i].strategy \in KnownStrategies
          /\ \A i \in 1..Len(asked.rules) : asked.rules[i].strategy \in KnownStrategies
      BY <1>1, <1>2, <2>1, ListShape DEF Acceptable
    <3> QED BY <2>3, <3>1
  <2>5. Acceptable(imported)
    BY <2>2, <2>4, ListShape DEF Acceptable
  <2> QED BY <2>2, <2>5, EditResolves DEF imported
<1>3. ASSUME asked.op = "delete"
      PROVE  Resolved([c EXCEPT !.rules = Delete(c.rules, asked.table, asked.column)])
  <2> DEFINE rest == Delete(c.rules, asked.table, asked.column)
  <2>1. /\ IsRuleList(rest)
        /\ \A j \in 1..Len(rest) : \E i \in 1..Len(c.rules) : rest[j] = c.rules[i]
    BY <1>1, DeleteKeys
  <2> HIDE DEF rest
  <2>2. Acceptable(rest)
    BY <1>1, <2>1, ListShape DEF Acceptable
  <2> QED BY <2>1, <2>2, EditResolves DEF rest
<1>4. ASSUME asked.op = "update", asked.enabled # <<>>
      PROVE  Resolved([c EXCEPT !.enabled = Head(asked.enabled)])
  <2>1. asked.enabled \in {<<TRUE>>, <<FALSE>>}
    BY <1>4 DEF IsRequest
  <2>2. ASSUME NEW x PROVE Head(<<x>>) = x
    OBVIOUS
  <2>3. Head(asked.enabled) \in BOOLEAN
    BY <2>1, <2>2, Zenon
  <2> QED BY <2>3, EditResolves
<1> QED BY <1>2, <1>3, <1>4

-----------------------------------------------------------------------------
(* Shapes *)

\* AppState::new: a fresh process and the file it was started with.
LEMMA InitShapes ==
    Init => Shapes
<1> SUFFICES ASSUME Init PROVE Shapes
  OBVIOUS
<1>1. PICK c \in scene.files : content = [i \in Inodes |-> IF i = Original THEN c ELSE Torn]
  BY DEF Init, StoreInit
<1>2. scene \in Scenes
  BY DEF Init, StoreInit
<1>3. Formed(c)
  BY <1>2, SceneFormed
<1>4. QED
  BY <1>1, <1>2, <1>3 DEF Init, StoreInit, Shapes, Inodes, Editing

\* A handler that has been let in has been asked for something, and answers or clones
\* the policy in force with its edit.
LEMMA HandlerAsked ==
    ASSUME Shapes, NEW h \in Handlers, pc[h] = "admitted"
    PROVE  IsRequest(request[h])
BY ControlPlaneAssumption DEF Shapes

LEMMA HandlerClones ==
    ASSUME Shapes, NEW h \in Handlers, pc[h] = "admitted",
           AddRules(h) \/ DeleteRule(h) \/ UpdateConfig(h)
    PROVE  \/ \E reached \in {"rejected", "answered"} : Answer(h, reached)
           \/ \E c : Clone(h, c) /\ Resolved(c)
<1>1. IsRequest(request[h])
  BY HandlerAsked
<1>2. up => Resolved(live)
  BY DEF Shapes
<1>3. CASE AddRules(h)
  BY <1>1, <1>2, <1>3, EditIsPolicy DEF AddRules, Asked, Clone
<1>4. CASE DeleteRule(h)
  BY <1>1, <1>2, <1>4, EditIsPolicy DEF DeleteRule, Asked, Clone
<1>5. CASE UpdateConfig(h)
  BY <1>1, <1>2, <1>5, EditIsPolicy DEF UpdateConfig, Asked, Clone
<1> QED BY <1>3, <1>4, <1>5

\* What a step of one handler does to the store, seen from the outside.
LEMMA HandlerShapes ==
    ASSUME Shapes, NEW h \in Handlers,
           HandlerStep(h) \/ (request[h] # NoRequest /\ (Admit(h) \/ Refuse(h)))
    PROVE  Shapes'
<1> USE DEF Shapes
<1>1. CASE request[h] # NoRequest /\ (Admit(h) \/ Refuse(h))
  BY <1>1, SameScene DEF Admit, Refuse, GoTo, Editing, files, process, reloader
<1>2. CASE pc[h] = "admitted" /\ (AddRules(h) \/ DeleteRule(h) \/ UpdateConfig(h))
  <2>1. CASE \E reached \in {"rejected", "answered"} : Answer(h, reached)
    BY <1>2, <2>1, SameScene DEF Answer, GoTo, Editing, files, process, reloader
  <2>2. CASE \E c : Clone(h, c) /\ Resolved(c)
    BY <1>2, <2>2, SameScene DEF Clone, GoTo, Editing, files, process, reloader
  <2>3. QED
    BY <1>2, <2>1, <2>2, HandlerClones
<1>3. CASE OpenTmp(h)
  BY <1>3, SameScene DEF OpenTmp, GoTo, Editing, Inodes, process, reloader, Formed
<1>4. CASE WriteTmp(h)
  BY <1>4, SameScene DEF WriteTmp, GoTo, Editing, process, reloader, Formed, Resolved
<1>5. CASE Rename(h)
  BY <1>5, SameScene DEF Rename, AfterWrite, GoTo, Editing, process, reloader, Formed
<1>6. CASE PersistFails(h)
  BY <1>6, SameScene DEF PersistFails, AfterWrite, GoTo, Editing, files, process, reloader
<1>7. CASE Swap(h)
  BY <1>7, SameScene DEF Swap, GoTo, Editing, files, reloader
<1>8. CASE Disconnect(h)
  BY <1>8, SameScene DEF Disconnect, GoTo, Editing, files, process, reloader
<1>9. QED
  BY <1>1, <1>2, <1>3, <1>4, <1>5, <1>6, <1>7, <1>8 DEF HandlerStep

\* reload_config puts into force what it has loaded.
LEMMA ReloadShapes ==
    ASSUME Shapes, NEW r \in Reloaders, WatcherStep(r) \/ ApiReload(r)
    PROVE  Shapes'
<1> USE DEF Shapes
<1>1. CASE ApiReload(r) \/ ReloadOnEvent(r)
  <2>1. CASE UNCHANGED <<rpc, read>>
    BY <1>1, <2>1, SameScene DEF ApiReload, ReloadOnEvent, files, process, handlers
  <2>2. CASE /\ File # Torn
             /\ read' = [read EXCEPT ![r] = Loaded(File)]
             /\ rpc' = [rpc EXCEPT ![r] = "loaded"]
    <3>1. Resolved(Loaded(File))
      BY <2>2, LoadResolves DEF File
    <3>2. QED
      BY <1>1, <2>2, <3>1, SameScene DEF ApiReload, ReloadOnEvent, files, process, handlers
  <2>3. QED
    BY <1>1, <2>1, <2>2 DEF ApiReload, ReloadOnEvent, Load
<1>2. CASE SetKey(r)
  BY <1>2, SameScene DEF SetKey, files, handlers
<1>3. CASE SwapReloaded(r)
  BY <1>3, SameScene DEF SwapReloaded, files, handlers
<1>4. QED
  BY <1>1, <1>2, <1>3 DEF WatcherStep

\* A start loads the file, a crash and an operator leave no half-made value behind.
LEMMA ProcessShapes ==
    ASSUME Shapes, Boot \/ Exit \/ DropEvent \/ SecondPasses \/ \E c \in scene.edits : Save(c)
    PROVE  Shapes'
<1> USE DEF Shapes
<1>1. CASE Boot
  <2>1. Resolved(Loaded(File))
    BY <1>1, LoadResolves DEF File, Boot
  <2>2. QED
    BY <1>1, <2>1, SameScene DEF Boot, files, handlers, reloader
<1>2. CASE Exit
  BY <1>2, SameScene DEF Exit, files, InFlight, Editing
<1>3. CASE DropEvent \/ SecondPasses
  BY <1>3, SameScene DEF DropEvent, SecondPasses, files, process, handlers, reloader
<1>4. ASSUME NEW c \in scene.edits, Save(c) PROVE Shapes'
  BY <1>4, SceneFormed, SameScene DEF Save, process, handlers, reloader, Inodes, Formed
<1>5. QED
  BY <1>1, <1>2, <1>3, <1>4

\* The steps of the process as the store sees them.
LEMMA StoreMoves ==
    ASSUME [Next]_vars
    PROVE  \/ UNCHANGED store
           \/ \E h \in Handlers :
                 HandlerStep(h) \/ (request[h] # NoRequest /\ (Admit(h) \/ Refuse(h)))
           \/ \E r \in Reloaders : WatcherStep(r) \/ ApiReload(r)
           \/ Boot \/ Exit \/ DropEvent \/ SecondPasses
           \/ \E c \in scene.edits : Save(c)
<1>1. CASE \E h \in Handlers : Call(h) \/ Refuse(h)
  BY <1>1 DEF Call, Refuse
<1>2. CASE Start \/ OpenApi \/ OpenListener \/ GiveUp \/ Die
  BY <1>2 DEF Start, OpenApi, OpenListener, GiveUp, Die, Crash
<1>3. CASE (\E r \in Reloaders : Reload(r)) \/ Store
  BY <1>3 DEF Reload, Store, StoreStep
<1>4. CASE (\E connected \in BOOLEAN : Check(connected)) \/ Scan \/ AtRest \/ UNCHANGED vars
  BY <1>4 DEF Check, Scan, AtRest, vars
<1> QED BY <1>1, <1>2, <1>3, <1>4 DEF Next

\* Every step of the control plane keeps the shapes.
LEMMA StepShapes ==
    ASSUME Shapes, [Next]_vars
    PROVE  Shapes'
<1>1. CASE UNCHANGED store
  BY <1>1, SameScene DEF Shapes, store, files, process, handlers, reloader
<1>2. QED
  BY <1>1, StoreMoves, HandlerShapes, ReloadShapes, ProcessShapes

\* Every policy a process works with has the fields of a policy and thresholds that
\* are numbers, and has been given the environment's secret.
THEOREM PoliciesAreFormed == Spec => []Shapes
<1>1. QED
  BY InitShapes, StepShapes, PTL DEF Spec

-----------------------------------------------------------------------------
(* The policy file, until two commits write it at once *)

\* A step that only adds to the history takes nothing out of it.
LEMMA SameLoaded ==
    ASSUME scene' = scene, seen \subseteq seen'
    PROVE  \A c : FromSeen(c) => FromSeen(c)'
BY DEF FromSeen, Loaded

\* Before the first start nobody writes and the file holds its first policy.
LEMMA InitStoreInv ==
    Init => StoreInv
<1> SUFFICES ASSUME Init PROVE StoreInv
  OBVIOUS
<1>1. Shapes
  BY InitShapes
<1>2. Origins
  <2>1. PICK c \in scene.files : /\ content = [i \in Inodes |-> IF i = Original THEN c ELSE Torn]
                                /\ seen = {c}
    BY DEF Init, StoreInit
  <2>2. Formed(c)
    BY <2>1, SceneFormed DEF Init, StoreInit
  <2>3. QED
    BY <2>1, <2>2 DEF Init, StoreInit, Origins, Inodes
<1>3. OneWriter
  BY ConfigStoreAssumption DEF Init, StoreInit, OneWriter, At
<1>4. QED
  BY <1>1, <1>2, <1>3 DEF StoreInv

\* No handler opens <path>.tmp while another has it open, and each has left the inode of
\* its own name unused before that.
LEMMA HandlerOneWriter ==
    ASSUME StoreInv, TornIsNoPolicy, "write" \notin raced',
           NEW h \in Handlers, HandlerStep(h) \/ Admit(h) \/ Refuse(h)
    PROVE  OneWriter'
<1> USE DEF StoreInv, OneWriter
<1>1. CASE Admit(h)
  BY <1>1 DEF Admit, GoTo, At, files, Shapes
<1>2. CASE Refuse(h)
  BY <1>2 DEF Refuse, GoTo, At, files, Shapes
<1>3. CASE pc[h] = "admitted" /\ (AddRules(h) \/ DeleteRule(h) \/ UpdateConfig(h))
  <2>1. CASE \E reached \in {"rejected", "answered"} : Answer(h, reached)
    BY <1>3, <2>1 DEF Answer, GoTo, At, files, Shapes
  <2>2. CASE \E c : Clone(h, c)
    BY <1>3, <2>2 DEF Clone, GoTo, At, files, Shapes
  <2>3. QED
    BY <1>3, <2>1, <2>2 DEF AddRules, DeleteRule, UpdateConfig
<1>4. CASE OpenTmp(h)
  <2>1. \A g \in Handlers : pc[g] \notin {"opened", "written"}
    BY <1>4 DEF OpenTmp, Overtakes, At
  <2>2. tmp' \in Handlers /\ tmp' \in Inodes /\ tmp' # path /\ path' = path /\ tmp' # NoFile
    BY <1>4, ConfigStoreAssumption DEF OpenTmp, Inodes
  <2>3. content'[tmp'] = Torn /\ fd'[h] = tmp' /\ DOMAIN fd' = Handlers
    BY <1>4, <2>2 DEF OpenTmp, Shapes
  <2>4. pc' = [pc EXCEPT ![h] = "opened"]
    BY <1>4 DEF OpenTmp, GoTo
  <2>5. \A g \in Handlers \ {h} : pc[g] \in {"idle", "admitted", "cloned"} => g \notin {path', tmp'}
    BY <1>4 DEF OpenTmp
  <2>6. QED
    BY <2>1, <2>2, <2>3, <2>4, <2>5 DEF At, Shapes
<1>5. CASE WriteTmp(h)
  <2>1. \A g \in Handlers \ {h} : pc[g] \notin {"opened", "written"}
    BY <1>5 DEF WriteTmp, At
  <2>2. content' = [content EXCEPT ![tmp] = new[h]] /\ tmp # NoFile
    BY <1>5 DEF WriteTmp
  <2>3. QED
    BY <1>5, <2>1, <2>2 DEF WriteTmp, GoTo, At, Shapes
<1>6. CASE Rename(h)
  <2>1. \A g \in Handlers \ {h} : pc[g] \notin {"opened", "written"}
    BY <1>6 DEF Rename, At
  <2>2. \A g \in Handlers \ {h} : pc'[g] = pc[g] /\ g # NoFile
    BY <1>6, ConfigStoreAssumption DEF Rename, AfterWrite, GoTo
  <2>3. pc'[h] \in {"dropped", "renamed"}
    BY <1>6 DEF Rename, AfterWrite, GoTo, Shapes
  <2>4. /\ path' = tmp /\ tmp' = NoFile /\ tmp # NoFile
        /\ \A g \in Handlers : pc[g] \in {"idle", "admitted", "cloned"} => g # tmp
    BY <1>6 DEF Rename
  <2>5. QED
    BY <1>6, <2>1, <2>2, <2>3, <2>4 DEF Rename, At
<1>7. CASE PersistFails(h) \/ Swap(h)
  BY <1>7 DEF PersistFails, AfterWrite, Swap, GoTo, At, files, Shapes
<1>8. CASE Disconnect(h)
  BY <1>8 DEF Disconnect, GoTo, At, files, Shapes
<1>9. QED
  BY <1>1, <1>2, <1>3, <1>4, <1>5, <1>6, <1>7, <1>8 DEF HandlerStep

\* commit_config renames the temporary file only after it holds the whole policy.
LEMMA HandlerOrigins ==
    ASSUME StoreInv, TornIsNoPolicy,
           NEW h \in Handlers, HandlerStep(h) \/ Admit(h) \/ Refuse(h)
    PROVE  Origins'
<1> USE DEF StoreInv, Origins
<1>1. CASE UNCHANGED <<scene, content, path, up, live, rpc, read, seen>>
           /\ \A g \in Handlers : pc'[g] = "renamed" => pc[g] = "renamed" /\ new'[g] = new[g]
  BY <1>1, SameLoaded DEF Formed
<1>2. CASE Admit(h) \/ Refuse(h)
  BY <1>1, <1>2 DEF Admit, Refuse, GoTo, files, process, reloader, Shapes
<1>3. CASE pc[h] = "admitted" /\ (AddRules(h) \/ DeleteRule(h) \/ UpdateConfig(h))
  <2>1. CASE \E reached \in {"rejected", "answered"} : Answer(h, reached)
    BY <1>1, <2>1 DEF Answer, GoTo, files, process, reloader, Shapes
  <2>2. CASE \E c : Clone(h, c)
    BY <1>1, <2>2 DEF Clone, GoTo, files, process, reloader, Shapes
  <2>3. QED
    BY <1>3, <2>1, <2>2 DEF AddRules, DeleteRule, UpdateConfig
<1>4. CASE OpenTmp(h)
  <2>1. tmp' # path /\ content'[path] = content[path]
    BY <1>4, ConfigStoreAssumption DEF OpenTmp, OneWriter, Shapes
  <2>2. QED
    BY <1>4, <2>1, SameLoaded DEF OpenTmp, GoTo, process, reloader, Formed, Shapes
<1>5. CASE WriteTmp(h)
  <2>1. fd[h] # path /\ content'[path] = content[path] /\ seen' = seen
    BY <1>5 DEF WriteTmp, OneWriter, Shapes
  <2>2. QED
    BY <1>5, <2>1, SameLoaded DEF WriteTmp, GoTo, process, reloader, Formed, Shapes
<1>6. CASE Rename(h)
  <2>1. content[tmp] = new[h] /\ Formed(new[h]) /\ new[h] # Torn
    <3>1. content[tmp] = new[h] /\ Formed(new[h])
      BY <1>6 DEF Rename, OneWriter, Shapes, Resolved, Editing
    <3> QED BY <3>1 DEF Formed, IsPolicy, TornIsNoPolicy, PolicyFields
  <2>2. seen' = seen \cup {new[h]} /\ \A c \in seen : c # Torn
    BY <1>6, <2>1 DEF Rename, Formed, IsPolicy, TornIsNoPolicy, PolicyFields
  <2>3. content'[path'] \in seen' /\ \A c \in seen' : Formed(c)'
    BY <1>6, <2>1, <2>2 DEF Rename, Formed
  <2>4. \A g \in Handlers : pc'[g] = "renamed" => new'[g] \in seen'
    BY <1>6, <2>2 DEF Rename, AfterWrite, GoTo, Shapes
  <2>5. QED
    BY <1>6, <2>2, <2>3, <2>4, SameLoaded DEF Rename, process, reloader
<1>7. CASE PersistFails(h)
  BY <1>1, <1>7 DEF PersistFails, AfterWrite, GoTo, files, process, reloader, Shapes
<1>8. CASE Swap(h)
  <2>1. FromSeen(new[h])
    BY <1>8 DEF Swap, Shapes, Editing, Resolved, FromSeen
  <2>2. QED
    BY <1>8, <2>1, SameLoaded DEF Swap, GoTo, files, reloader, Formed, Shapes
<1>9. CASE Disconnect(h)
  BY <1>1, <1>9 DEF Disconnect, GoTo, files, process, reloader, Shapes
<1>10. QED
  BY <1>2, <1>3, <1>4, <1>5, <1>6, <1>7, <1>8, <1>9 DEF HandlerStep

\* reload_config loads what the file holds at that moment.
LEMMA ReloadOrigins ==
    ASSUME StoreInv, NEW r \in Reloaders, WatcherStep(r) \/ ApiReload(r)
    PROVE  Origins' /\ OneWriter'
<1>1. UNCHANGED <<scene, content, path, tmp, up, pc, fd, new, seen>>
  BY DEF WatcherStep, ApiReload, ReloadOnEvent, SetKey, SwapReloaded, files, process, handlers
<1>2. OneWriter'
  BY <1>1 DEF StoreInv, OneWriter, At
<1>3. up /\ (up => FromSeen(live)')
      /\ \A q \in Reloaders : rpc'[q] # "idle" => FromSeen(read'[q])
  <2>1. FromSeen(Loaded(File))
    BY DEF StoreInv, Origins, FromSeen, File
  <2>2. CASE ApiReload(r) \/ ReloadOnEvent(r)
    <3>1. FromSeen(Loaded(File))' /\ \A c : FromSeen(c) => FromSeen(c)'
      BY <1>1, <2>1, SameLoaded DEF File, FromSeen, Loaded
    <3>2. up /\ UNCHANGED live /\ Load(r)
      BY <2>2 DEF ApiReload, ReloadOnEvent, Load, process
    <3>3. \A q \in Reloaders : rpc'[q] # "idle" =>
             \/ rpc[q] # "idle" /\ read'[q] = read[q]
             \/ read'[q] = Loaded(File)
      BY <3>2 DEF Load, StoreInv, Shapes
    <3>4. QED
      BY <1>1, <2>1, <3>1, <3>2, <3>3 DEF StoreInv, Origins, FromSeen
  <2>3. CASE SetKey(r)
    BY <2>3 DEF SetKey, StoreInv, Origins, Shapes, FromSeen, Loaded
  <2>4. CASE SwapReloaded(r)
    BY <2>4 DEF SwapReloaded, StoreInv, Origins, Shapes, FromSeen, Loaded
  <2>5. QED
    BY <2>2, <2>3, <2>4 DEF WatcherStep
<1>4. QED
  BY <1>1, <1>2, <1>3, SameLoaded DEF StoreInv, Origins, Formed

\* A start loads the file, and an operator replaces it with a whole policy.
LEMMA ProcessOrigins ==
    ASSUME StoreInv, Boot \/ Exit \/ DropEvent \/ SecondPasses \/ \E c \in scene.edits : Save(c)
    PROVE  Origins' /\ OneWriter'
<1> USE DEF StoreInv
<1>1. CASE Boot
  <2>1. FromSeen(Loaded(File))
    BY DEF Origins, FromSeen, File
  <2>2. QED
    BY <1>1, <2>1, SameLoaded DEF Boot, Origins, OneWriter, At, files, handlers, reloader,
                                  Formed
<1>2. CASE Exit
  BY <1>2, SameLoaded DEF Exit, Origins, OneWriter, At, InFlight, files, Formed
<1>3. CASE DropEvent \/ SecondPasses
  BY <1>3, SameLoaded DEF DropEvent, SecondPasses, Origins, OneWriter, At, files,
                          process, handlers, reloader, Formed
<1>4. ASSUME NEW c \in scene.edits, Save(c) PROVE Origins' /\ OneWriter'
  <2>1. Edited \in Inodes /\ Edited \notin Handlers /\ Edited # tmp
    BY ConfigStoreAssumption DEF OneWriter, Inodes
  <2>2. content'[Edited] = c /\ (tmp # NoFile => content'[tmp] = content[tmp])
    BY <1>4, <2>1 DEF Save, Shapes
  <2>3. Origins'
    <3>1. Formed(c)
      BY SceneFormed DEF Shapes
    <3>2. QED
      BY <1>4, <2>2, <3>1, SameLoaded DEF Save, Origins, process, handlers, reloader, Formed
  <2>4. OneWriter'
    BY <1>4, <2>1, <2>2 DEF Save, OneWriter, At, handlers
  <2>5. QED
    BY <2>3, <2>4
<1>5. QED
  BY <1>1, <1>2, <1>3, <1>4

\* What has once been overtaken stays so.
LEMMA RacedGrows ==
    ASSUME [Next]_vars
    PROVE  raced \subseteq raced'
BY StoreMoves DEF store, HandlerStep, AddRules, DeleteRule, UpdateConfig, Answer, Clone,
                  OpenTmp,
   WriteTmp, Rename, PersistFails, Swap, Disconnect, Admit, Refuse, WatcherStep, ApiReload,
   ReloadOnEvent, SetKey, SwapReloaded, Boot, Exit, DropEvent, SecondPasses, Save, Overtakes

\* Every step keeps the file's invariant, but for the one that opens <path>.tmp too soon.
LEMMA StepStoreInv ==
    ASSUME StoreInv, TornIsNoPolicy, "write" \notin raced', [Next]_vars
    PROVE  StoreInv'
<1>1. Shapes'
  BY StepShapes DEF StoreInv
<1>2. CASE UNCHANGED store
  <2>1. Origins' /\ OneWriter'
    BY <1>2, SameLoaded DEF StoreInv, Origins, OneWriter, At, store, files, process,
                            handlers, reloader, Formed
  <2>2. QED
    BY <1>1, <2>1 DEF StoreInv
<1>3. QED
  BY <1>1, <1>2, StoreMoves, HandlerOneWriter, HandlerOrigins, ReloadOrigins, ProcessOrigins
  DEF StoreInv

LEMMA StepDiskInv ==
    ASSUME DiskInv, TornIsNoPolicy, [Next]_vars
    PROVE  DiskInv'
<1>1. Shapes'
  BY StepShapes DEF DiskInv
<1>2. "write" \notin raced' => StoreInv'
  BY RacedGrows, StepStoreInv DEF DiskInv
<1> QED BY <1>1, <1>2 DEF DiskInv

LEMMA InitDiskInv ==
    Init => DiskInv
BY InitStoreInv DEF DiskInv, StoreInv

\* "Atomically persist a new config" (commit_config): proxy.yaml always loads and the policy
\* in force is one it has held, however many clients, reloads, saves, disk errors, lost
\* requests and crashes there are, until one commit opens <path>.tmp while another has it
\* open.
THEOREM PolicyStaysOnDisk ==
    ASSUME TornIsNoPolicy
    PROVE  Spec => []PolicyOnDisk
<1>1. DiskInv => PolicyOnDisk
  BY DEF DiskInv, StoreInv, Origins, PolicyOnDisk, FileLoads, PublishedWasSaved, File, FromSeen,
         Formed, IsPolicy, TornIsNoPolicy, PolicyFields
<1>2. DiskInv /\ [Next]_vars => DiskInv'
  BY StepDiskInv
<1>3. QED
  BY <1>1, <1>2, InitDiskInv, PTL DEF Spec

-----------------------------------------------------------------------------
(* Who gets to the handlers *)

\* The history only grows, and has no torn file in it.
LEMMA SeenGrows ==
    ASSUME ApiSeen, [Next]_vars
    PROVE  seen \subseteq seen' /\ request' = request
<1>1. request' = request /\ seen \ {Torn} \subseteq seen'
  BY StoreMoves DEF store, handlers, HandlerStep, AddRules, DeleteRule, UpdateConfig, Answer,
     Clone, OpenTmp, WriteTmp, Rename, PersistFails, Swap, Disconnect, Admit, Refuse,
     WatcherStep, ApiReload, ReloadOnEvent, SetKey, SwapReloaded, Boot, Exit, DropEvent,
     SecondPasses, Save
<1> QED BY <1>1 DEF ApiSeen

LEMMA AskedStays ==
    ASSUME seen \subseteq seen'
    PROVE  \A c : AsksAsSeen(c) => AsksAsSeen(c)'
BY DEF AsksAsSeen

\* AppConfig::load and the edits of the handlers leave the API's credentials alone.
LEMMA LoadAsks ==
    ASSUME Shapes, ApiSeen, File # Torn
    PROVE  AsksAsSeen(Loaded(File))
<1>1. Formed(File) /\ AsksAsSeen(File)
  BY DEF Shapes, ApiSeen, File
<1>2. Loaded(File).api = File.api
  BY <1>1 DEF Loaded, Formed, IsPolicy
<1> QED BY <1>1, <1>2 DEF AsksAsSeen

LEMMA HandlerAsks ==
    ASSUME Shapes, ApiSeen, seen \subseteq seen', NEW h \in Handlers,
           HandlerStep(h) \/ Admit(h) \/ Refuse(h)
    PROVE  ApiSeen'
<1> USE AskedStays DEF ApiSeen
<1>1. CASE Admit(h) \/ Refuse(h)
  BY <1>1 DEF Admit, Refuse, GoTo, Editing, Shapes, files, process, reloader
<1>2. CASE pc[h] = "admitted" /\ (AddRules(h) \/ DeleteRule(h) \/ UpdateConfig(h))
  <2>1. CASE \E reached \in {"rejected", "answered"} : Answer(h, reached)
    BY <2>1 DEF Answer, GoTo, Editing, Shapes, files, process, reloader
  <2>2. ASSUME NEW c, Clone(h, c), c.api = live.api PROVE ApiSeen'
    <3>1. AsksAsSeen(c)
      BY <2>2 DEF Clone, AsksAsSeen
    <3> QED BY <2>2, <3>1 DEF Clone, GoTo, Editing, Shapes, files, process, reloader
  <2>3. up => \A v : [live EXCEPT !.rules = v].api = live.api /\ [live EXCEPT !.enabled = v].api = live.api
    BY DEF Shapes, Resolved, Formed, IsPolicy
  <2> QED BY <1>2, <2>1, <2>2, <2>3 DEF AddRules, DeleteRule, UpdateConfig, Clone
<1>3. CASE OpenTmp(h)
  BY <1>3 DEF OpenTmp, GoTo, Editing, Shapes, process, reloader
<1>4. CASE WriteTmp(h)
  <2>1. PICK result \in {new[h], Torn} : /\ content' = [content EXCEPT ![fd[h]] = result]
                                         /\ seen' = IF fd[h] = path THEN (seen \cup {result}) \ {Torn}
                                                                    ELSE seen
    BY <1>4 DEF WriteTmp
  <2>2. AsksAsSeen(new[h])
    BY <1>4 DEF WriteTmp, Editing
  <2> QED BY <1>4, <2>1, <2>2 DEF WriteTmp, GoTo, Editing, Shapes, process, reloader
<1>5. CASE Rename(h)
  BY <1>5 DEF Rename, AfterWrite, GoTo, Editing, Shapes, process, reloader
<1>6. CASE PersistFails(h)
  BY <1>6 DEF PersistFails, AfterWrite, GoTo, Editing, Shapes, files, process, reloader
<1>7. CASE Swap(h)
  BY <1>7 DEF Swap, GoTo, Editing, Shapes, files, reloader
<1>8. CASE Disconnect(h)
  BY <1>8 DEF Disconnect, GoTo, Editing, Shapes, files, process, reloader
<1> QED BY <1>1, <1>2, <1>3, <1>4, <1>5, <1>6, <1>7, <1>8 DEF HandlerStep

LEMMA StepAsks ==
    ASSUME Shapes, ApiSeen, [Next]_vars
    PROVE  ApiSeen'
<1>1. seen \subseteq seen' /\ \A c : AsksAsSeen(c) => AsksAsSeen(c)'
  BY SeenGrows, AskedStays
<1>2. CASE UNCHANGED store
  BY <1>1, <1>2 DEF ApiSeen, store, files, process, handlers, reloader
<1>3. ASSUME NEW r \in Reloaders, WatcherStep(r) \/ ApiReload(r) PROVE ApiSeen'
  <2>1. CASE Load(r) /\ UNCHANGED <<files, process, handlers, seen>>
    BY <1>1, <2>1, LoadAsks DEF ApiSeen, Load, Shapes, files, process, handlers
  <2>2. CASE SetKey(r) \/ SwapReloaded(r)
    BY <1>1, <2>2 DEF ApiSeen, SetKey, SwapReloaded, Shapes, files, handlers
  <2> QED BY <1>3, <2>1, <2>2 DEF WatcherStep, ApiReload, ReloadOnEvent
<1>4. CASE Boot
  BY <1>1, <1>4, LoadAsks DEF ApiSeen, Boot, files, handlers, reloader
<1>5. CASE Exit
  BY <1>1, <1>5 DEF ApiSeen, Exit, Editing, InFlight, files
<1>6. CASE DropEvent \/ SecondPasses
  BY <1>1, <1>6 DEF ApiSeen, DropEvent, SecondPasses, files, process, handlers, reloader
<1>7. ASSUME NEW c \in scene.edits, Save(c) PROVE ApiSeen'
  <2>1. c # Torn /\ Edited \in Inodes
    BY SceneFormed DEF Shapes, Inodes
  <2> QED BY <1>1, <1>7, <2>1 DEF ApiSeen, AsksAsSeen, Save, Shapes, process, handlers, reloader
<1> QED BY <1>1, <1>2, <1>3, <1>4, <1>5, <1>6, <1>7, StoreMoves, HandlerAsks

LEMMA InitAsks ==
    Init => ApiSeen
<1> SUFFICES ASSUME Init PROVE ApiSeen
  OBVIOUS
<1>1. PICK c \in scene.files : /\ content = [i \in Inodes |-> IF i = Original THEN c ELSE Torn]
                              /\ seen = {c}
  BY DEF Init, StoreInit
<1>2. c # Torn
  BY <1>1, SceneFormed DEF Init, StoreInit
<1> QED BY <1>1, <1>2 DEF Init, StoreInit, ApiSeen, AsksAsSeen, Editing

\* The only way to a handler is through api_auth.
LEMMA HandledByCall ==
    ASSUME Shapes, [Next]_vars, NEW h \in Handlers
    PROVE  /\ Handled(h)' => Handled(h) \/ Call(h)
           /\ h \in InFlight' => h \in InFlight \/ Call(h)
<1>1. \A g \in Handlers : HandlerStep(g) =>
         g \in InFlight /\ \A k \in Handlers \ {g} : pc'[k] = pc[k]
  BY DEF HandlerStep, AddRules, DeleteRule, UpdateConfig, Answer, Clone, OpenTmp, WriteTmp,
     Rename, PersistFails, Swap, Disconnect, AfterWrite, GoTo, InFlight, Shapes
<1>2. UNCHANGED pc \/ Exit \/ \E g \in Handlers : HandlerStep(g) \/ Call(g) \/ Refuse(g)
  BY DEF Next, vars, store, handlers, Start, OpenApi, OpenListener, GiveUp, Die, Crash, Reload,
     Store, StoreStep, Check, Scan, AtRest, WatcherStep, ApiReload, ReloadOnEvent, SetKey,
     SwapReloaded, Boot, DropEvent, SecondPasses, Save
<1>3. CASE UNCHANGED pc
  BY <1>3 DEF Handled, InFlight
<1>4. CASE Exit
  BY <1>4 DEF Exit, Handled, InFlight
<1>5. ASSUME NEW g \in Handlers, HandlerStep(g) \/ Call(g) \/ Refuse(g)
      PROVE  \/ pc'[h] = pc[h] 
             \/ g = h /\ (h \in InFlight \/ Call(h) \/ pc'[h] = "refused")
  BY <1>1, <1>5 DEF Call, Admit, Refuse, GoTo, Shapes
<1>6. ASSUME NEW g \in Handlers, HandlerStep(g) \/ Call(g) \/ Refuse(g)
      PROVE  /\ Handled(h)' => Handled(h) \/ Call(h)
             /\ h \in InFlight' => h \in InFlight \/ Call(h)
  BY <1>5, <1>6 DEF Handled, InFlight
<1> QED BY <1>2, <1>3, <1>4, <1>6

\* api_auth lets a caller without a right credential pass only if the live policy asks
\* for none, and that was the file's: the first part of StrangersKeptOut.
THEOREM StrangersNeedAnOpenPolicy ==
    Spec => []StrangersHandled
<1>1. Init => StrangersHandled
  BY DEF Init, StoreInit, StrangersHandled, Handled
<1>2. Shapes /\ ApiSeen /\ StrangersHandled /\ [Next]_vars => StrangersHandled'
  <2> SUFFICES ASSUME Shapes, ApiSeen, StrangersHandled, [Next]_vars PROVE StrangersHandled'
    OBVIOUS
  <2>1. ASSUME NEW h \in Handlers, Call(h), Stranger(Caller(h))
        PROVE  \E c \in seen : c.api = {}
    <3>1. live.api = {} /\ up
      BY <2>1 DEF Call, Admit, Allows, Stranger
    <3> QED BY <3>1 DEF ApiSeen, AsksAsSeen
  <2> QED BY <2>1, SeenGrows, HandledByCall DEF StrangersHandled, Caller
<1>3. Shapes /\ ApiSeen /\ [Next]_vars => Shapes' /\ ApiSeen'
  BY StepShapes, StepAsks
<1> QED BY <1>1, <1>2, <1>3, InitShapes, InitAsks, PTL DEF Spec

\* What the process has been started with stays as it is while it runs, and what a caller
\* from the network needs was there when the listener opened.
FromNetwork(h) == Stranger(Caller(h)) /\ Caller(h).from = "network"
AccessInv ==
    /\ ~up => api = "off" /\ ~listening /\ InFlight = {}
    /\ api = "everywhere" => /\ Told(launch, booted, "apiBind") = "everywhere"
                             /\ \E c \in seen : c.api # {}
    /\ \A h \in Handlers : h \in InFlight /\ FromNetwork(h) => api = "everywhere"
    /\ listening => AuthComplete(launch, booted)

\* The first source that gives a setting decides.
LEMMA FirstDecides ==
    ASSUME NEW a, NEW b, NEW c, NEW s, NEW default
    PROVE  LET sources == <<a, b, c>>
           IN \/ Resolve(sources, s, default) = default
              \/ \E i \in DOMAIN sources :
                    /\ s \in DOMAIN sources[i]
                    /\ sources[i][s] = Resolve(sources, s, default)
                    /\ \A j \in 1..(i - 1) : s \notin DOMAIN sources[j]
<1> DEFINE sources == <<a, b, c>>
           giving  == {i \in DOMAIN sources : s \in DOMAIN sources[i]}
<1>1. DOMAIN sources = 1..3
  OBVIOUS
<1>2. CASE giving = {}
  BY <1>2 DEF Resolve
<1>3. CASE giving # {}
  <2> HIDE DEF sources
  <2>1. \E m \in giving : \A i \in giving : m <= i
    <3>1. giving \subseteq 1..3
      BY <1>1
    <3> HIDE DEF giving
    <3>2. CASE 1 \in giving
      BY <3>1, <3>2
    <3>3. CASE 1 \notin giving /\ 2 \in giving
      BY <3>1, <3>3
    <3>4. CASE 1 \notin giving /\ 2 \notin giving
      <4>1. PICK i \in giving : TRUE
        BY <1>3
      <4>2. \A k \in giving : k \in 1..3 /\ k # 1 /\ k # 2
        BY <3>1, <3>4
      <4>3. \A k \in giving : k = 3
        BY <4>2
      <4> QED BY <4>1, <4>3
    <3> QED BY <3>2, <3>3, <3>4
  <2>2. PICK m \in giving : m = Min(giving) /\ \A i \in giving : m <= i
    <3>1. Min(giving) \in giving /\ \A i \in giving : Min(giving) <= i
      BY <2>1 DEF Min
    <3> QED BY <3>1
  <2>3. Resolve(sources, s, default) = sources[m][s]
    BY <1>3, <2>2 DEF Resolve
  <2>4. m \in 1..3 /\ s \in DOMAIN sources[m]
    BY <1>1, <2>2
  <2>5. ASSUME NEW j \in 1..(m - 1) PROVE s \notin DOMAIN sources[j]
    <3>1. j \in 1..3 /\ ~(m <= j)
      BY <2>4
    <3> QED BY <1>1, <2>2, <3>1
  <2> QED BY <1>1, <2>3, <2>4, <2>5 DEF sources
<1> QED BY <1>2, <1>3

\* The steps of the process as its start sees them.
LEMMA LaunchMoves ==
    ASSUME [Next]_vars
    PROVE  \/ UNCHANGED <<launched, up>>
           \/ Boot /\ Launched(Loaded(File)) /\ UNCHANGED pc
           \/ up /\ ApiListens(live) /\ UNCHANGED <<pc, up>>
           \/ up /\ Listen /\ UNCHANGED <<pc, up>>
           \/ Exit /\ Gone(NoFile)
<1> USE DEF store, process, handlers, launched
<1>1. CASE \E h \in Handlers : HandlerStep(h) /\ UNCHANGED others
  BY <1>1 DEF HandlerStep, AddRules, DeleteRule, UpdateConfig, Answer, Clone, OpenTmp, WriteTmp,
     Rename, PersistFails, Swap, Disconnect, others
<1>2. CASE \E h \in Handlers : Call(h) \/ Refuse(h)
  BY <1>2 DEF Call, Admit, Refuse
<1>3. CASE Store /\ ~\E h \in Handlers : HandlerStep(h)
  BY <1>3 DEF Store, StoreStep, others, WatcherStep, ReloadOnEvent, SetKey, SwapReloaded,
     DropEvent, SecondPasses, Save
<1>4. CASE \E r \in Reloaders : Reload(r)
  BY <1>4 DEF Reload, ApiReload
<1>5. CASE Start
  BY <1>5 DEF Start, Boot
<1>6. CASE OpenApi \/ OpenListener
  BY <1>6 DEF OpenApi, OpenListener
<1>7. CASE GiveUp \/ Die
  BY <1>7 DEF GiveUp, Die, Dies, Crash
<1>8. CASE Scan \/ \E connected \in BOOLEAN : Check(connected)
  BY <1>8 DEF Scan, Check
<1>9. CASE AtRest \/ UNCHANGED vars
  BY <1>9 DEF AtRest, vars
<1> QED BY <1>1, <1>2, <1>3, <1>4, <1>5, <1>6, <1>7, <1>8, <1>9 DEF Next, Store, StoreStep

\* The listener opens when the setting says so and somebody has set credentials.
LEMMA AccessStep ==
    ASSUME Shapes, ApiSeen, AccessInv, [Next]_vars
    PROVE  AccessInv'
<1>1. /\ \A c \in seen : c \in seen'
      /\ \A h \in Handlers : FromNetwork(h)' <=> FromNetwork(h)
  BY SeenGrows DEF FromNetwork, Caller
<1>2. CASE UNCHANGED <<launched, up>>
  <2>1. UNCHANGED <<launch, booted, api, listening, up>>
    BY <1>2 DEF launched
  <2>2. \A h \in Handlers : h \in InFlight' => up /\ (FromNetwork(h) => api = "everywhere")
    BY HandledByCall DEF AccessInv, Call, Admit, Reaches, FromNetwork
  <2>3. InFlight' \subseteq Handlers
    BY DEF InFlight
  <2> QED BY <1>1, <2>1, <2>2, <2>3 DEF AccessInv
<1>3. CASE Boot /\ Launched(Loaded(File)) /\ UNCHANGED pc
  <2>1. InFlight' = {} /\ up' /\ ~listening' /\ api' \in {"starting", "off"}
    BY <1>3 DEF AccessInv, Boot, Launched, InFlight
  <2> QED BY <2>1 DEF AccessInv
<1>4. CASE up /\ ApiListens(live) /\ UNCHANGED <<pc, up>>
  <2>1. InFlight' = InFlight /\ up' /\ UNCHANGED <<launch, booted, listening>>
    BY <1>4 DEF ApiListens, InFlight
  <2>2. api' = "everywhere" => /\ Told(launch, booted, "apiBind") = "everywhere"
                               /\ \E c \in seen : c.api # {}
    BY <1>4 DEF ApiListens, MayListen, HasCredentials, ApiSeen, AsksAsSeen
  <2>3. \A h \in InFlight : ~FromNetwork(h)
    BY <1>4 DEF AccessInv, ApiListens, InFlight
  <2> QED BY <1>1, <2>1, <2>2, <2>3 DEF AccessInv
<1>5. CASE up /\ Listen /\ UNCHANGED <<pc, up>>
  <2>1. InFlight' = InFlight /\ up' /\ UNCHANGED <<launch, booted, api>>
    BY <1>5 DEF Listen, InFlight
  <2>2. AuthComplete(launch, booted)
    BY <1>5 DEF Listen
  <2> QED BY <1>1, <1>5, <2>1, <2>2 DEF AccessInv
<1>6. CASE Exit /\ Gone(NoFile)
  BY <1>6 DEF AccessInv, Exit, Gone, InFlight
<1> QED BY <1>2, <1>3, <1>4, <1>5, <1>6, LaunchMoves

\* "It may only be reachable beyond loopback when credentials are configured", "CLI > env
\* > config file > default": who is handled and from where, and that the proxy listens only
\* with what it needs to ask its clients.
THEOREM StrangersStayOut ==
    Spec => []StrangersKeptOut
<1>1. Init => AccessInv
  BY DEF Init, StoreInit, LaunchInit, AccessInv, InFlight
<1>2. Shapes /\ ApiSeen /\ AccessInv /\ [Next]_vars => Shapes' /\ ApiSeen' /\ AccessInv'
  BY StepShapes, StepAsks, AccessStep
<1>3. StrangersHandled /\ AccessInv => StrangersKeptOut
  <2> SUFFICES ASSUME StrangersHandled, AccessInv PROVE StrangersKeptOut
    OBVIOUS
  <2>1. ASSUME NEW h \in InFlight, FromNetwork(h)
        PROVE  Explicit("apiBind", "everywhere") /\ \E c \in seen : c.api # {}
    <3>1. Told(launch, booted, "apiBind") = "everywhere" /\ \E c \in seen : c.api # {}
      BY <2>1 DEF AccessInv, InFlight
    <3>2. Default["apiBind"] = "loopback"
      BY DEF Default, ListenSettings
    <3> QED BY <3>1, <3>2, FirstDecides DEF Told, Explicit
  <2>2. ASSUME listening, booted.auth # Passthrough
        PROVE  /\ launch.protocol = "mysql"
               /\ \E source \in {launch.env, booted.auth.files, booted.auth.inline} :
                     "clientPassword" \in DOMAIN source /\ source["clientPassword"] \in Given
    <3> DEFINE sources == <<launch.env, booted.auth.files, booted.auth.inline>>
    <3>1. /\ launch.protocol = "mysql"
          /\ Resolve(sources, "clientPassword", Absent) \in Given
      BY <2>2 DEF AccessInv, AuthComplete, Secret
    <3>2. PICK i \in DOMAIN sources :
             "clientPassword" \in DOMAIN sources[i] /\ sources[i]["clientPassword"] \in Given
      BY <3>1, FirstDecides, LaunchAssumption
    <3>3. sources[i] \in {launch.env, booted.auth.files, booted.auth.inline}
      OBVIOUS
    <3> QED BY <3>1, <3>2, <3>3
  <2> QED BY <2>1, <2>2 DEF StrangersKeptOut, FromNetwork, InFlight
<1> QED BY <1>1, <1>2, <1>3, InitShapes, InitAsks, StrangersNeedAnOpenPolicy, PTL DEF Spec

-----------------------------------------------------------------------------
(* At rest: the live policy, the file and the masking key *)

\* Everything a handler may do, and what it leaves alone.
LEMMA SceneStays ==
    ASSUME [Next]_vars
    PROVE  scene' = scene /\ request' = request /\ detached \subseteq detached'
BY StoreMoves DEF store, handlers, HandlerStep, AddRules, DeleteRule, UpdateConfig, Answer,
   Clone, OpenTmp, WriteTmp, Rename, PersistFails, Swap, Disconnect, Admit, Refuse,
   WatcherStep, ApiReload, ReloadOnEvent, SetKey, SwapReloaded, Boot, Exit, DropEvent,
   SecondPasses, Save

\* A step of a handler edits a policy, puts it in the file or in force, or does neither.
Calm(h) ==
    /\ live' = live /\ File' = File /\ key' = key
    /\ pc'[h] \in Editing => pc[h] \in Editing /\ new'[h] = new[h]
    /\ pc'[h] = "renamed" => pc[h] = "renamed"
    /\ pc[h] = "renamed" /\ detached' = {} => pc'[h] = "renamed"
    /\ pc'[h] = "acked" => pc[h] = "acked"
    /\ pc[h] # "idle" => pc'[h] # "idle"
LEMMA HandlerCases ==
    ASSUME StoreInv, NEW h \in Handlers, HandlerStep(h) \/ Admit(h) \/ Refuse(h)
    PROVE  /\ up /\ up' /\ UNCHANGED <<rpc, read, saves>>
           /\ \A g \in Handlers \ {h} : pc'[g] = pc[g] /\ new'[g] = new[g]
           /\ \/ Calm(h)
              \/ pc[h] = "admitted" /\ \E c : Clone(h, c)
              \/ Rename(h)
              \/ Swap(h)
<1>1. /\ up /\ up' /\ UNCHANGED <<rpc, read, saves>>
      /\ \A g \in Handlers \ {h} : pc'[g] = pc[g] /\ new'[g] = new[g]
  BY DEF Admit, Refuse, HandlerStep, AddRules, DeleteRule, UpdateConfig, Answer, Clone, OpenTmp,
     WriteTmp, Rename, PersistFails, Swap, Disconnect, process, reloader, AfterWrite, GoTo, StoreInv,
     Shapes
<1>2. DOMAIN pc = Handlers /\ DOMAIN new = Handlers
  BY DEF StoreInv, Shapes
<1> USE DEF Calm, GoTo
<1>3. CASE Admit(h)
  BY <1>1, <1>2, <1>3 DEF Admit, files, process, File, Editing
<1>4. CASE Refuse(h)
  BY <1>1, <1>2, <1>4 DEF Refuse, files, process, File, Editing
<1>5. CASE pc[h] = "admitted" /\ (AddRules(h) \/ DeleteRule(h) \/ UpdateConfig(h))
  <2>1. ASSUME NEW reached \in {"rejected", "answered"}, Answer(h, reached) PROVE Calm(h)
    BY <1>1, <1>2, <1>5, <2>1 DEF Answer, files, process, File, Editing
  <2>2. ASSUME NEW c, Clone(h, c) PROVE pc[h] = "admitted" /\ \E d : Clone(h, d)
    BY <1>5, <2>2
  <2> HIDE DEF Calm
  <2> QED BY <1>1, <1>5, <2>1, <2>2 DEF AddRules, DeleteRule, UpdateConfig
<1>6. CASE OpenTmp(h)
  <2>1. tmp' # path /\ tmp' \in Inodes
    BY <1>6, ConfigStoreAssumption DEF OpenTmp, StoreInv, Shapes, OneWriter, Inodes
  <2>2. File' = File
    BY <1>6, <2>1 DEF OpenTmp, File
  <2> QED BY <1>1, <1>2, <1>6, <2>2 DEF OpenTmp, process, Editing
<1>7. CASE WriteTmp(h)
  <2>1. fd[h] # path
    BY <1>7 DEF WriteTmp, StoreInv, OneWriter
  <2>2. File' = File
    BY <1>7, <2>1 DEF WriteTmp, File
  <2> QED BY <1>1, <1>2, <1>7, <2>2 DEF WriteTmp, process, Editing
<1>8. CASE PersistFails(h)
  BY <1>1, <1>2, <1>8 DEF PersistFails, AfterWrite, files, process, File, Editing
<1>9. CASE Disconnect(h)
  BY <1>1, <1>2, <1>9 DEF Disconnect, files, process, InFlight, File, Editing
<1> HIDE DEF Calm, GoTo
<1> QED BY <1>1, <1>3, <1>4, <1>5, <1>6, <1>7, <1>8, <1>9 DEF HandlerStep

\* A commit that nobody is beside puts its own policy into the file.
LEMMA RenameAlone ==
    ASSUME StoreInv, raced' = {}, NEW h \in Handlers, Rename(h)
    PROVE  /\ File' = new[h] /\ pc[h] = "written"
           /\ UNCHANGED <<live, key, new>>
           /\ pc'[h] \in {"renamed", "dropped"} /\ (h \notin detached => pc'[h] = "renamed")
           /\ detached' = detached
           /\ \A g \in Handlers \ {h} : pc[g] \notin Editing
           /\ \A r \in Reloaders : rpc[r] = "idle"
<1>1. (At(Editing) \ {h}) \cup Reloading = {}
  BY DEF Rename, Overtakes
<1>2. File' = new[h]
  BY DEF Rename, File, StoreInv, OneWriter
<1> QED BY <1>1, <1>2 DEF Rename, At, Reloading, AfterWrite, GoTo, process, StoreInv, Shapes

\* What a reload leaves alone.
LEMMA ReloadLeaves ==
    ASSUME NEW r \in Reloaders, WatcherStep(r) \/ ApiReload(r)
    PROVE  UNCHANGED <<content, path, up, pc, new, detached, saves>> /\ File' = File /\ up
BY DEF WatcherStep, ApiReload, ReloadOnEvent, Load, SetKey, SwapReloaded, files, process,
       handlers,
   File

\* reload_config takes what is in the file into memory, and then in force.
LEMMA ReloadCases ==
    ASSUME StoreInv, Alone, NEW r \in Reloaders, WatcherStep(r) \/ ApiReload(r)
    PROVE  /\ live' = live \/ live' = Loaded(File)
           /\ \A q \in Reloaders : rpc'[q] # "idle" => read'[q] = Loaded(File)
<1> USE DEF StoreInv, Shapes, Alone
<1>1. CASE ApiReload(r) \/ ReloadOnEvent(r)
  BY <1>1 DEF ApiReload, ReloadOnEvent, Load, process
<1>2. CASE SetKey(r)
  BY <1>2 DEF SetKey
<1>3. CASE SwapReloaded(r)
  BY <1>3 DEF SwapReloaded
<1> QED BY <1>1, <1>2, <1>3 DEF WatcherStep

LEMMA AloneStep ==
    ASSUME StoreInv, Alone, raced' = {}, [Next]_vars
    PROVE  Alone'
<1>1. scene' = scene /\ \A c : Loaded(c)' = Loaded(c)
  BY SceneStays, SameScene
<1>2. CASE UNCHANGED store
  BY <1>1, <1>2 DEF Alone, File, store, files, process, handlers, reloader
<1>3. ASSUME NEW h \in Handlers, HandlerStep(h) \/ Admit(h) \/ Refuse(h) PROVE Alone'
  <2>1. /\ up /\ up' /\ UNCHANGED <<rpc, read>>
        /\ \A g \in Handlers \ {h} : pc'[g] = pc[g] /\ new'[g] = new[g]
    BY <1>3, HandlerCases
  <2>2. CASE Calm(h)
    BY <1>1, <2>1, <2>2 DEF Alone, Calm, Editing
  <2>3. CASE pc[h] = "admitted" /\ \E c : Clone(h, c)
    <3>1. \A g \in Handlers : pc[g] # "renamed"
      BY <2>3 DEF Clone, Overtakes, At
    <3>2. pc'[h] = "cloned" /\ File' = File
      BY <2>3 DEF Clone, GoTo, files, File, StoreInv, Shapes
    <3> QED BY <1>1, <2>1, <3>1, <3>2 DEF Alone
  <2>4. CASE Rename(h)
    BY <1>1, <2>1, <2>4, RenameAlone DEF Alone, Editing
  <2>5. CASE Swap(h)
    <3>1. pc[h] = "renamed" /\ pc'[h] = "acked" /\ File' = File
      BY <2>5 DEF Swap, GoTo, files, File, StoreInv, Shapes
    <3> QED BY <1>1, <2>1, <3>1 DEF Alone, Editing
  <2> QED BY <1>3, <2>2, <2>3, <2>4, <2>5, HandlerCases
<1>4. ASSUME NEW r \in Reloaders, WatcherStep(r) \/ ApiReload(r) PROVE Alone'
  BY <1>1, <1>4, ReloadLeaves, ReloadCases DEF Alone
<1>5. CASE Boot
  BY <1>1, <1>5 DEF Boot, Alone, File, files, handlers, reloader, Editing
<1>6. CASE Exit
  BY <1>6 DEF Exit, Alone, InFlight, Editing
<1>7. CASE DropEvent \/ SecondPasses
  BY <1>1, <1>7 DEF DropEvent, SecondPasses, Alone, File, files, process, handlers, reloader
<1>8. ASSUME NEW c \in scene.edits, Save(c) PROVE Alone'
  <2>1. At(Editing) \cup Reloading = {}
    BY <1>8 DEF Save, Overtakes
  <2> QED BY <1>8, <2>1 DEF Save, Alone, At, Reloading, process, handlers, reloader, Editing
<1> QED BY <1>2, <1>3, <1>4, <1>5, <1>6, <1>7, <1>8, StoreMoves

\* None of the edits changes the secret, and a reload sets the key before it puts the secret
\* in force.
LEMMA KeyStep ==
    ASSUME StoreInv, Alone, KeyFollows, raced' = {}, [Next]_vars
    PROVE  KeyFollows'
<1>1. scene' = scene /\ \A c : Loaded(c)' = Loaded(c)
  BY SceneStays, SameScene
<1> DEFINE Setting == \E r \in Reloaders : rpc[r] = "keyed"
<1>2. CASE UNCHANGED store
  BY <1>1, <1>2 DEF KeyFollows, Keyed, File, store, files, process, handlers, reloader
<1>3. ASSUME NEW h \in Handlers, HandlerStep(h) \/ Admit(h) \/ Refuse(h) PROVE KeyFollows'
  <2>1. /\ up /\ up' /\ UNCHANGED <<rpc, read>>
        /\ \A g \in Handlers \ {h} : pc'[g] = pc[g] /\ new'[g] = new[g]
    BY <1>3, HandlerCases
  <2>2. /\ \A g \in Handlers : pc[g] \in Editing => new[g].secret = live.secret
        /\ IF Setting THEN Keyed(Loaded(File)) ELSE Keyed(live)
    BY <2>1 DEF KeyFollows
  <2>3. CASE Calm(h)
    BY <1>1, <2>1, <2>2, <2>3 DEF Calm, KeyFollows, Keyed
  <2>4. CASE pc[h] = "admitted" /\ \E c : Clone(h, c)
    <3>1. pc'[h] = "cloned" /\ File' = File /\ UNCHANGED <<live, key>>
      BY <2>4 DEF Clone, GoTo, files, process, File, StoreInv, Shapes
    <3>2. new'[h].secret = live.secret
      <4>1. \A v : [live EXCEPT !.rules = v].secret = live.secret /\ [live EXCEPT !.enabled = v].secret = live.secret
        BY <2>1 DEF StoreInv, Shapes, Resolved, Formed, IsPolicy
      <4>2. AddRules(h) \/ DeleteRule(h) \/ UpdateConfig(h)
        BY <1>3, <2>4 DEF HandlerStep, Admit, Refuse, OpenTmp, WriteTmp, Rename,
                          PersistFails, Swap,
           Clone, Disconnect, GoTo, StoreInv, Shapes
      <4>3. \A c : Clone(h, c) => new'[h] = c
        BY DEF Clone, StoreInv, Shapes
      <4>4. ~Answer(h, "rejected") /\ ~Answer(h, "answered")
        BY <3>1 DEF Answer, GoTo, StoreInv, Shapes
      <4> QED BY <4>1, <4>2, <4>3, <4>4 DEF AddRules, DeleteRule, UpdateConfig
    <3> QED BY <1>1, <2>1, <2>2, <3>1, <3>2 DEF KeyFollows, Keyed
  <2>5. CASE Rename(h)
    <3>1. ~Setting
      BY <2>5, RenameAlone
    <3> QED BY <1>1, <2>1, <2>2, <2>5, <3>1, RenameAlone DEF KeyFollows, Keyed, Editing
  <2>6. CASE Swap(h)
    <3>1. /\ pc[h] = "renamed" /\ pc'[h] = "acked" /\ live' = new[h] /\ key' = key /\ File' = File
          /\ new' = new
      BY <2>6 DEF Swap, GoTo, files, File, StoreInv, Shapes
    <3>2. live'.secret = live.secret
      BY <2>2, <3>1 DEF Editing
    <3> QED BY <1>1, <2>1, <2>2, <3>1, <3>2 DEF KeyFollows, Keyed, Editing
  <2> QED BY <1>3, <2>3, <2>4, <2>5, <2>6, HandlerCases
<1>4. ASSUME NEW r \in Reloaders, WatcherStep(r) \/ ApiReload(r) PROVE KeyFollows'
  <2>1. UNCHANGED <<up, pc, new>> /\ File' = File /\ up
    BY <1>4, ReloadLeaves
  <2>2. /\ \A g \in Handlers : pc[g] \in Editing => new[g].secret = live.secret
        /\ IF Setting THEN Keyed(Loaded(File)) ELSE Keyed(live)
    BY <2>1 DEF KeyFollows
  <2>3. CASE Load(r) /\ UNCHANGED <<key, live>>
    <3>1. \A q \in Reloaders : rpc'[q] = "keyed" <=> rpc[q] = "keyed"
      BY <2>3 DEF Load, StoreInv, Shapes
    <3> QED BY <1>1, <2>1, <2>2, <2>3, <3>1 DEF KeyFollows, Keyed
  <2>4. CASE SetKey(r)
    <3>1. rpc'[r] = "keyed" /\ live' = live
      BY <2>4 DEF SetKey, StoreInv, Shapes
    <3>2. read[r] = Loaded(File)
      BY <2>4 DEF SetKey, Alone
    <3>3. Keyed(Loaded(File))'
      BY <1>1, <2>1, <2>4, <3>2 DEF SetKey, Keyed
    <3> QED BY <2>1, <2>2, <3>1, <3>3 DEF KeyFollows
  <2>5. CASE SwapReloaded(r)
    <3>1. rpc[r] = "keyed" /\ live' = Loaded(File) /\ read[r] = Loaded(File) /\ key' = key
      BY <2>5 DEF SwapReloaded, Alone
    <3>2. Keyed(Loaded(File))' /\ Keyed(live)'
      BY <1>1, <2>1, <2>2, <3>1 DEF Keyed
    <3>3. ASSUME NEW g \in Handlers, pc[g] \in Editing PROVE new[g].secret = live'.secret
      <4>1. CASE live = read[r]
        BY <2>2, <3>1, <3>3, <4>1
      <4>2. CASE live # read[r]
        <5>1. At(Editing \ {"renamed"}) = {}
          BY <2>5, <4>2 DEF SwapReloaded, Overtakes
        <5>2. pc[g] = "renamed"
          BY <3>3, <5>1 DEF At
        <5>3. new[g] = File /\ Loaded(new[g]) = new[g]
          BY <3>3, <5>2 DEF Alone, StoreInv, Shapes, Resolved
        <5> QED BY <3>1, <5>3
      <4> QED BY <4>1, <4>2
    <3> QED BY <2>1, <3>2, <3>3 DEF KeyFollows
  <2> QED BY <1>4, <2>3, <2>4, <2>5 DEF WatcherStep, ApiReload, ReloadOnEvent, process
<1>5. CASE Boot
  <2>1. \A h \in Handlers : pc'[h] \notin Editing
    BY <1>5 DEF Boot, Alone, handlers
  <2>2. \A r \in Reloaders : rpc'[r] = "idle"
    BY <1>5 DEF Boot, Alone, reloader
  <2>3. Keyed(live)'
    BY <1>5 DEF Boot, Keyed, KeyFrom
  <2> QED BY <2>1, <2>2, <2>3 DEF KeyFollows
<1>6. CASE Exit
  BY <1>6 DEF Exit, KeyFollows
<1>7. CASE DropEvent \/ SecondPasses
  BY <1>1, <1>7 DEF DropEvent, SecondPasses, KeyFollows, Keyed, File, files, process, handlers,
     reloader
<1>8. ASSUME NEW c \in scene.edits, Save(c) PROVE KeyFollows'
  <2>1. At(Editing) \cup Reloading = {}
    BY <1>8 DEF Save, Overtakes
  <2> QED BY <1>8, <2>1 DEF Save, KeyFollows, Keyed, At, Reloading, process, handlers, reloader
<1> QED BY <1>2, <1>3, <1>4, <1>5, <1>6, <1>7, <1>8, StoreMoves

\* commit_config and reload_config: a policy is in the file before it is in force.
LEMMA FileStep ==
    ASSUME StoreInv, Alone, FileFollows, NoSaves, raced' = {}, [Next]_vars
    PROVE  FileFollows'
<1>1. scene' = scene /\ detached \subseteq detached' /\ \A c : Loaded(c)' = Loaded(c)
  BY SceneStays, SameScene
<1>2. CASE UNCHANGED store
  BY <1>1, <1>2 DEF FileFollows, File, store, files, process, handlers
<1>3. ASSUME NEW h \in Handlers, HandlerStep(h) \/ Admit(h) \/ Refuse(h) PROVE FileFollows'
  <2>1. /\ up /\ up'
        /\ \A g \in Handlers \ {h} : pc'[g] = pc[g] /\ new'[g] = new[g]
    BY <1>3, HandlerCases
  <2>2. CASE Calm(h)
    BY <1>1, <2>1, <2>2 DEF Calm, FileFollows
  <2>3. CASE pc[h] = "admitted" /\ \E c : Clone(h, c)
    <3>1. live' = live /\ File' = File /\ detached' = detached
      BY <2>3 DEF Clone, files, process, File
    <3> QED BY <1>1, <2>1, <2>3, <3>1 DEF FileFollows
  <2>4. CASE Rename(h)
    BY <2>1, <2>4, RenameAlone DEF FileFollows
  <2>5. CASE Swap(h)
    <3>1. live' = new[h] /\ pc[h] = "renamed" /\ File' = File /\ Loaded(new[h]) = new[h]
      BY <2>5 DEF Swap, files, File, StoreInv, Shapes, Editing, Resolved
    <3> QED BY <1>1, <3>1 DEF Alone, FileFollows
  <2> QED BY <1>3, <2>2, <2>3, <2>4, <2>5, HandlerCases
<1>4. ASSUME NEW r \in Reloaders, WatcherStep(r) \/ ApiReload(r) PROVE FileFollows'
  BY <1>1, <1>4, ReloadLeaves, ReloadCases DEF FileFollows
<1>5. CASE Boot
  BY <1>1, <1>5 DEF Boot, FileFollows, File, files
<1>6. CASE Exit
  BY <1>6 DEF Exit, FileFollows
<1>7. CASE DropEvent \/ SecondPasses
  BY <1>1, <1>7 DEF DropEvent, SecondPasses, FileFollows, File, files, process, handlers
<1>8. ASSUME NEW c \in scene.edits, Save(c) PROVE FALSE
  BY <1>8 DEF Save, NoSaves
<1> QED BY <1>2, <1>3, <1>4, <1>5, <1>6, <1>7, <1>8, StoreMoves

\* An editor that has no saves makes none.
LEMMA NoSavesStep ==
    ASSUME NoSaves, [Next]_vars
    PROVE  NoSaves'
<1>1. scene' = scene
  BY SceneStays
<1>2. saves' = saves \/ saves' = saves + 1
  BY StoreMoves DEF store, HandlerStep, AddRules, DeleteRule, UpdateConfig, Answer, Clone,
                    OpenTmp,
     WriteTmp, Rename, PersistFails, Swap, Disconnect, Admit, Refuse, WatcherStep, ApiReload,
     ReloadOnEvent, SetKey, SwapReloaded, Boot, Exit, DropEvent, SecondPasses, Save
<1> QED BY <1>1, <1>2 DEF NoSaves

LEMMA AgreeStep ==
    ASSUME AgreeInv, TornIsNoPolicy, [Next]_vars
    PROVE  AgreeInv'
<1>1. DiskInv' /\ raced \subseteq raced' /\ scene' = scene
  BY StepDiskInv, RacedGrows, SceneStays DEF AgreeInv
<1>2. ASSUME raced' = {} PROVE StoreInv /\ Alone /\ KeyFollows /\ Alone' /\ KeyFollows' /\ raced = {}
  <2>1. raced = {} /\ StoreInv /\ Alone /\ KeyFollows
    BY <1>1, <1>2 DEF AgreeInv, DiskInv
  <2> QED BY <1>2, <2>1, AloneStep, KeyStep
<1>3. ASSUME scene.saves = 0 PROVE NoSaves' /\ (raced' = {} => FileFollows')
  BY <1>2, <1>3, NoSavesStep, FileStep DEF AgreeInv
<1> QED BY <1>1, <1>2, <1>3 DEF AgreeInv

LEMMA InitAgree ==
    Init => AgreeInv
BY InitDiskInv DEF Init, StoreInit, AgreeInv, Alone, KeyFollows, FileFollows, NoSaves, Editing

\* commit_config: "the on-disk policy can never silently diverge from runtime behaviour";
\* reload_config: "A reloaded masking_secret takes effect immediately".  Until two changes of
\* the policy overlap, at rest values are masked under the secret of the policy in force,
\* whoever has changed it; and that policy is the one in the file, where no editor saves.
THEOREM SettledAgreesAlways ==
    ASSUME TornIsNoPolicy
    PROVE  Spec => []SettledAgrees
<1>1. AgreeInv /\ [Next]_vars => AgreeInv'
  BY AgreeStep
<1>2. AgreeInv => SettledAgrees
  <2> SUFFICES ASSUME AgreeInv, raced = {} PROVE KeyIsLive /\ (scene.saves = 0 => FileIsLive)
    BY DEF SettledAgrees
  <2>1. ASSUME Settled PROVE /\ \A r \in Reloaders : rpc[r] # "keyed"
                             /\ \A h \in Handlers : pc[h] # "renamed"
    BY <2>1 DEF Settled, Reloading, InFlight
  <2>2. KeyIsLive
    BY <2>1 DEF AgreeInv, KeyIsLive, KeyFollows, Keyed, Settled
  <2>3. scene.saves = 0 => FileIsLive
    BY <2>1 DEF AgreeInv, FileIsLive, FileFollows, Settled
  <2> QED BY <2>2, <2>3
<1> QED BY <1>1, <1>2, InitAgree, PTL DEF Spec

-----------------------------------------------------------------------------
(* The edits of the handlers *)

\* The rules old became edited: the keys the request does not name stand as they stood,
\* and those that stay keep their order.
KeptBut(h, old, edited) ==
    /\ \A k : ~NamedBy(h, k) => /\ Has(edited, k) <=> Has(old, k)
                                /\ Has(old, k) => Standing(edited, k) = Standing(old, k)
    /\ \A a, b : /\ Has(old, a) /\ Has(edited, a) /\ Has(old, b) /\ Has(edited, b)
                 /\ First(old, a) < First(old, b)
                 => First(edited, a) < First(edited, b)

\* The first rule of a key is the one that decides.
LEMMA AsMapIs ==
    ASSUME NEW rules, IsRuleList(rules), NEW k
    PROVE  /\ k \in DOMAIN AsMap(rules) <=> Has(rules, k)
           /\ Has(rules, k) => AsMap(rules)[k] = Standing(rules, k)
<1>1. k \in {Key(rules[i]) : i \in DOMAIN rules} <=> Has(rules, k)
  BY ListShape, HasOne
<1> QED BY <1>1 DEF AsMap, Standing

\* add_rule and import_rules leave the last given rule of each key in force.
LEMMA ImportKeeps ==
    ASSUME NEW h, IsRequest(request[h]), Asked(h, {"add", "import"}),
           NEW c, IsRuleList(c.rules), NEW old, IsRuleList(old),
           c.rules = Import(old, request[h].rules)
    PROVE  InForce(h, c) /\ KeptBut(h, old, c.rules)
<1> DEFINE incoming == request[h].rules
           given    == [i \in DOMAIN incoming |-> Normalized(incoming[i])]
           N        == Len(incoming)
<1>1. IsRuleList(incoming)
  BY DEF IsRequest, Asked
<1>0. ~Asked(h, {"delete"})
  BY DEF Asked
<1>2. /\ N \in Nat /\ DOMAIN incoming = 1..N
      /\ \A i \in 1..N : DOMAIN incoming[i] = Fields
  BY <1>1, ListShape
<1>3. \A i \in 1..N : given[i] = Normalized(incoming[i]) /\ DOMAIN given[i] = Fields
                      /\ given[i].strategy = incoming[i].strategy
  BY <1>2, NormalizedFields
<1>4. given = [i \in 1..N |-> given[i]]
  BY <1>2
<1>5. DOMAIN given = 1..N
  BY <1>2
<1> HIDE DEF given, N
<1>6. IsRuleList(given) /\ Len(given) = N
  BY <1>2, <1>3, <1>4, MakesList
<1>7. /\ \A k : (\A i \in 1..N : Key(Normalized(incoming[i])) # k) =>
                   /\ Has(c.rules, k) <=> Has(old, k)
                   /\ Has(old, k) => Standing(c.rules, k) = Standing(old, k)
      /\ \A i \in 1..N :
            LET k == Key(Normalized(incoming[i]))
            IN /\ Has(c.rules, k)
               /\ (\A j \in 1..N : Key(Normalized(incoming[j])) = k => j <= i) =>
                     Standing(c.rules, k) = incoming[i].strategy
      /\ \A a, b : Has(old, a) /\ Has(old, b) /\ First(old, a) < First(old, b)
                      => First(c.rules, a) < First(c.rules, b)
  BY <1>1, ImportKeys DEF N
<1>8. KeptBut(h, old, c.rules)
  <2>1. ASSUME NEW k, ~NamedBy(h, k) PROVE \A i \in 1..N : Key(Normalized(incoming[i])) # k
    BY <1>0, <1>2, <2>1 DEF NamedBy
  <2> HIDE DEF incoming
  <2> QED BY <1>7, <2>1 DEF KeptBut
<1>9. ASSUME NEW i \in 1..N
      PROVE  /\ With(c.rules, Key(given[i])) # {}
             /\ AsMap(c.rules)[Key(given[i])] = LastOf(given, Key(given[i]))
  <2> DEFINE k == Key(given[i])
  <2>1. Has(c.rules, k)
    BY <1>3, <1>7
  <2>2. Has(given, k)
    BY <1>6, HasOne
  <2> HIDE DEF k
  <2>3. PICK last \in 1..N : /\ last = Max(With(given, k)) /\ Key(given[last]) = k
                             /\ \A j \in 1..N : Key(given[j]) = k => j <= last
    BY <1>6, <2>2, LastIs
  <2>4. Standing(c.rules, k) = incoming[last].strategy
    BY <1>3, <1>7, <2>3
  <2>5. LastOf(given, k) = incoming[last].strategy
    BY <1>3, <2>3 DEF LastOf
  <2>6. AsMap(c.rules)[k] = LastOf(given, k)
    BY <2>1, <2>4, <2>5, AsMapIs
  <2> QED BY <2>1, <2>6 DEF Has, k
<1>10. InForce(h, c)
  <2>1. \A i \in DOMAIN given : /\ With(c.rules, Key(given[i])) # {}
                               /\ AsMap(c.rules)[Key(given[i])] = LastOf(given, Key(given[i]))
    BY <1>5, <1>9
  <2> QED BY <1>0, <2>1 DEF InForce, given
<1> QED BY <1>8, <1>10

\* delete_rule leaves no rule of the keys it names.
LEMMA DeleteKeeps ==
    ASSUME NEW h, IsRequest(request[h]), Asked(h, {"delete"}),
           NEW c, NEW old, IsRuleList(old),
           c.rules = Delete(old, request[h].table, request[h].column)
    PROVE  InForce(h, c) /\ KeptBut(h, old, c.rules)
<1> DEFINE table == request[h].table   column == request[h].column
<1>1. /\ IsRuleList(c.rules)
      /\ \A j \in 1..Len(c.rules) : ~Deletes(c.rules[j], table, column)
      /\ \A k : Named(k, table, column) => ~Has(c.rules, k)
      /\ \A k : ~Named(k, table, column) =>
                   /\ Has(c.rules, k) <=> Has(old, k)
                   /\ Has(old, k) => Standing(c.rules, k) = Standing(old, k)
      /\ \A a, b : /\ ~Named(a, table, column) /\ ~Named(b, table, column)
                   /\ Has(old, a) /\ Has(old, b) /\ First(old, a) < First(old, b)
                   => First(c.rules, a) < First(c.rules, b)
  BY DeleteKeys
<1>2. ~Asked(h, {"add", "import"}) /\ \A k : NamedBy(h, k) <=> Named(k, table, column)
  BY DEF Asked, NamedBy, Named
<1>3. InForce(h, c)
  BY <1>1, <1>2, ListShape DEF InForce
<1> HIDE DEF table, column
<1>4. KeptBut(h, old, c.rules)
  BY <1>1, <1>2 DEF KeptBut
<1> QED BY <1>3, <1>4

\* A handler's edit, made of the policy in force at that moment.
LEMMA ClonedIsKeyed ==
    ASSUME Shapes, NEW h \in Handlers, pc[h] = "admitted", pc'[h] = "cloned",
           AddRules(h) \/ DeleteRule(h) \/ UpdateConfig(h)
    PROVE  /\ EditKeepsOthers(h)
           /\ KeptBut(h, live.rules, new'[h].rules) /\ InForce(h, new'[h])
           /\ Asked(h, {"update"}) \/ new'[h].enabled = live.enabled
           /\ up /\ Resolved(live) /\ Resolved(new'[h]) /\ UNCHANGED <<request, live>>
<1>1. IsRequest(request[h])
  BY HandlerAsked
<1>2. \A reached \in {"rejected", "answered"} : ~Answer(h, reached)
  BY DEF Answer, GoTo, Shapes
<1>3. PICK edited : Clone(h, edited) /\ Resolved(edited)
  BY <1>2, HandlerClones
<1>4. /\ up /\ Resolved(live) /\ new'[h] = edited /\ UNCHANGED <<request, live>>
  BY <1>3 DEF Clone, Shapes, process
<1>5. IsRuleList(live.rules) /\ IsRuleList(edited.rules)
      /\ DOMAIN live = {"rules", "enabled", "secret", "api", "health", "settings", "auth"}
  BY <1>3, <1>4 DEF Resolved, Formed, IsPolicy
<1>6. /\ KeptBut(h, live.rules, edited.rules) /\ InForce(h, edited)
      /\ Asked(h, {"update"}) \/ edited.enabled = live.enabled
  <2>1. CASE AddRules(h)
    <3>1. /\ Asked(h, {"add", "import"})
          /\ edited = [live EXCEPT !.rules = Import(live.rules, request[h].rules)]
      BY <1>2, <1>4, <2>1 DEF AddRules, Clone, Shapes
    <3>2. edited.rules = Import(live.rules, request[h].rules) /\ edited.enabled = live.enabled
      BY <1>5, <3>1
    <3> QED BY <1>1, <1>5, <3>1, <3>2, ImportKeeps
  <2>2. CASE DeleteRule(h)
    <3>1. /\ Asked(h, {"delete"})
          /\ edited = [live EXCEPT !.rules = Delete(live.rules, request[h].table, request[h].column)]
      BY <1>2, <1>4, <2>2 DEF DeleteRule, Clone, Shapes
    <3>2. edited.rules = Delete(live.rules, request[h].table, request[h].column)
          /\ edited.enabled = live.enabled
      BY <1>5, <3>1
    <3> QED BY <1>1, <1>5, <3>1, <3>2, DeleteKeeps
  <2>3. CASE UpdateConfig(h)
    <3>1. /\ Asked(h, {"update"}) /\ request[h].enabled # <<>>
          /\ edited = [live EXCEPT !.enabled = Head(request[h].enabled)]
      BY <1>2, <1>4, <2>3 DEF UpdateConfig, Clone, Shapes
    <3>2. edited.rules = live.rules /\ edited.enabled = Head(request[h].enabled)
      BY <1>5, <3>1
    <3>3. KeptBut(h, live.rules, edited.rules)
      BY <3>2 DEF KeptBut
    <3>4. InForce(h, edited)
      <4>1. request[h].enabled \in {<<TRUE>>, <<FALSE>>}
        BY <1>1, <3>1 DEF IsRequest, Asked
      <4>2. ASSUME NEW x PROVE Head(<<x>>) = x
        OBVIOUS
      <4>3. request[h].enabled = <<edited.enabled>>
        BY <3>2, <4>1, <4>2, Zenon
      <4>4. ~Asked(h, {"add", "import"}) /\ ~Asked(h, {"delete"})
        BY <3>1 DEF Asked
      <4> QED BY <4>3, <4>4 DEF InForce
    <3> QED BY <3>1, <3>3, <3>4
  <2> QED BY <2>1, <2>2, <2>3
<1>7. EditKeepsOthers(h)
  <2> DEFINE old == live.rules   rules == edited.rules
             stay == {k \in DOMAIN AsMap(old) : k \in DOMAIN AsMap(rules)}
  <2> HIDE DEF old, rules
  <2>1. \A k : /\ k \in DOMAIN AsMap(old) <=> Has(old, k)
               /\ k \in DOMAIN AsMap(rules) <=> Has(rules, k)
               /\ Has(old, k) => AsMap(old)[k] = Standing(old, k)
               /\ Has(rules, k) => AsMap(rules)[k] = Standing(rules, k)
    BY <1>5, AsMapIs DEF old, rules
  <2>2. KeptBut(h, old, rules)
    BY <1>6 DEF old, rules
  <2>3. \A k \in DOMAIN AsMap(old) \cup DOMAIN AsMap(rules) :
           ~NamedBy(h, k) => k \in stay /\ AsMap(rules)[k] = AsMap(old)[k]
    BY <2>1, <2>2 DEF KeptBut
  <2>4. \A j, k \in stay : First(old, j) < First(old, k) => First(rules, j) < First(rules, k)
    BY <2>1, <2>2 DEF KeptBut
  <2> QED BY <1>4, <1>6, <2>3, <2>4 DEF EditKeepsOthers, old, rules
<1> QED BY <1>3, <1>4, <1>6, <1>7

\* Only its own edit takes a handler from its admission to its clone.
LEMMA ClonedByEdit ==
    ASSUME Shapes, [Next]_vars, NEW h \in Handlers, pc[h] = "admitted", pc'[h] = "cloned"
    PROVE  AddRules(h) \/ DeleteRule(h) \/ UpdateConfig(h)
<1>1. CASE UNCHANGED pc
  BY <1>1
<1>2. ASSUME NEW g \in Handlers, Admit(g) \/ Refuse(g) PROVE FALSE
  BY <1>2 DEF Admit, Refuse, GoTo, Shapes
<1>3. ASSUME NEW g \in Handlers, HandlerStep(g) PROVE AddRules(h) \/ DeleteRule(h) \/ UpdateConfig(h)
  <2>1. CASE g = h
    BY <1>3, <2>1 DEF HandlerStep, OpenTmp, WriteTmp, Rename, PersistFails, Swap, Disconnect,
       AfterWrite, GoTo, Shapes
  <2>2. CASE g # h
    <3>1. pc'[h] = pc[h]
      BY <1>3, <2>2 DEF HandlerStep, AddRules, DeleteRule, UpdateConfig, Answer, Clone, OpenTmp,
         WriteTmp, Rename, PersistFails, Swap, Disconnect, AfterWrite, GoTo, Shapes
    <3> QED BY <3>1
  <2> QED BY <2>1, <2>2
<1>4. CASE \E r \in Reloaders : WatcherStep(r) \/ ApiReload(r)
  BY <1>1, <1>4 DEF WatcherStep, ApiReload, ReloadOnEvent, SetKey, SwapReloaded, handlers
<1>5. CASE Boot \/ DropEvent \/ SecondPasses \/ \E c \in scene.edits : Save(c)
  BY <1>1, <1>5 DEF Boot, DropEvent, SecondPasses, Save, handlers
<1>6. CASE Exit
  BY <1>6 DEF Exit, InFlight
<1>7. CASE UNCHANGED store
  BY <1>1, <1>7 DEF store, handlers
<1> QED BY <1>2, <1>3, <1>4, <1>5, <1>6, <1>7, StoreMoves

\* dedupe_rules, upsert_rule and retain, for lists of any length and edits of any rules: the
\* keys a request names get what it asks for, every other key keeps its strategy, and the
\* rules that stay keep the order by which the first that matches decides.
THEOREM EditsKeepOtherKeys == Spec => EditsAreKeyed
<1>1. Shapes /\ [Next]_vars =>
        [\A h \in Handlers : pc[h] = "admitted" /\ pc'[h] = "cloned" => EditKeepsOthers(h)]_store
  BY ClonedByEdit, ClonedIsKeyed
<1> QED BY <1>1, InitShapes, StepShapes, PTL DEF Spec, EditsAreKeyed

-----------------------------------------------------------------------------
(* What was answered with success stays *)

\* normalize_rule keeps the column.
LEMMA NormalizedKey ==
    ASSUME NEW rules, IsRuleList(rules), NEW i \in DOMAIN rules
    PROVE  Key(Normalized(rules[i]))[2] = rules[i].column
<1>1. Normalized(rules[i]).column = rules[i].column
  BY ListShape, NormalizedFields
<1>2. ASSUME NEW rule PROVE Key(rule)[2] = rule.column
  BY DEF Key
<1> QED BY <1>1, <1>2

\* A request that is in force stays so when another edits other columns.
LEMMA ForceStays ==
    ASSUME NEW h, IsRequest(request[h]), NEW g, IsRequest(request[g]),
           Subjects(g) \cap Subjects(h) = {},
           NEW c, NEW d, IsRuleList(c.rules), IsRuleList(d.rules),
           KeptBut(g, c.rules, d.rules), Asked(g, {"update"}) \/ d.enabled = c.enabled,
           InForce(h, c)
    PROVE  InForce(h, d)
<1>1. ASSUME NEW k, NamedBy(g, k) PROVE k[2] \in Subjects(g)
  <2>1. CASE Asked(g, {"add", "import"})
    <3>1. IsRuleList(request[g].rules) /\ ~Asked(g, {"delete"})
      BY <2>1 DEF IsRequest, Asked
    <3>2. PICK i \in DOMAIN request[g].rules : Key(Normalized(request[g].rules[i])) = k
      BY <1>1, <2>1, <3>1 DEF NamedBy
    <3>3. k[2] = request[g].rules[i].column
      BY <3>1, <3>2, NormalizedKey
    <3> QED BY <2>1, <3>1, <3>2, <3>3 DEF Subjects
  <2>2. CASE Asked(g, {"delete"})
    BY <1>1, <2>2 DEF NamedBy, Subjects, Asked
  <2> QED BY <1>1, <2>1, <2>2 DEF NamedBy
<1>2. CASE Asked(h, {"add", "import"})
  <2> DEFINE given == [i \in DOMAIN request[h].rules |-> Normalized(request[h].rules[i])]
  <2>1. IsRuleList(request[h].rules) /\ ~Asked(h, {"delete"})
    BY <1>2 DEF IsRequest, Asked
  <2>2. ASSUME NEW i \in DOMAIN given
        PROVE  /\ With(d.rules, Key(given[i])) # {}
               /\ AsMap(d.rules)[Key(given[i])] = LastOf(given, Key(given[i]))
    <3> DEFINE k == Key(given[i])
    <3>1. k[2] = request[h].rules[i].column /\ i \in DOMAIN request[h].rules
      BY <2>1, NormalizedKey
    <3>2. k[2] \in Subjects(h)
      BY <1>2, <2>1, <3>1 DEF Subjects
    <3>3. With(c.rules, k) # {} /\ AsMap(c.rules)[k] = LastOf(given, k)
      BY <1>2, <2>1 DEF InForce
    <3> HIDE DEF k, given
    <3>4. ~NamedBy(g, k)
      BY <1>1, <3>2
    <3>5. Has(d.rules, k) /\ AsMap(d.rules)[k] = AsMap(c.rules)[k]
      BY <3>3, <3>4, AsMapIs DEF KeptBut, Has
    <3> QED BY <3>3, <3>5 DEF Has, k
  <2> QED BY <1>2, <2>1, <2>2 DEF InForce
<1>3. CASE Asked(h, {"delete"})
  <2>1. ~Asked(h, {"add", "import"})
    BY <1>3 DEF Asked
  <2>2. ASSUME NEW i \in DOMAIN d.rules, Deletes(d.rules[i], request[h].table, request[h].column)
        PROVE  FALSE
    <3> DEFINE k == Key(d.rules[i])
    <3>1. k[2] = request[h].column /\ request[h].table \in {NoTable, k[1]}
      BY <2>2 DEF Deletes, Key
    <3>2. k[2] \in Subjects(h)
      BY <1>3, <2>1, <3>1 DEF Subjects
    <3>3. Has(d.rules, k)
      BY HasOne, ListShape
    <3> HIDE DEF k
    <3>4. Has(c.rules, k)
      BY <1>1, <3>2, <3>3 DEF KeptBut
    <3>5. PICK j \in 1..Len(c.rules) : Key(c.rules[j]) = k
      BY <3>4, HasOne
    <3>6. Deletes(c.rules[j], request[h].table, request[h].column)
      BY <3>1, <3>5 DEF Deletes, Key
    <3> QED BY <1>3, <2>1, <3>5, <3>6, ListShape DEF InForce
  <2> QED BY <1>3, <2>1, <2>2 DEF InForce
<1>4. CASE Asked(h, {"update"})
  <2>1. ~Asked(h, {"add", "import"}) /\ ~Asked(h, {"delete"})
    BY <1>4 DEF Asked
  <2>2. ~Asked(g, {"update"})
    <3> SUFFICES ASSUME Asked(g, {"update"}) PROVE FALSE
      OBVIOUS
    <3>1. ~Asked(g, {"add", "import"}) /\ ~Asked(g, {"delete"})
      BY DEF Asked
    <3> QED BY <2>1, <3>1 DEF Subjects
  <2> QED BY <2>1, <2>2 DEF InForce
<1> QED BY <1>2, <1>3, <1>4 DEF IsRequest, Asked

\* AppConfig::load changes neither the rules nor the switch.
LEMMA ForceLoaded ==
    ASSUME NEW h, NEW c, Formed(c)
    PROVE  InForce(h, Loaded(c)) <=> InForce(h, c)
<1>1. Loaded(c).rules = c.rules /\ Loaded(c).enabled = c.enabled
  BY DEF Loaded, Formed, IsPolicy
<1> QED BY <1>1 DEF InForce

\* Wherever the policy comes from that is next in force or next in the file, the requests
\* that were acknowledged are in force in it, but for those whose columns another touches.
Durable ==
    /\ \A h \in Handlers : pc[h] \in Editing => InForce(h, new[h])
    /\ \A h \in Handlers : pc[h] = "acked" /\ ~Touched(h) =>
          /\ InForce(h, File)
          /\ up => InForce(h, live)
          /\ \A g \in Handlers : pc[g] \in Editing => InForce(h, new[g])

\* A request stays what it is, and no handler goes back to where it was not called.
LEMMA SameRequest ==
    ASSUME request' = request
    PROVE  \A h : /\ Subjects(h)' = Subjects(h)
                  /\ \A c : InForce(h, c)' <=> InForce(h, c)
<1> SUFFICES ASSUME NEW h PROVE /\ Subjects(h)' = Subjects(h)
                                /\ \A c : InForce(h, c)' <=> InForce(h, c)
  OBVIOUS
<1>1. \A kinds : Asked(h, kinds)' <=> Asked(h, kinds)
  BY DEF Asked
<1>2. Subjects(h)' = Subjects(h)
  BY <1>1 DEF Subjects
<1>3. ASSUME NEW c PROVE InForce(h, c)' <=> InForce(h, c)
  BY <1>1 DEF InForce
<1> QED BY <1>2, <1>3

LEMMA TouchedStays ==
    ASSUME request' = request, \A g \in Handlers : pc[g] # "idle" => pc'[g] # "idle"
    PROVE  \A h : Touched(h) => Touched(h)'
BY SameRequest DEF Touched

\* A step that edits nothing and acknowledges nothing, and takes policies from the file.
LEMMA DurableKept ==
    ASSUME Durable, Formed(File), request' = request, File' = File,
           \A h \in Handlers : /\ pc'[h] \in Editing => pc[h] \in Editing /\ new'[h] = new[h]
                               /\ pc'[h] = "acked" => pc[h] = "acked"
                               /\ pc[h] # "idle" => pc'[h] # "idle",
           ~up' \/ (up /\ live' = live) \/ live' = Loaded(File)
    PROVE  Durable'
<1>1. \A h \in Handlers : pc'[h] \in Editing => InForce(h, new[h]) /\ new'[h] = new[h]
  BY DEF Durable
<1>2. ASSUME NEW h \in Handlers, pc'[h] = "acked", ~Touched(h)'
      PROVE  /\ InForce(h, File)
             /\ up' => InForce(h, live')
             /\ \A g \in Handlers : pc'[g] \in Editing => InForce(h, new[g]) /\ new'[g] = new[g]
  <2>1. pc[h] = "acked" /\ ~Touched(h)
    BY <1>2, TouchedStays
  <2>2. /\ InForce(h, File)
        /\ up => InForce(h, live)
        /\ \A g \in Handlers : pc[g] \in Editing => InForce(h, new[g])
    BY <2>1 DEF Durable
  <2>3. InForce(h, Loaded(File))
    BY <2>2, ForceLoaded
  <2> QED BY <2>2, <2>3
<1> QED BY <1>1, <1>2, SameRequest DEF Durable

\* Clone, rename and swap: nobody is beside the policy that goes from the edit into the file
\* and from there into force.
LEMMA HandlerDurable ==
    ASSUME StoreInv, Alone, Durable, raced' = {}, request' = request,
           NEW h \in Handlers, HandlerStep(h) \/ Admit(h) \/ Refuse(h)
    PROVE  Durable'
<1>1. Formed(File)
  BY DEF StoreInv, Origins, File
<1>2. /\ up /\ up'
      /\ \A g \in Handlers \ {h} : pc'[g] = pc[g] /\ new'[g] = new[g]
  BY HandlerCases
<1>3. CASE Calm(h)
  BY <1>1, <1>2, <1>3, DurableKept DEF Calm
<1>4. CASE pc[h] = "admitted" /\ \E c : Clone(h, c)
  <2>1. pc' = [pc EXCEPT ![h] = "cloned"] /\ live' = live /\ File' = File
    BY <1>4 DEF Clone, GoTo, files, process, File
  <2>2. pc'[h] = "cloned"
    BY <2>1 DEF StoreInv, Shapes
  <2>3. AddRules(h) \/ DeleteRule(h) \/ UpdateConfig(h)
    BY <1>4, <2>2 DEF HandlerStep, Admit, Refuse, OpenTmp, WriteTmp, Rename, PersistFails, Swap,
       Disconnect, GoTo, StoreInv, Shapes
  <2>4. /\ KeptBut(h, live.rules, new'[h].rules) /\ InForce(h, new'[h])
        /\ Asked(h, {"update"}) \/ new'[h].enabled = live.enabled
        /\ IsRuleList(live.rules) /\ IsRuleList(new'[h].rules)
    BY <1>2, <1>4, <2>2, <2>3, ClonedIsKeyed DEF StoreInv, Resolved, Formed, IsPolicy
  <2>5. ASSUME NEW k \in Handlers, pc'[k] = "acked", ~Touched(k)'
        PROVE  /\ InForce(k, File) /\ InForce(k, live) /\ InForce(k, new'[h])
               /\ \A g \in Handlers : pc[g] \in Editing => InForce(k, new[g])
    <3>1. pc[k] = "acked" /\ k # h
      BY <1>2, <2>2, <2>5
    <3>2. \A g \in Handlers : pc[g] # "idle" => pc'[g] # "idle"
      BY <1>2, <2>2
    <3>3. ~Touched(k)
      BY <2>5, <3>2, TouchedStays
    <3>4. /\ InForce(k, File) /\ InForce(k, live)
          /\ \A g \in Handlers : pc[g] \in Editing => InForce(k, new[g])
      BY <1>2, <3>1, <3>3 DEF Durable
    <3>5. Subjects(h) \cap Subjects(k) = {}
      BY <1>4, <3>1, <3>3 DEF Touched
    <3>6. IsRequest(request[k]) /\ IsRequest(request[h])
      BY <1>4, <3>1, ControlPlaneAssumption DEF StoreInv, Shapes
    <3>7. InForce(k, new'[h])
      BY <2>4, <3>4, <3>5, <3>6, ForceStays
    <3> QED BY <3>4, <3>7
  <2>6. \A g \in Handlers \ {h} : pc'[g] \in Editing => pc[g] \in Editing /\ InForce(g, new[g])
    BY <1>2 DEF Durable
  <2> QED BY <1>2, <2>1, <2>4, <2>5, <2>6, SameRequest DEF Durable
<1>5. CASE Rename(h)
  <2>1. File' = new[h] /\ new' = new /\ live' = live /\ pc[h] = "written"
    BY <1>5, RenameAlone
  <2>2. pc'[h] \in {"renamed", "dropped"}
    BY <1>5, RenameAlone
  <2>3. \A g \in Handlers : pc'[g] \in Editing => g = h
    BY <1>2, <1>5, RenameAlone
  <2>4. ASSUME NEW k \in Handlers, pc'[k] = "acked", ~Touched(k)'
        PROVE  InForce(k, new[h]) /\ InForce(k, live)
    <3>1. pc[k] = "acked" /\ \A g \in Handlers : pc[g] # "idle" => pc'[g] # "idle"
      BY <1>2, <2>2, <2>4
    <3>2. ~Touched(k)
      BY <2>4, <3>1, TouchedStays
    <3> QED BY <1>2, <2>1, <3>1, <3>2 DEF Durable, Editing
  <2>5. InForce(h, new[h])
    BY <2>1 DEF Durable, Editing
  <2> QED BY <1>2, <2>1, <2>3, <2>4, <2>5, SameRequest DEF Durable
<1>6. CASE Swap(h)
  <2>1. /\ pc[h] = "renamed" /\ pc'[h] = "acked" /\ live' = new[h] /\ new' = new /\ File' = File
    BY <1>6 DEF Swap, GoTo, files, File, StoreInv, Shapes
  <2>2. \A g \in Handlers : pc'[g] \notin Editing
    BY <1>2, <2>1 DEF Alone, Editing
  <2>3. File = new[h] /\ InForce(h, new[h])
    BY <2>1 DEF Durable, Alone, Editing
  <2>4. ASSUME NEW k \in Handlers, pc'[k] = "acked", ~Touched(k)'
        PROVE  InForce(k, new[h])
    <3>1. CASE k = h
      BY <2>3, <3>1
    <3>2. CASE k # h
      <4>1. pc[k] = "acked" /\ \A g \in Handlers : pc[g] # "idle" => pc'[g] # "idle"
        BY <1>2, <2>1, <2>4, <3>2
      <4>2. ~Touched(k)
        BY <2>4, <4>1, TouchedStays
      <4> QED BY <2>1, <4>1, <4>2 DEF Durable, Editing
    <3> QED BY <3>1, <3>2
  <2> QED BY <1>2, <2>1, <2>2, <2>3, <2>4, SameRequest DEF Durable
<1> QED BY <1>3, <1>4, <1>5, <1>6, HandlerCases

\* Reloads and restarts put the file in force; nothing but the API edits it.
LEMMA DurableStep ==
    ASSUME StoreInv, Alone, NoSaves, Durable, raced' = {}, [Next]_vars
    PROVE  Durable'
<1>1. Formed(File) /\ request' = request
  BY SceneStays DEF StoreInv, Origins, File
<1>2. CASE \E h \in Handlers : HandlerStep(h) \/ Admit(h) \/ Refuse(h)
  BY <1>1, <1>2, HandlerDurable
<1>3. CASE UNCHANGED store \/ DropEvent \/ SecondPasses
  BY <1>1, <1>3, DurableKept DEF store, DropEvent, SecondPasses, files, process, handlers, File
<1>4. ASSUME NEW r \in Reloaders, WatcherStep(r) \/ ApiReload(r) PROVE Durable'
  <2>1. UNCHANGED <<up, pc, new>> /\ File' = File /\ up
    BY <1>4, ReloadLeaves
  <2>2. live' = live \/ live' = Loaded(File)
    BY <1>4, ReloadCases
  <2> QED BY <1>1, <2>1, <2>2, DurableKept
<1>5. CASE Boot
  BY <1>1, <1>5, DurableKept DEF Boot, files, handlers, File
<1>6. CASE Exit
  <2>1. \A h \in Handlers : pc'[h] \notin Editing
    BY <1>6 DEF Exit, InFlight, Editing
  <2>2. \A h \in Handlers : /\ pc'[h] = "acked" => pc[h] = "acked"
                            /\ pc[h] # "idle" => pc'[h] # "idle"
    BY <1>6 DEF Exit
  <2> QED BY <1>1, <1>6, <2>1, <2>2, DurableKept DEF Exit, files, File
<1>7. ASSUME NEW c \in scene.edits, Save(c) PROVE FALSE
  BY <1>7 DEF Save, NoSaves
<1> QED BY <1>2, <1>3, <1>4, <1>5, <1>6, <1>7, StoreMoves

\* "POST /rules - Add new rule (auto-persisted)": a request that was answered with success is
\* in the file through reloads, restarts and the requests of others, until one of these
\* touches its columns, or until two changes of the policy overlap.
THEOREM AckedIsDurableAlways ==
    ASSUME TornIsNoPolicy
    PROVE  Spec => []AckedIsDurable
<1> DEFINE Inv == AgreeInv /\ (raced = {} /\ scene.saves = 0 => Durable)
<1>1. Init => Inv
  BY InitAgree DEF Init, StoreInit, Durable, Editing
<1>2. Inv /\ [Next]_vars => Inv'
  <2> SUFFICES ASSUME Inv, [Next]_vars PROVE Inv'
    OBVIOUS
  <2>1. AgreeInv' /\ scene' = scene /\ raced \subseteq raced'
    BY AgreeStep, SceneStays, RacedGrows
  <2>2. ASSUME raced' = {}, scene.saves = 0 PROVE Durable'
    <3>1. raced = {}
      BY <2>1, <2>2
    <3>2. StoreInv /\ Alone /\ NoSaves /\ Durable
      BY <2>2, <3>1 DEF AgreeInv, DiskInv
    <3> QED BY <2>2, <3>2, DurableStep
  <2> QED BY <2>1, <2>2
<1>3. Inv => AckedIsDurable
  BY DEF Durable, AckedIsDurable
<1> QED BY <1>1, <1>2, <1>3, PTL DEF Spec

-----------------------------------------------------------------------------
(* The health check *)

\* Before the first probe both runs are empty.
LEMMA NoProbes ==
    probes = <<>> /\ health = Unchecked => HealthInv
<1> SUFFICES ASSUME probes = <<>>, health = Unchecked PROVE HealthInv
  OBVIOUS
<1>1. Len(probes) = 0 /\ probes \in Seq(Measured)
  OBVIOUS
<1>2. \A n \in Nat : (Failed(n, 0) <=> n <= 0) /\ (Worked(n, 0) <=> n <= 0)
  BY DEF Failed, Worked, InARow
<1>3. Counts
  BY <1>1, <1>2 DEF Counts, Unchecked
<1>4. ~health.healthy /\ ~Risen
  BY DEF Risen, Unchecked
<1>5. QED
  BY <1>3, <1>4 DEF HealthInv

\* The run at the end of the probes is one longer if the last one went the same
\* way, and otherwise begins anew.
LEMMA OneProbeMore ==
    ASSUME NEW N \in Nat, N = Len(probes),
           probes \in Seq(Measured),
           NEW p \in Measured, probes' = Append(probes, p)
    PROVE  /\ probes' \in Seq(Measured)
           /\ Len(probes') = N + 1
           /\ probes'[N + 1] = p
           /\ \A i \in 1..N : probes'[i] = probes[i]
           /\ \A i \in 1..N : /\ RoseAt(i)' <=> RoseAt(i)
                              /\ FellAt(i)' <=> FellAt(i)
           /\ \A n \in Nat :
                 /\ Failed(n, N + 1)' <=> n = 0 \/ (~p.connected /\ Failed(n - 1, N))
                 /\ Worked(n, N + 1)' <=> n = 0 \/ (p.connected /\ Worked(n - 1, N))
<1>1. /\ probes' \in Seq(Measured)
      /\ Len(probes') = N + 1
      /\ probes'[N + 1] = p
      /\ \A i \in 1..N : probes'[i] = probes[i]
  OBVIOUS
<1>2. ASSUME NEW i \in 1..N
      PROVE  /\ RoseAt(i)' <=> RoseAt(i)
             /\ FellAt(i)' <=> FellAt(i)
  <2>1. /\ probes[i] \in Measured /\ probes'[i] = probes[i]
    BY <1>1
  <2>2. probes[i].limits.healthy \in Nat /\ probes[i].limits.unhealthy \in Nat
    BY <2>1 DEF Measured, Limits
  <2>3. \A n \in Nat : n <= i => \A j \in (i - n + 1)..i : probes'[j] = probes[j]
    BY <1>1
  <2>4. QED
    BY <2>1, <2>2, <2>3 DEF RoseAt, FellAt, InARow
<1>3. ASSUME NEW n \in Nat
      PROVE  /\ Failed(n, N + 1)' <=> n = 0 \/ (~p.connected /\ Failed(n - 1, N))
             /\ Worked(n, N + 1)' <=> n = 0 \/ (p.connected /\ Worked(n - 1, N))
  <2>1. CASE n = 0
    BY <1>1, <2>1 DEF Failed, Worked, InARow
  <2>2. CASE n # 0
    <3>1. ASSUME NEW b
          PROVE  InARow(n, N + 1, b)' <=> p.connected = b /\ InARow(n - 1, N, b)
      <4>1. n <= N + 1 =>
              /\ N + 1 \in (N + 1 - n + 1)..(N + 1)
              /\ \A j \in (N + 1 - n + 1)..N : probes'[j] = probes[j]
              /\ \A j \in (N + 1 - n + 1)..(N + 1) : j = N + 1 \/ j \in (N + 1 - n + 1)..N
              /\ \A j \in (N + 1 - n + 1)..N : j \in (N + 1 - n + 1)..(N + 1)
        BY <1>1, <2>2
      <4>2. n - 1 <= N <=> n <= N + 1
        OBVIOUS
      <4>3. N - (n - 1) + 1 = N + 1 - n + 1
        OBVIOUS
      <4>4. QED
        BY <1>1, <4>1, <4>2, <4>3 DEF InARow
    <3>2. p.connected \in BOOLEAN
      BY DEF Measured
    <3>3. /\ InARow(n, N + 1, FALSE)' <=> p.connected = FALSE /\ InARow(n - 1, N, FALSE)
          /\ InARow(n, N + 1, TRUE)' <=> p.connected = TRUE /\ InARow(n - 1, N, TRUE)
      BY <3>1, Zenon
    <3>4. /\ Failed(n, N + 1)' <=> p.connected = FALSE /\ Failed(n - 1, N)
          /\ Worked(n, N + 1)' <=> p.connected = TRUE /\ Worked(n - 1, N)
      BY <3>3, Zenon DEF Failed, Worked
    <3>5. QED
      BY <2>2, <3>2, <3>4
  <2>3. QED
    BY <2>1, <2>2
<1>4. QED
  BY <1>1, <1>2, <1>3

\* update_health_status, under any thresholds.
LEMMA ProbeHealth ==
    ASSUME HealthInv, Shapes, up, NEW connected \in BOOLEAN, Probe(connected, live.health)
    PROVE  HealthInv'
<1>1. PICK N \in Nat : N = Len(probes)
  BY DEF HealthInv, Counts
<1>2. PICK limits \in Limits :
         /\ limits = InEffect(live.health)
         /\ limits.unhealthy \in Nat /\ limits.healthy \in Nat
  BY DEF Shapes, Resolved, Formed, Limits
<1>3. PICK p \in Measured :
         /\ p.connected = connected /\ p.limits = limits
         /\ probes' = Append(probes, p)
  BY <1>2 DEF Probe, Measured
<1>4. Counts /\ prober'
  BY DEF Probe, HealthInv
<1>5. /\ probes' \in Seq(Measured)
      /\ Len(probes') = N + 1
      /\ probes'[N + 1] = p
      /\ \A i \in 1..N : probes'[i] = probes[i]
      /\ \A n \in Nat :
            /\ Failed(n, N + 1)' <=> n = 0 \/ (~p.connected /\ Failed(n - 1, N))
            /\ Worked(n, N + 1)' <=> n = 0 \/ (p.connected /\ Worked(n - 1, N))
  BY <1>1, <1>3, <1>4, OneProbeMore DEF Counts
<1>6. PICK lower \in Nat, upper \in Nat :
         /\ lower = IF connected THEN 0 ELSE health.failures + 1
         /\ upper = IF connected THEN health.successes + 1 ELSE 0
         /\ Counted(connected).failures = lower /\ Counted(connected).successes = upper
  <2>1. health \in [checked : BOOLEAN, healthy : BOOLEAN, failures : Nat, successes : Nat]
    BY <1>4 DEF Counts
  <2>2. CASE connected
    BY <2>1, <2>2 DEF Counted
  <2>3. CASE ~connected
    BY <2>1, <2>3 DEF Counted
  <2>4. QED
    BY <2>2, <2>3
<1>7. /\ health' \in [checked : BOOLEAN, healthy : BOOLEAN, failures : Nat, successes : Nat]
      /\ health'.failures = lower /\ health'.successes = upper
      /\ health'.healthy <=>
            ~(lower >= limits.unhealthy) /\ (health.healthy \/ upper >= limits.healthy)
  BY <1>2, <1>4, <1>6 DEF Counts, Counted, Probe
<1>8. \A n \in Nat : /\ Failed(n, N + 1)' <=> n <= lower
                     /\ Worked(n, N + 1)' <=> n <= upper
  <2>1. SUFFICES ASSUME NEW n \in Nat
                 PROVE  /\ Failed(n, N + 1)' <=> n <= lower
                        /\ Worked(n, N + 1)' <=> n <= upper
    OBVIOUS
  <2>2. n # 0 => (Failed(n - 1, N) <=> n - 1 <= health.failures)
    BY <1>1, <1>4 DEF Counts
  <2>3. n # 0 => (Worked(n - 1, N) <=> n - 1 <= health.successes)
    BY <1>1, <1>4 DEF Counts
  <2>4. health.failures \in Nat /\ health.successes \in Nat
    BY <1>4 DEF Counts
  <2>5. QED
    BY <1>3, <1>5, <1>6, <2>2, <2>3, <2>4
<1>9. Counts'
  BY <1>5, <1>7, <1>8 DEF Counts
<1>10. /\ RoseAt(N + 1)' <=> limits.healthy <= upper
       /\ FellAt(N + 1)' <=> limits.unhealthy <= lower
  <2>1. /\ RoseAt(N + 1)' <=> Worked(limits.healthy, N + 1)'
        /\ FellAt(N + 1)' <=> Failed(limits.unhealthy, N + 1)'
    BY <1>3, <1>5 DEF RoseAt, FellAt, Worked, Failed
  <2>2. QED
    BY <1>2, <1>8, <2>1
<1>11. \A i \in 1..N : /\ RoseAt(i)' <=> RoseAt(i)
                       /\ FellAt(i)' <=> FellAt(i)
  BY <1>1, <1>3, <1>4, OneProbeMore DEF Counts
<1>12. Risen' <=> ~FellAt(N + 1)' /\ (Risen \/ RoseAt(N + 1)')
  <2>1. DOMAIN probes' = 1..(N + 1) /\ Len(probes') = N + 1 /\ DOMAIN probes = 1..N
    BY <1>1, <1>4, <1>5 DEF Counts
  <2>2. Risen' <=> \E i \in 1..(N + 1) : RoseAt(i)' /\ \A j \in i..(N + 1) : ~FellAt(j)'
    BY <2>1 DEF Risen
  <2>3. Risen <=> \E i \in 1..N : RoseAt(i)' /\ \A j \in i..N : ~FellAt(j)'
    BY <1>1, <1>11, <2>1 DEF Risen
  <2>4. \A i \in 1..(N + 1) : i = N + 1 \/ i \in 1..N
    OBVIOUS
  <2>5. QED
    BY <2>2, <2>3, <2>4
<1>13. health'.healthy <=> Risen'
  BY <1>2, <1>6, <1>7, <1>10, <1>12 DEF HealthInv
<1>14. QED
  BY <1>4, <1>9, <1>13 DEF HealthInv

\* A probe is the one step that moves the counters; a restart begins a new history.
LEMMA StepHealthInv ==
    ASSUME Shapes, HealthInv, [Next]_vars
    PROVE  HealthInv'
<1>1. CASE UNCHANGED checker
  <2>1. UNCHANGED <<prober, health, probes>>
    BY <1>1 DEF checker
  <2>2. \A n, i : /\ Failed(n, i)' <=> Failed(n, i)
                  /\ Worked(n, i)' <=> Worked(n, i)
    BY <2>1 DEF Failed, Worked, InARow
  <2>3. \A i : /\ RoseAt(i)' <=> RoseAt(i)
               /\ FellAt(i)' <=> FellAt(i)
    BY <2>1 DEF RoseAt, FellAt, InARow
  <2>4. Risen' <=> Risen
    BY <2>1, <2>3 DEF Risen
  <2>5. Counts'
    BY <2>1, <2>2 DEF HealthInv, Counts
  <2>6. QED
    BY <2>1, <2>4, <2>5 DEF HealthInv
<1>2. CASE probes' = <<>> /\ health' = Unchecked
  <2>1. (probes = <<>> /\ health = Unchecked)' => HealthInv'
    BY NoProbes, PTL
  <2>2. QED
    BY <1>2, <2>1 DEF Unchecked
<1>3. CASE \E connected \in BOOLEAN : Check(connected)
  BY <1>3, ProbeHealth DEF Check
<1>4. QED
  BY <1>1, <1>2, <1>3 DEF Next, vars, Start, StartChecking, OpenApi, OpenListener, GiveUp, Die,
     Dies, StopChecking, Call, Refuse, Reload, Store, others, Scan, AtRest

\* "healthy status based on thresholds" (update_health_status): for any thresholds, and
\* any edits of them between the probes, the upstream counts as healthy exactly if it
\* once connected as often in a row as was asked for and has not since failed so, and
\* GET /health says "ok" of such an upstream only.
THEOREM HealthIsTold == Spec => []HealthTold
<1>1. HealthInv => HealthTold
  <2>1. SUFFICES ASSUME HealthInv, up PROVE HealthIsHistory(live.health)
    BY DEF HealthTold
  <2>2. Risen => probes # <<>>
    BY DEF Risen
  <2>3. QED
    BY <2>1, <2>2 DEF HealthInv, HealthIsHistory, Risen, Reported
<1>2. Init => Shapes /\ HealthInv
  BY InitShapes, NoProbes DEF Init, HealthInit
<1>3. Shapes /\ HealthInv /\ [Next]_vars => Shapes' /\ HealthInv'
  BY StepShapes, StepHealthInv
<1>4. QED
  BY <1>1, <1>2, <1>3, PTL DEF Spec

-----------------------------------------------------------------------------
(* Types *)

\* A step of a handler, as far as the types of the store go.
LEMMA HandlerTypes ==
    ASSUME Shapes, Shapes', StoreTypeOK, NEW h \in Handlers,
           HandlerStep(h) \/ Admit(h) \/ Refuse(h)
    PROVE  /\ UNCHANGED <<scene, up, key, rpc, read, reloads, quiet, saves, crashes>> /\ up
           /\ pc' \in [Handlers -> {"idle", "admitted", "cloned", "opened", "written", "renamed",
                                   "acked", "answered", "rejected", "refused", "failed",
                                   "dropped", "dead"}]
           /\ fd' \in [Handlers -> Inodes \cup {NoFile}]
           /\ \A g \in Handlers : new'[g] = NoFile \/ IsPolicy(new'[g])
           /\ detached' \in SUBSET Handlers
           /\ events' \in Nat
<1> DEFINE Stages == {"idle", "admitted", "cloned", "opened", "written", "renamed", "acked",
                      "answered", "rejected", "refused", "failed", "dropped", "dead"}
<1>1. /\ pc \in [Handlers -> Stages] /\ fd \in [Handlers -> Inodes \cup {NoFile}]
      /\ detached \in SUBSET Handlers /\ events \in Nat
      /\ \A g \in Handlers : new[g] = NoFile \/ IsPolicy(new[g])
  BY DEF StoreTypeOK
<1>2. UNCHANGED <<scene, up, key, rpc, read, reloads, quiet, saves, crashes>> /\ up
  BY DEF Admit, Refuse, HandlerStep, AddRules, DeleteRule, UpdateConfig, Answer, Clone,
     OpenTmp, WriteTmp, Rename, PersistFails, Swap, Disconnect, process, reloader, watcher
<1>3. pc' \in [Handlers -> Stages]
  BY <1>1 DEF Admit, Refuse, HandlerStep, AddRules, DeleteRule, UpdateConfig, Answer, Clone,
     OpenTmp, WriteTmp, Rename, PersistFails, AfterWrite, Swap, Disconnect, GoTo
<1>4. fd' \in [Handlers -> Inodes \cup {NoFile}]
  <2>1. CASE OpenTmp(h)
    <3>1. h \in Inodes /\ tmp \in Inodes \cup {NoFile}
      BY DEF Inodes, Shapes
    <3> QED BY <1>1, <2>1, <3>1 DEF OpenTmp
  <2>2. CASE ~OpenTmp(h)
    <3>1. fd' = fd
      BY <2>2 DEF Admit, Refuse, HandlerStep, AddRules, DeleteRule, UpdateConfig, Answer, Clone,
         WriteTmp, Rename, PersistFails, Swap, Disconnect
    <3> QED BY <1>1, <3>1
  <2> QED BY <2>1, <2>2
<1>5. \A g \in Handlers : new'[g] = NoFile \/ IsPolicy(new'[g])
  <2>1. CASE pc'[h] = "cloned" /\ pc[h] = "admitted"
    <3>1. Resolved(new[h])'
      BY <2>1 DEF Shapes, Editing
    <3>2. IsPolicy(new'[h])
      BY <3>1 DEF Resolved, Formed
    <3>3. \A g \in Handlers \ {h} : new'[g] = new[g]
      BY DEF Admit, Refuse, HandlerStep, AddRules, DeleteRule, UpdateConfig, Answer, Clone,
         OpenTmp, WriteTmp, Rename, PersistFails, Swap, Disconnect, Shapes
    <3> QED BY <1>1, <3>2, <3>3
  <2>2. CASE ~(pc'[h] = "cloned" /\ pc[h] = "admitted")
    <3>1. new' = new
      BY <2>2 DEF Admit, Refuse, HandlerStep, AddRules, DeleteRule, UpdateConfig, Answer, Clone,
         OpenTmp, WriteTmp, Rename, PersistFails, Swap, Disconnect, GoTo, Shapes
    <3> QED BY <1>1, <3>1
  <2> QED BY <2>1, <2>2
<1>6. detached' \in SUBSET Handlers
  BY <1>1 DEF Admit, Refuse, HandlerStep, AddRules, DeleteRule, UpdateConfig, Answer, Clone,
     OpenTmp, WriteTmp, Rename, PersistFails, Swap, Disconnect
<1>7. events' \in Nat
  <2>1. events' \in {events, events + 1, events + 2}
    BY DEF Admit, Refuse, HandlerStep, AddRules, DeleteRule, UpdateConfig, Answer, Clone,
       OpenTmp, WriteTmp, Rename, PersistFails, Swap, Disconnect, Notify, watcher
  <2> QED BY <1>1, <2>1
<1> QED BY <1>2, <1>3, <1>4, <1>5, <1>6, <1>7

\* The process counts its crashes up to the bound.
LEMMA CrashesMove ==
    ASSUME [Next]_vars, scene \in Scenes, crashes \in 0..scene.crashes
    PROVE  crashes' \in 0..scene.crashes
<1>1. scene.crashes \in Nat
  BY ConfigStoreAssumption
<1>2. \/ crashes' = crashes
      \/ crashes < scene.crashes /\ crashes' = crashes + 1
  <2>1. CASE \E h \in Handlers : HandlerStep(h)
    BY <2>1 DEF HandlerStep, AddRules, DeleteRule, UpdateConfig, Answer, Clone, OpenTmp,
                WriteTmp,
       Rename, PersistFails, Swap, Disconnect
  <2>2. CASE (\E h \in Handlers : Call(h) \/ Refuse(h)) \/ \E r \in Reloaders : Reload(r)
    BY <2>2 DEF Call, Admit, Refuse, Reload, ApiReload
  <2>3. CASE Store /\ ~\E h \in Handlers : HandlerStep(h)
    BY <2>3 DEF Store, StoreStep, WatcherStep, ReloadOnEvent, SetKey, SwapReloaded, DropEvent,
       SecondPasses, Save
  <2>4. CASE Start \/ OpenApi \/ OpenListener \/ GiveUp \/ Die
    BY <2>4 DEF Start, Boot, OpenApi, OpenListener, GiveUp, Die, Crash, store
  <2>5. CASE (\E connected \in BOOLEAN : Check(connected)) \/ Scan \/ AtRest \/ UNCHANGED vars
    BY <2>5 DEF Check, Scan, AtRest, vars, store
  <2> QED BY <2>1, <2>2, <2>3, <2>4, <2>5 DEF Next, Store, StoreStep
<1> QED BY <1>1, <1>2
\* The types of the store: those of the policies are in Shapes already.
LEMMA InitStoreTypes ==
    Init => StoreTypeOK
<1> SUFFICES ASSUME Init PROVE StoreTypeOK
  OBVIOUS
<1>1. /\ scene \in Scenes /\ path \in Inodes /\ tmp \in Inodes \cup {NoFile}
      /\ \A i \in Inodes : content[i] = Torn \/ IsPolicy(content[i])
  BY InitShapes DEF Shapes, Formed
<1>2. {scene.saves, scene.reloads, scene.crashes} \subseteq Nat
  BY <1>1, ConfigStoreAssumption
<1>3. /\ reloads \in 0..scene.reloads /\ saves \in 0..scene.saves
      /\ crashes \in 0..scene.crashes /\ events \in Nat
  BY <1>2 DEF Init, StoreInit
<1> QED BY <1>1, <1>3 DEF Init, StoreInit, StoreTypeOK

LEMMA StepStoreTypes ==
    ASSUME Shapes, StoreTypeOK, [Next]_vars
    PROVE  StoreTypeOK'
<1>1. Shapes'
  BY StepShapes
<1>2. scene' = scene /\ scene \in Scenes /\ crashes' \in 0..scene.crashes
  BY SceneStays, CrashesMove DEF StoreTypeOK
<1>3. scene.saves \in Nat /\ scene.reloads \in Nat
  BY <1>2, ConfigStoreAssumption
<1>4. /\ scene' \in Scenes /\ path' \in Inodes /\ tmp' \in Inodes \cup {NoFile}
      /\ \A i \in Inodes : content'[i] = Torn \/ IsPolicy(content'[i])
      /\ up' => IsPolicy(live')
      /\ crashes' \in 0..scene'.crashes
      /\ raced' \subseteq {"write", "policy"}
  <2>1. raced' \in {raced, raced \cup {"write"}, raced \cup {"policy"}}
    BY StoreMoves DEF store, HandlerStep, AddRules, DeleteRule, UpdateConfig, Answer, Clone,
       OpenTmp, WriteTmp, Rename, PersistFails, Swap, Disconnect, Admit, Refuse, WatcherStep,
       ApiReload, ReloadOnEvent, SetKey, SwapReloaded, Boot, Exit, DropEvent, SecondPasses, Save,
       Overtakes
  <2>2. raced' \subseteq {"write", "policy"}
    BY <2>1 DEF StoreTypeOK
  <2> QED BY <1>1, <1>2, <2>2 DEF Shapes, Resolved, Formed
<1> DEFINE Typed ==
      /\ up' \in BOOLEAN
      /\ ~up' => live' = NoFile
      /\ key' \in Secrets \cup {RandomKey}
      /\ pc' \in [Handlers -> {"idle", "admitted", "cloned", "opened", "written", "renamed",
                              "acked", "answered", "rejected", "refused", "failed",
                              "dropped", "dead"}]
      /\ fd' \in [Handlers -> Inodes \cup {NoFile}]
      /\ \A h \in Handlers : new'[h] = NoFile \/ IsPolicy(new'[h])
      /\ detached' \in SUBSET Handlers
      /\ rpc' \in [Reloaders -> {"idle", "loaded", "keyed"}]
      /\ \A r \in Reloaders : read'[r] = NoFile \/ IsPolicy(read'[r])
      /\ reloads' \in 0..scene.reloads
      /\ events' \in Nat
      /\ quiet' \in BOOLEAN
      /\ saves' \in 0..scene.saves
<1>5. SUFFICES Typed
  BY <1>2, <1>4 DEF StoreTypeOK
<1>6. CASE UNCHANGED store
  BY <1>6 DEF store, files, process, handlers, reloader, watcher, StoreTypeOK
<1>7. CASE \E h \in Handlers : HandlerStep(h) \/ Admit(h) \/ Refuse(h)
  BY <1>1, <1>7, HandlerTypes DEF StoreTypeOK
<1>8. ASSUME NEW r \in Reloaders, WatcherStep(r) \/ ApiReload(r) PROVE Typed
  <2>1. UNCHANGED <<up, pc, fd, new, detached, saves>> /\ up
    BY <1>8 DEF WatcherStep, ApiReload, ReloadOnEvent, Load, SetKey, SwapReloaded, process,
                handlers
  <2>2. key' \in Secrets \cup {RandomKey}
    <3>1. CASE SetKey(r)
      <4>1. IsPolicy(read[r])
        BY <3>1 DEF SetKey, Shapes, Resolved, Formed
      <4> QED BY <3>1, <4>1 DEF SetKey, StoreTypeOK, IsPolicy
    <3>2. CASE ~SetKey(r)
      <4>1. key' = key
        BY <1>8, <3>2 DEF WatcherStep, ApiReload, ReloadOnEvent, SwapReloaded, process
      <4> QED BY <4>1 DEF StoreTypeOK
    <3> QED BY <3>1, <3>2
  <2>3. rpc' \in [Reloaders -> {"idle", "loaded", "keyed"}]
    BY <1>8 DEF WatcherStep, ApiReload, ReloadOnEvent, Load, SetKey, SwapReloaded, StoreTypeOK
  <2>4. \A q \in Reloaders : read'[q] = NoFile \/ IsPolicy(read'[q])
    <3>1. \A q \in Reloaders : read[q] = NoFile \/ IsPolicy(read[q])
      BY DEF StoreTypeOK
    <3>2. CASE read' = read
      BY <3>1, <3>2
    <3>3. CASE File # Torn /\ read' = [read EXCEPT ![r] = Loaded(File)]
      <4>1. Formed(File) /\ scene \in Scenes
        BY <3>3 DEF Shapes, File
      <4>2. IsPolicy(Loaded(File))
        BY <4>1, LoadResolves DEF Resolved, Formed
      <4> QED BY <3>1, <3>3, <4>2 DEF Shapes
    <3>4. CASE read' = [read EXCEPT ![r] = NoFile]
      BY <3>1, <3>4 DEF Shapes
    <3> QED BY <1>8, <3>2, <3>3, <3>4 DEF WatcherStep, ApiReload, ReloadOnEvent, Load, SetKey,
              SwapReloaded
  <2>5. reloads' \in 0..scene.reloads
    <3>1. reloads' = reloads \/ (reloads < scene.reloads /\ reloads' = reloads + 1)
      BY <1>8 DEF WatcherStep, ApiReload, ReloadOnEvent, SetKey, SwapReloaded
    <3> QED BY <1>3, <3>1 DEF StoreTypeOK
  <2>6. events' \in Nat /\ quiet' \in BOOLEAN
    <3>1. events' = events \/ (events > 0 /\ events' = events - 1)
      BY <1>8 DEF WatcherStep, ApiReload, ReloadOnEvent, SetKey, SwapReloaded, watcher
    <3>2. quiet' = quiet \/ quiet' = FALSE
      BY <1>8 DEF WatcherStep, ApiReload, ReloadOnEvent, SetKey, SwapReloaded, watcher
    <3>3. events \in Nat /\ quiet \in BOOLEAN
      BY DEF StoreTypeOK
    <3>4. events' \in Nat
      BY <3>1, <3>3
    <3>5. quiet' \in BOOLEAN
      BY <3>2, <3>3
    <3> QED BY <3>4, <3>5
  <2>7. ~up' => live' = NoFile
    BY <2>1
  <2> QED BY <2>1, <2>2, <2>3, <2>4, <2>5, <2>6, <2>7 DEF StoreTypeOK
<1>9. CASE Boot
  <2>1. Formed(File) /\ scene \in Scenes
    BY <1>9 DEF Boot, Shapes, File
  <2>2. IsPolicy(Loaded(File))
    BY <2>1, LoadResolves DEF Resolved, Formed
  <2>3. KeyFrom(Loaded(File).secret) \in Secrets \cup {RandomKey}
    BY <2>2 DEF IsPolicy, KeyFrom
  <2> QED BY <1>9, <2>3 DEF Boot, handlers, reloader, watcher, StoreTypeOK
<1>10. CASE Exit
  <2>1. pc' \in [Handlers -> {"idle", "admitted", "cloned", "opened", "written", "renamed",
                              "acked", "answered", "rejected", "refused", "failed",
                              "dropped", "dead"}]
    BY <1>10 DEF Exit, StoreTypeOK
  <2>2. /\ rpc' \in [Reloaders -> {"idle", "loaded", "keyed"}]
        /\ \A r \in Reloaders : read'[r] = NoFile \/ IsPolicy(read'[r])
    BY <1>10 DEF Exit
  <2> QED BY <1>10, <2>1, <2>2 DEF Exit, StoreTypeOK
<1>11. CASE DropEvent \/ SecondPasses
  <2>1. events' \in Nat
    <3>1. events' = events \/ (events > 0 /\ events' = events - 1)
      BY <1>11 DEF DropEvent, SecondPasses
    <3> QED BY <3>1 DEF StoreTypeOK
  <2> QED BY <1>11, <2>1 DEF DropEvent, SecondPasses, files, process, handlers, reloader,
                             StoreTypeOK
<1>12. ASSUME NEW c \in scene.edits, Save(c) PROVE Typed
  <2>1. events' \in Nat
    <3>1. events' \in {events, events + 1, events + 2}
      BY <1>12 DEF Save, Notify
    <3> QED BY <3>1 DEF StoreTypeOK
  <2>2. saves' \in 0..scene.saves
    <3>1. saves < scene.saves /\ saves' = saves + 1
      BY <1>12 DEF Save
    <3> QED BY <1>3, <3>1 DEF StoreTypeOK
  <2> QED BY <1>12, <2>1, <2>2 DEF Save, process, handlers, reloader, StoreTypeOK
<1> QED BY <1>6, <1>7, <1>8, <1>9, <1>10, <1>11, <1>12, StoreMoves
\* What the process has been started with, and where its API listens.
LaunchTypes ==
    /\ launch \in scene.launches
    /\ api \in {"off", "starting", "loopback", "everywhere"}
    /\ listening \in BOOLEAN
    /\ IF up THEN Formed(booted) /\ Understood(launch, booted)
             ELSE booted = NoFile /\ api = "off" /\ ~listening

\* The address that is told is one that can be bound.
LEMMA BindsWhatIsTold ==
    ASSUME NEW l, NEW c, Binds(l.cli), Binds(l.env), Binds(c.settings), Understood(l, c)
    PROVE  Told(l, c, "apiBind") \in {"loopback", "everywhere"}
<1> DEFINE sources == <<l.cli, l.env, c.settings>>
           told    == Resolve(sources, "apiBind", Default["apiBind"])
<1>1. Told(l, c, "apiBind") = told
  BY DEF Told
<1>2. Default["apiBind"] = "loopback" /\ told # Invalid
  BY <1>1 DEF Default, ListenSettings, Understood
<1>3. \/ told = Default["apiBind"]
      \/ \E i \in DOMAIN sources : "apiBind" \in DOMAIN sources[i] /\ sources[i]["apiBind"] = told
  BY FirstDecides
<1>4. \A i \in DOMAIN sources : Binds(sources[i])
  OBVIOUS
<1> HIDE DEF sources, told
<1>5. told \in {"loopback", "everywhere"}
  BY <1>2, <1>3, <1>4 DEF Binds
<1> QED BY <1>1, <1>5

LEMMA StepLaunchTypes ==
    ASSUME Shapes, LaunchTypes, [Next]_vars
    PROVE  LaunchTypes'
<1>1. scene' = scene /\ scene \in Scenes
  BY SceneStays DEF Shapes
<1>2. \A c : Formed(c)' <=> Formed(c)
  BY DEF Formed
<1>3. CASE UNCHANGED <<launched, up>>
  BY <1>1, <1>2, <1>3 DEF LaunchTypes, launched
<1>4. CASE Boot /\ Launched(Loaded(File))
  <2>1. Formed(File)
    BY <1>4 DEF Boot, Shapes, File
  <2>2. Formed(Loaded(File))
    BY <1>1, <2>1, LoadResolves DEF Resolved
  <2> QED BY <1>1, <1>2, <1>4, <2>2 DEF Boot, Launched, LaunchTypes
<1>5. CASE up /\ ApiListens(live) /\ UNCHANGED up
  <2>1. Binds(launch.cli) /\ Binds(launch.env) /\ Binds(booted.settings)
    BY <1>1, <1>5, ControlPlaneAssumption DEF LaunchTypes, Formed
  <2>2. Told(launch, booted, "apiBind") \in {"loopback", "everywhere"}
    BY <1>5, <2>1, BindsWhatIsTold DEF LaunchTypes
  <2> QED BY <1>1, <1>2, <1>5, <2>2 DEF ApiListens, LaunchTypes
<1>6. CASE up /\ Listen /\ UNCHANGED up
  BY <1>1, <1>2, <1>6 DEF Listen, LaunchTypes
<1>7. CASE Exit /\ Gone(NoFile)
  BY <1>1, <1>7 DEF Exit, Gone, LaunchTypes
<1> QED BY <1>3, <1>4, <1>5, <1>6, <1>7, LaunchMoves

\* A database scan: without one nothing is asked.
ScanTypes ==
    /\ ScanTypeOK
    /\ job \in scene.scans
    /\ job = NoScan => stage = "done"

LEMMA StepScanTypes ==
    ASSUME scene \in Scenes, ScanTypes, [Next]_vars
    PROVE  ScanTypes'
<1>1. scene' = scene
  BY SceneStays
<1>2. CASE UNCHANGED scanner
  BY <1>1, <1>2 DEF ScanTypes, ScanTypeOK, scanner
<1>3. CASE Dies
  BY <1>1, <1>3 DEF Dies, ScanTypes, ScanTypeOK
<1>4. CASE ScanStep
  <2>1. job' = job /\ job # NoScan /\ stage # "done"
    BY <1>4 DEF ScanStep, CheckRequest, Connect, ListColumns, SampleTable, Sampled,
                DescribeTable,
       Complete, ScanTimesOut, EndScan, GoScan, ScanTypes
  <2>2. stage' \in {"asked", "connecting", "connected", "reading", "done"}
    BY <1>4 DEF ScanStep, CheckRequest, Connect, ListColumns, SampleTable, Sampled,
                DescribeTable,
       Complete, ScanTimesOut, EndScan, GoScan, ScanTypes, ScanTypeOK
  <2>3. todo' \subseteq DOMAIN job.database
    BY <1>4, <2>1 DEF ScanStep, CheckRequest, Connect, ListColumns, SampleTable, Sampled,
       DescribeTable, Complete, ScanTimesOut, EndScan, GoScan, ScanTypes, ScanTypeOK
  <2>4. columns' \in Nat
    <3>1. \/ columns' = columns
          \/ \E t \in todo : columns' = columns + Cardinality(Columns(t))
      BY <1>4 DEF ScanStep, CheckRequest, Connect, ListColumns, SampleTable, Sampled,
         DescribeTable, Complete, ScanTimesOut, EndScan, GoScan
    <3>2. \A t \in todo : Cardinality(Columns(t)) \in Nat
      BY <2>1, ControlPlaneAssumption, FS_CardinalityType DEF Columns, ScanTypes,
                                                              ScanTypeOK, IsJob
    <3> QED BY <3>1, <3>2 DEF ScanTypes, ScanTypeOK
  <2> QED BY <1>1, <2>1, <2>2, <2>3, <2>4 DEF ScanTypes, ScanTypeOK
<1> QED BY <1>2, <1>3, <1>4 DEF Next, vars, Start, OpenApi, OpenListener, GiveUp, Die,
                                Call, Refuse,
           Reload, Store, others, Check, Scan, AtRest

\* The counters are runs at the end of the probes, and no longer than these.
LEMMA HealthTyped ==
    HealthInv /\ prober \in BOOLEAN => HealthTypeOK
<1> SUFFICES ASSUME HealthInv, prober \in BOOLEAN PROVE HealthTypeOK
  OBVIOUS
<1>1. Len(probes) \in Nat
  BY DEF HealthInv, Counts
<1>2. /\ health.checked \in BOOLEAN /\ health.healthy \in BOOLEAN
      /\ health.failures \in Nat /\ health.successes \in Nat
  BY DEF HealthInv, Counts
<1>3. Failed(health.failures, Len(probes)) /\ Worked(health.successes, Len(probes))
  BY <1>2 DEF HealthInv, Counts
<1>4. health.failures <= Len(probes) /\ health.successes <= Len(probes)
  BY <1>3 DEF Failed, Worked, InARow
<1> QED BY <1>1, <1>2, <1>4 DEF HealthTypeOK

\* Type correctness of the whole control plane.
THEOREM ControlPlaneTyped == Spec => []TypeOK
<1> DEFINE Types == /\ Shapes /\ StoreTypeOK /\ LaunchTypes /\ ScanTypes
                    /\ HealthInv /\ prober \in BOOLEAN
<1>1. Init => Types
  <2> SUFFICES ASSUME Init PROVE Types
    OBVIOUS
  <2>1. Shapes /\ StoreTypeOK /\ HealthInv
    BY InitShapes, InitStoreTypes, NoProbes DEF Init, HealthInit
  <2>2. LaunchTypes
    BY DEF Init, StoreInit, LaunchInit, LaunchTypes
  <2>3. ScanTypes
    BY DEF Init, ScanInit, ScanTypes, ScanTypeOK
  <2> QED BY <2>1, <2>2, <2>3 DEF Init, HealthInit
<1>2. Types /\ [Next]_vars => Types'
  <2> SUFFICES ASSUME Types, [Next]_vars PROVE Types'
    OBVIOUS
  <2>1. Shapes' /\ StoreTypeOK' /\ LaunchTypes' /\ ScanTypes' /\ HealthInv'
    BY StepShapes, StepStoreTypes, StepLaunchTypes, StepScanTypes, StepHealthInv DEF Shapes
  <2>2. prober' \in BOOLEAN
    <3>1. CASE Start
      <4>1. Formed(File) /\ scene \in Scenes
        BY <3>1 DEF Start, Boot, Shapes, File
      <4>2. Formed(Loaded(File))
        BY <4>1, LoadResolves DEF Resolved
      <4> QED BY <3>1, <4>2 DEF Start, StartChecking, Formed, Limits
    <3>2. CASE ~Start
      BY <3>2 DEF Next, vars, checker, OpenApi, OpenListener, GiveUp, Die, Dies,
                  StopChecking, Call,
         Refuse, Reload, Store, others, Check, Probe, Scan, AtRest
    <3> QED BY <3>1, <3>2
  <2> QED BY <2>1, <2>2
<1>3. Types => TypeOK
  BY HealthTyped DEF TypeOK, LaunchTypes, ScanTypes, Formed
<1> QED BY <1>1, <1>2, <1>3, PTL DEF Spec

-----------------------------------------------------------------------------
(* Database scans *)

\* The confidence of a column is a percentage, and it is met by the share that is asked for.
LEMMA RatioOf ==
    ASSUME NEW m \in Nat, NEW n \in Nat, n > 0, m <= n
    PROVE  /\ (100 * m) \div n \in 0..100
           /\ \A t \in Nat : 100 * m >= t * n => (100 * m) \div n >= t
<1>1. (100 * m) \div n \in Nat
  BY SMTT(30)
<1>2. (100 * m) \div n <= 100
  BY SMTT(30)
<1>3. ASSUME NEW t \in Nat, 100 * m >= t * n PROVE (100 * m) \div n >= t
  BY <1>3, SMTT(30)
<1> QED BY <1>1, <1>2, <1>3

\* A sample is finite, and no more values match than it has.
LEMMA SampleIs ==
    ASSUME IsJob(job), NEW t \in DOMAIN job.database, NEW c, NEW types
    PROVE  /\ SampleSize(t) \in Nat
           /\ Len(Values(t, c)) = SampleSize(t)
           /\ IsFiniteSet(Matches(Values(t, c), types))
           /\ Cardinality(Matches(Values(t, c), types)) \in 0..SampleSize(t)
           /\ Matches(Values(t, c), types) # {} => SampleSize(t) > 0
<1> DEFINE n == SampleSize(t)   values == Values(t, c)   matches == Matches(values, types)
<1>1. n \in Nat
  <2>1. ASSUME NEW a \in Nat, NEW b \in Nat, NEW d \in Nat PROVE Min({a, b, d}) \in Nat
    <3>1. \E x \in {a, b, d} : \A y \in {a, b, d} : x <= y
      OBVIOUS
    <3> QED BY <3>1 DEF Min
  <2> QED BY <2>1, DbScannerAssumption DEF SampleSize, IsJob
<1>2. DOMAIN values = 1..n
  BY DEF Values
<1> HIDE DEF n
<1>3. Len(values) = n
  <2> DEFINE S == {values[i] : i \in 1..n}
  <2>1. values = [i \in 1..n |-> values[i]]
    BY DEF Values, n
  <2> HIDE DEF values
  <2>2. values \in Seq(S)
    BY <1>1, <1>2, <2>1
  <2>3. Len(values) \in Nat /\ DOMAIN values = 1..Len(values)
    BY <2>2
  <2> QED BY <1>1, <1>2, <2>3
<1> HIDE DEF values
<1>4. matches \subseteq 1..n
  BY <1>2 DEF Matches
<1>5. IsFiniteSet(1..n) /\ Cardinality(1..n) = n
  BY <1>1, FS_Interval
<1> HIDE DEF matches
<1>6. IsFiniteSet(matches) /\ Cardinality(matches) \in Nat /\ Cardinality(matches) <= n
  BY <1>4, <1>5, FS_Subset, FS_CardinalityType
<1>7. ASSUME matches # {} PROVE n > 0
  <2>1. PICK i \in matches : i \in 1..n
    BY <1>4, <1>7
  <2> QED BY <1>1, <2>1
<1>8. Cardinality(matches) \in 0..n
  BY <1>1, <1>6
<1> QED BY <1>1, <1>3, <1>6, <1>7, <1>8 DEF n, values, matches

LEMMA SampleShape ==
    ASSUME IsJob(job), NEW t \in DOMAIN job.database, NEW c, Values(t, c) # <<>>
    PROVE  Len(Values(t, c)) > 0
<1>1. Len(Values(t, c)) = SampleSize(t) /\ SampleSize(t) \in Nat
  BY SampleIs
<1>2. SampleSize(t) = 0 => Values(t, c) = <<>>
  BY DEF Values
<1> QED BY <1>1, <1>2

\* A value is of one type at most; what no value shows is the type of none.
LEMMA OneTypeEach ==
    ASSUME NEW values, NEW type \in PiiTypes
    PROVE  /\ Matches(values, {type}) \subseteq Matches(values, PiiTypes)
           /\ \A other \in PiiTypes \ {type} :
                 Matches(values, {type}) = Matches(values, PiiTypes) =>
                     Matches(values, {other}) = {}
BY DEF Matches, Detected

LEMMA NothingDetected ==
    ASSUME NEW values, Matches(values, PiiTypes) = {}
    PROVE  MostCommon(values) = {}
<1>1. \A type \in PiiTypes : Matches(values, {type}) = {}
  BY OneTypeEach
<1> QED BY <1>1 DEF MostCommon

LEMMA OneTypeDetected ==
    ASSUME IsJob(job), NEW t \in DOMAIN job.database, NEW c, NEW type \in PiiTypes,
           Matches(Values(t, c), {type}) = Matches(Values(t, c), PiiTypes),
           Matches(Values(t, c), PiiTypes) # {}
    PROVE  MostCommon(Values(t, c)) = {type}
<1> DEFINE matches(other) == Matches(Values(t, c), {other})
<1>1. \A other \in PiiTypes \ {type} : matches(other) = {}
  BY OneTypeEach
<1>2. Cardinality(matches(type)) \in Nat /\ matches(type) # {}
  <2>1. Cardinality(matches(type)) \in 0..SampleSize(t) /\ SampleSize(t) \in Nat
    BY SampleIs
  <2> HIDE DEF matches
  <2>2. Cardinality(matches(type)) \in Nat
    BY <2>1
  <2> QED BY <2>2 DEF matches
<1>3. \A other \in PiiTypes \ {type} : Cardinality(matches(other)) <= Cardinality(matches(type))
  <2>1. Cardinality({}) = 0
    BY FS_EmptySet
  <2> HIDE DEF matches
  <2> QED BY <1>1, <1>2, <2>1
<1>4. \A other \in PiiTypes : Cardinality(matches(other)) <= Cardinality(matches(type))
  <2> HIDE DEF matches
  <2> QED BY <1>2, <1>3
<1>5. type \in MostCommon(Values(t, c))
  BY <1>2, <1>4 DEF MostCommon
<1>6. \A other \in MostCommon(Values(t, c)) : other = type
  BY <1>1 DEF MostCommon
<1> QED BY <1>5, <1>6

\* What a column adds is one finding about it, or none.
LEMMA ColumnFinding ==
    ASSUME NEW t, NEW c, NEW about, about \in FindingsOf(t, c)
    PROVE  /\ \A f \in about : f.table = t /\ f.column = c
           /\ Cardinality(about) <= 1
<1>0. Cardinality({}) = 0 /\ \A f : Cardinality({f}) = 1
  BY FS_EmptySet, FS_Singleton
<1>1. CASE ~job.database[t].columns[c].scannable
  BY <1>0, <1>1 DEF FindingsOf
<1>2. CASE job.database[t].columns[c].scannable
  <2>1. PICK v \in Verdicts(t, c) :
           about = IF v.type # NoHint /\ v.confidence >= job.threshold THEN {Finding(t, c, v)}
                                                                       ELSE {}
    BY <1>2 DEF FindingsOf
  <2>2. Finding(t, c, v).table = t /\ Finding(t, c, v).column = c
    BY DEF Finding
  <2> QED BY <1>0, <2>1, <2>2
<1> QED BY <1>1, <1>2

\* A table adds the findings of its columns.
LEMMA TableFinding ==
    ASSUME NEW t, NEW found \in TableFindings(t)
    PROVE  /\ \A f \in found : f.table = t
           /\ \A c \in Columns(t) : {f \in found : f.column = c} \in FindingsOf(t, c)
<1>1. PICK of \in [Columns(t) -> UNION {FindingsOf(t, c) : c \in Columns(t)}] :
         /\ \A c \in Columns(t) : of[c] \in FindingsOf(t, c)
         /\ found = UNION Range(of)
  BY DEF TableFindings
<1>2. found = UNION {of[c] : c \in Columns(t)}
  BY <1>1 DEF Range
<1>3. \A c \in Columns(t) : \A f \in of[c] : f.table = t /\ f.column = c
  BY <1>1, ColumnFinding
<1>4. ASSUME NEW c \in Columns(t) PROVE {f \in found : f.column = c} = of[c]
  BY <1>2, <1>3
<1>5. \A f \in found : f.table = t
  BY <1>2, <1>3
<1> QED BY <1>1, <1>4, <1>5

\* What a column adds to a report is what ReportIsComplete says of the column.
LEMMA ColumnIsReported ==
    ASSUME IsJob(job), NEW t \in DOMAIN job.database, NEW c, NEW about, about \in FindingsOf(t, c)
    PROVE  ColumnReported(t, c, about)
<1> DEFINE values    == Values(t, c)
           all       == Matches(values, PiiTypes)
           hint      == job.database[t].columns[c].hint
           scannable == job.database[t].columns[c].scannable
           Share     == 100 * Cardinality(all) >= job.threshold * Len(values)
<1>1. /\ Len(values) \in Nat /\ Cardinality(all) \in Nat /\ Cardinality(all) <= Len(values)
      /\ IsFiniteSet(all)
      /\ all # {} => Len(values) > 0
  <2>1. /\ SampleSize(t) \in Nat /\ Len(values) = SampleSize(t) /\ IsFiniteSet(all)
        /\ Cardinality(all) \in 0..SampleSize(t)
        /\ all # {} => SampleSize(t) > 0
    BY SampleIs
  <2> HIDE DEF all, values
  <2> QED BY <2>1
<1>2. job.threshold \in Nat
  BY DEF IsJob
<1>3. Cardinality(about) <= 1
  BY ColumnFinding
<1>4. CASE ~scannable
  <2>1. about = {}
    BY <1>4 DEF FindingsOf
  <2> QED BY <1>3, <1>4, <2>1 DEF ColumnReported
<1>5. CASE scannable
  <2>1. PICK v \in Verdicts(t, c) :
           about = IF v.type # NoHint /\ v.confidence >= job.threshold THEN {Finding(t, c, v)}
                                                                       ELSE {}
    BY <1>5 DEF FindingsOf
  <2>2. PICK type : /\ type \in IF MostCommon(values) = {} THEN {NoHint} ELSE MostCommon(values)
                    /\ v = Verdict(hint, type, Ratio(values), job.threshold)
    BY <2>1 DEF Verdicts
  <2>3. \A f \in about : /\ v.type # NoHint /\ f.type = v.type /\ f.confidence = v.confidence
                         /\ f.matches = Cardinality(all) /\ f.shown = Shown(values)
    BY <2>1 DEF Finding
  <2>4. v.type # NoHint /\ v.confidence >= job.threshold =>
           \E f \in about : f.type = v.type /\ f.confidence = v.confidence
    <3>1. /\ Finding(t, c, v).type = v.type /\ Finding(t, c, v).confidence = v.confidence
      BY DEF Finding
    <3> QED BY <2>1, <3>1
  <2>5. ASSUME all = {}
        PROVE  /\ v.type \in {hint, NoHint} /\ Shown(values) = 0
               /\ hint # NoHint /\ job.threshold \in 1..60 =>
                     v.type = hint /\ v.confidence >= job.threshold
    <3>1. type = NoHint
      BY <2>2, <2>5, NothingDetected
    <3>2. Ratio(values) = 0
      <4>1. Cardinality(all) = 0
        BY <2>5, FS_EmptySet
      <4> HIDE DEF all
      <4>2. Ratio(values) = IF values = <<>> THEN 0 ELSE (100 * 0) \div Len(values)
        BY <4>1 DEF Ratio, all
      <4>3. values # <<>> => Len(values) > 0
        BY SampleShape
      <4> HIDE DEF values
      <4> QED BY <1>1, <4>2, <4>3, SMTT(30)
    <3>3. Shown(values) = 0
      BY <2>5 DEF Shown
    <3>4. hint = NoHint => v.type = NoHint
      BY <2>2, <3>1 DEF Verdict
    <3>5. hint # NoHint => v = IF 0 < job.threshold THEN [type |-> hint, confidence |-> 60]
                                                   ELSE [type |-> NoHint, confidence |-> 0]
      BY <2>2, <3>1, <3>2 DEF Verdict
    <3> HIDE DEF hint, values
    <3>6. hint # NoHint /\ job.threshold \in 1..60 => v.type = hint /\ v.confidence = 60
      BY <3>5
    <3> QED BY <1>2, <3>3, <3>4, <3>5, <3>6
  <2>6. ASSUME NEW own \in PiiTypes, Matches(values, {own}) = all, Share, all # {},
               hint \in {own, NoHint}
        PROVE  \E f \in about : f.type = own /\ f.confidence >= job.threshold
    <3>1. type = own /\ own # NoHint
      <4>1. MostCommon(values) = {own}
        BY <2>6, OneTypeDetected
      <4> QED BY <2>2, <4>1, DbScannerAssumption
    <3>2. Ratio(values) = (100 * Cardinality(all)) \div Len(values)
      <4>1. values # <<>>
        BY <1>1, <2>6
      <4> QED BY <4>1 DEF Ratio
    <3>3. Ratio(values) \in 0..100 /\ Ratio(values) >= job.threshold
      <4> DEFINE m == Cardinality(all)   n == Len(values)
      <4>1. m \in Nat /\ n \in Nat /\ n > 0 /\ m <= n
        BY <1>1, <2>6
      <4>2. 100 * m >= job.threshold * n
        BY <2>6
      <4>3. Ratio(values) = (100 * m) \div n
        BY <3>2
      <4> HIDE DEF m, n
      <4> QED BY <1>2, <4>1, <4>2, <4>3, RatioOf
    <3>4. v.type = own /\ v.confidence \in {Ratio(values), Min({Ratio(values) + 30, 100})}
      BY <2>2, <2>6, <3>1 DEF Verdict
    <3>5. Min({Ratio(values) + 30, 100}) >= job.threshold
      <4> DEFINE r == Ratio(values)
      <4>1. r \in 0..100 /\ r >= job.threshold
        BY <3>3
      <4> HIDE DEF r
      <4>2. \E x \in {r + 30, 100} : \A y \in {r + 30, 100} : x <= y
        BY <4>1
      <4>3. Min({r + 30, 100}) \in {r + 30, 100}
        BY <4>2 DEF Min
      <4> QED BY <1>2, <4>1, <4>3 DEF r
    <3>6. v.confidence >= job.threshold
      BY <3>3, <3>4, <3>5
    <3> QED BY <2>4, <3>1, <3>4, <3>6
  <2>7. ASSUME NEW f \in about, f.matches = 0 PROVE f.type = hint /\ f.shown = 0
    <3>1. all = {}
      BY <1>1, <2>3, <2>7, FS_EmptySet
    <3> QED BY <2>3, <2>5, <2>7, <3>1
  <2>8. all = {} /\ hint # NoHint /\ job.threshold \in 1..60 => about # {}
    BY <2>4, <2>5
  <2>9. all = {} /\ hint = NoHint => about = {}
    BY <2>3, <2>5
  <2>10. \A own \in PiiTypes :
           /\ 100 * Cardinality(Matches(values, {own})) >= job.threshold * Len(values)
           /\ Matches(values, {own}) = all /\ all # {} /\ hint \in {own, NoHint}
           => \E f \in about : f.type = own /\ f.confidence >= job.threshold
    BY <2>6
  <2> DEFINE found == {w \in {values} : Matches(w, PiiTypes) # {}}
  <2>11. found # {} <=> all # {}
    OBVIOUS
  <2> QED BY <1>3, <1>5, <2>7, <2>8, <2>9, <2>10, <2>11 DEF ColumnReported
<1> QED BY <1>4, <1>5

\* The tables a scan is about.  Of those it has read, what it has gathered is what each one
\* adds, and it has gathered nothing else.
Chosen ==
    {t \in DOMAIN job.database :
        t \notin job.exclude /\ job.database[t].begins = "neither" /\ job.database[t].columns # <<>>}
OfTable(t) == {f \in findings : f.table = t}
Gathered ==
    /\ stage \in {"asked", "connecting", "connected"} => findings = {}
    /\ stage = "reading" =>
          /\ todo \subseteq Chosen
          /\ \A f \in findings : f.table \in Chosen \ todo
          /\ \A t \in Chosen \ todo :
                IF job.op = "schema" THEN OfTable(t) # {} ELSE OfTable(t) \in TableFindings(t)

ReportInv == ScanTypes /\ (job # NoScan => Gathered) /\ ReportIsComplete

\* What a table adds depends on the request only.
LEMMA SameJob ==
    ASSUME job' = job
    PROVE  /\ Chosen' = Chosen
           /\ \A t : TableFindings(t)' = TableFindings(t) /\ Columns(t)' = Columns(t)
           /\ \A t, c, about : ColumnReported(t, c, about)' = ColumnReported(t, c, about)
<1>1. \A t, c : Values(t, c)' = Values(t, c) /\ SampleSize(t)' = SampleSize(t)
  BY DEF Values, SampleSize
<1>2. \A t, c, v : Verdicts(t, c)' = Verdicts(t, c) /\ Finding(t, c, v)' = Finding(t, c, v)
  BY <1>1 DEF Verdicts, Finding
<1>3. \A t, c : FindingsOf(t, c)' = FindingsOf(t, c) /\ Columns(t)' = Columns(t)
  BY <1>2 DEF FindingsOf, Columns
<1>4. \A t : TableFindings(t)' = TableFindings(t)
  BY <1>3 DEF TableFindings
<1>5. ASSUME NEW t, NEW c, NEW about
      PROVE  ColumnReported(t, c, about)' = ColumnReported(t, c, about)
  <2>1. Values(t, c)' = Values(t, c)
    BY <1>1
  <2> QED BY <2>1 DEF ColumnReported
<1> QED BY <1>3, <1>4, <1>5 DEF Chosen

\* An end without a report.
LEMMA EndsInFailure ==
    ASSUME NEW code, code # "ok", EndScan(code, {})
    PROVE  Gathered' /\ ReportIsComplete'
BY DEF EndScan, Gathered, ReportIsComplete

\* A report, when every table has been read.
LEMMA EndsInReport ==
    ASSUME IsJob(job), Gathered, stage = "reading", todo = {}, EndScan("ok", findings)
    PROVE  Gathered' /\ ReportIsComplete'
<1>1. stage' = "done" /\ job' = job /\ answer'.code = "ok" /\ answer'.findings = findings
  BY DEF EndScan
<1>2. Chosen' = Chosen /\ \A t : Columns(t)' = Columns(t)
  BY <1>1, SameJob
<1>3. {f.table : f \in findings} \subseteq Chosen
  BY DEF Gathered
<1>4. ASSUME job.op = "schema" PROVE {f.table : f \in findings} = Chosen
  BY <1>3, <1>4 DEF Gathered, OfTable
<1>5. ASSUME job.op # "schema", NEW t \in Chosen, NEW c \in Columns(t)
      PROVE  ColumnReported(t, c, About(t, c))'
  <2>0. PICK about : about = {f \in findings : f.table = t /\ f.column = c}
    OBVIOUS
  <2>1. OfTable(t) \in TableFindings(t)
    BY <1>5 DEF Gathered
  <2>2. {f \in OfTable(t) : f.column = c} \in FindingsOf(t, c)
    BY <1>5, <2>1, TableFinding
  <2>3. about = {f \in OfTable(t) : f.column = c}
    BY <2>0 DEF OfTable
  <2>4. About(t, c)' = about
    BY <1>1, <2>0 DEF About
  <2>5. t \in DOMAIN job.database
    BY <1>5 DEF Chosen
  <2>6. ColumnReported(t, c, about)
    BY <2>2, <2>3, <2>5, ColumnIsReported
  <2>7. ColumnReported(t, c, about)'
    BY <1>1, <2>6, SameJob
  <2> QED BY <2>4, <2>7 DEF ColumnReported
<1> QED BY <1>1, <1>2, <1>3, <1>4, <1>5 DEF ReportIsComplete, Gathered, Chosen

\* One table more has been read.
LEMMA OneTableMore ==
    ASSUME Gathered, stage = "reading", NEW t \in todo, SampleTable(t) \/ DescribeTable(t),
           stage' = "reading"
    PROVE  Gathered'
<1>1. job' = job /\ todo' = todo \ {t}
  BY DEF SampleTable, Sampled, DescribeTable, EndScan
<1>2. Chosen' = Chosen /\ \A u : TableFindings(u)' = TableFindings(u)
  BY <1>1, SameJob
<1>3. t \in Chosen
  BY DEF Gathered
<1>4. PICK found : /\ findings' = findings \cup found
                   /\ \A f \in found : f.table = t
                   /\ IF job.op = "schema" THEN found # {} ELSE found \in TableFindings(t)
  <2>1. CASE SampleTable(t)
    <3>1. job.op # "schema" /\ \E found \in TableFindings(t) : Sampled(t, found)
      BY <2>1 DEF SampleTable, EndScan
    <3> QED BY <3>1, TableFinding DEF Sampled
  <2>2. CASE DescribeTable(t)
    <3>1. PICK count : findings' = findings \cup {[table |-> t, count |-> count]}
      BY <2>2 DEF DescribeTable
    <3> WITNESS {[table |-> t, count |-> count]}
    <3> QED BY <2>2, <3>1 DEF DescribeTable
  <2> QED BY <2>1, <2>2
<1>5. \A f \in findings : f.table \in Chosen \ todo
  BY DEF Gathered
<1>6. ASSUME NEW u \in Chosen \ todo'
      PROVE  IF job.op = "schema" THEN OfTable(u)' # {} ELSE OfTable(u)' \in TableFindings(u)
  <2>1. CASE u = t
    <3>1. OfTable(t)' = found
      BY <1>4, <1>5 DEF OfTable
    <3> QED BY <1>4, <2>1, <3>1
  <2>2. CASE u # t
    <3>1. OfTable(u)' = OfTable(u)
      BY <1>4, <2>2 DEF OfTable
    <3> QED BY <1>1, <1>6, <2>2, <3>1 DEF Gathered
  <2> QED BY <2>1, <2>2
<1>7. \A f \in findings' : f.table \in Chosen \ todo'
  BY <1>1, <1>3, <1>4, <1>5
<1>8. todo' \subseteq Chosen
  BY <1>1 DEF Gathered
<1> QED BY <1>1, <1>2, <1>6, <1>7, <1>8 DEF Gathered

LEMMA StepReport ==
    ASSUME scene \in Scenes, ReportInv, [Next]_vars
    PROVE  ReportInv'
<1>1. ScanTypes'
  BY StepScanTypes DEF ReportInv
<1>2. CASE UNCHANGED scanner
  <2>1. /\ job' = job /\ stage' = stage /\ todo' = todo /\ findings' = findings
        /\ answer' = answer
    BY <1>2 DEF scanner
  <2>2. /\ Chosen' = Chosen
        /\ \A t : TableFindings(t)' = TableFindings(t) /\ Columns(t)' = Columns(t)
        /\ \A t, c, about : ColumnReported(t, c, about)' = ColumnReported(t, c, about)
    BY <2>1, SameJob
  <2>3. \A t : OfTable(t)' = OfTable(t)
    BY <2>1 DEF OfTable
  <2>4. Gathered' <=> Gathered
    BY <2>1, <2>2, <2>3 DEF Gathered
  <2>5. \A t, c : About(t, c)' = About(t, c)
    BY <2>1 DEF About
  <2>6. ReportIsComplete'
    <3>1. ReportIsComplete
      BY DEF ReportInv
    <3> QED BY <2>1, <2>2, <2>5, <3>1 DEF ReportIsComplete
  <2> QED BY <1>1, <2>1, <2>4, <2>6 DEF ReportInv
<1>3. CASE Dies
  <2>1. job' = job /\ answer' = answer /\ findings' = {}
        /\ stage' = IF stage = "done" THEN "done" ELSE "asked"
    BY <1>3 DEF Dies
  <2> QED BY <1>1, <2>1, SameJob DEF ReportInv, Gathered, ReportIsComplete, About
<1>4. CASE ScanStep
  <2>1. job # NoScan /\ job' = job /\ IsJob(job)
    <3>1. stage # "done"
      BY <1>4 DEF ScanStep, CheckRequest, Connect, ListColumns, SampleTable, DescribeTable,
         Complete, ScanTimesOut
    <3>2. job # NoScan /\ job \in scene.scans
      BY <3>1 DEF ReportInv, ScanTypes
    <3>3. job' = job
      BY <1>4 DEF ScanStep, CheckRequest, Connect, ListColumns, SampleTable, Sampled,
         DescribeTable, Complete, ScanTimesOut, EndScan, GoScan
    <3> QED BY <3>2, <3>3, ControlPlaneAssumption
  <2>2. Gathered
    BY <2>1 DEF ReportInv
  <2>3. Chosen' = Chosen
    BY <2>1, SameJob
  <2>4. Gathered' /\ ReportIsComplete'
    <3>1. CASE \E code : code # "ok" /\ EndScan(code, {})
      BY <3>1, EndsInFailure
    <3>2. CASE Complete
      BY <2>1, <2>2, <3>2, EndsInReport DEF Complete
    <3>3. CASE \/ CheckRequest /\ GoScan("connecting")
               \/ Connect /\ GoScan("connected")
      BY <2>2, <3>3 DEF GoScan, CheckRequest, Connect, Gathered, ReportIsComplete
    <3>4. CASE ListColumns /\ GoScan("reading")
      <4>1. /\ stage = "connected" /\ stage' = "reading" /\ findings' = findings
            /\ todo' = Chosen
        BY <2>1, <3>4 DEF ListColumns, GoScan, EndScan, Chosen, PassesLike, IsJob
      <4>2. findings = {}
        BY <2>2, <4>1 DEF Gathered
      <4> QED BY <2>3, <4>1, <4>2 DEF Gathered, ReportIsComplete
    <3>5. CASE \E t \in todo : (SampleTable(t) \/ DescribeTable(t)) /\ stage' = "reading"
      <4>1. PICK t \in todo : (SampleTable(t) \/ DescribeTable(t)) /\ stage' = "reading"
        BY <3>5
      <4>2. stage = "reading"
        BY <4>1 DEF SampleTable, DescribeTable
      <4> QED BY <2>2, <4>1, <4>2, OneTableMore DEF ReportIsComplete
    <3>6. CASE CheckRequest
      BY <3>1, <3>3, <3>6 DEF CheckRequest
    <3>7. CASE Connect \/ ListColumns \/ ScanTimesOut
      BY <3>1, <3>3, <3>4, <3>7 DEF Connect, ListColumns, ScanTimesOut
    <3>8. ASSUME NEW t \in todo, SampleTable(t) \/ DescribeTable(t)
          PROVE  Gathered' /\ ReportIsComplete'
      <4>1. stage' = "reading" \/ EndScan("query_failed", {})
        BY <3>8 DEF SampleTable, Sampled, DescribeTable
      <4> QED BY <3>1, <3>5, <3>8, <4>1
    <3> QED BY <1>4, <3>2, <3>6, <3>7, <3>8 DEF ScanStep
  <2> QED BY <1>1, <2>4 DEF ReportInv
<1> QED BY <1>2, <1>3, <1>4 DEF Next, vars, Start, OpenApi, OpenListener, GiveUp, Die,
                                Call, Refuse,
           Reload, Store, others, Check, Scan, AtRest

\* "Scan results exist to answer 'is there PII in this column'" (mask_sample): a report covers
\* every table that was asked for and that the filter on names leaves, or there is none, and
\* says of each column what its readable values and its name give away, for any database,
\* thresholds, failures and restarts.  Of a table the filter drops, the user's own or not, it
\* says nothing.
THEOREM ReportsAreComplete == Spec => []ReportIsComplete
<1>1. Init => Shapes /\ ReportInv
  BY InitShapes DEF Init, ScanInit, ScanTypes, ScanTypeOK, ReportInv, Gathered, ReportIsComplete
<1>2. Shapes /\ ReportInv /\ [Next]_vars => Shapes' /\ ReportInv'
  BY StepShapes, StepReport DEF Shapes
<1>3. ReportInv => ReportIsComplete
  BY DEF ReportInv
<1> QED BY <1>1, <1>2, <1>3, PTL DEF Spec
=============================================================================
