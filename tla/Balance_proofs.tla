---------------------------- MODULE Balance_proofs ----------------------------
(***************************************************************************)
(* Lemmas about Balance, for every number of partitions and items: what    *)
(* its choices from sorted sets return, and the invariant of the heap that *)
(* its first states have and a merge keeps.  They speak of a heap, a bound *)
(* w of the spreads and lengths len of items 1..n and of no variable, so   *)
(* that a module that balances in its steps can cite them.                 *)
(***************************************************************************)
EXTENDS Balance, FiniteSetTheorems, TLAPS

-----------------------------------------------------------------------------
(* Finite sets in a strict order *)

StrictOrder(R, S) ==
  /\ \A x \in S : <<x, x>> \notin R
  /\ \A x, y, z \in S : <<x, y>> \in R /\ <<y, z>> \in R => <<x, z>> \in R
  /\ \A x, y \in S : x = y \/ <<x, y>> \in R \/ <<y, x>> \in R

Below(R, S, x) == {y \in S : <<y, x>> \in R}
Rank(R, S, x) == Cardinality(Below(R, S, x))

\* What lies below a member are fewer than the members, and fewer than below a larger one.
LEMMA RankOrder ==
  ASSUME NEW S, IsFiniteSet(S), NEW R, StrictOrder(R, S)
  PROVE  /\ \A x \in S : Rank(R, S, x) \in 0..Cardinality(S) - 1
         /\ \A x, y \in S : <<x, y>> \in R => Rank(R, S, x) < Rank(R, S, y)
<1>1. Cardinality(S) \in Nat
  BY FS_CardinalityType
<1>2. ASSUME NEW x \in S
      PROVE  /\ IsFiniteSet(Below(R, S, x))
             /\ Rank(R, S, x) \in 0..Cardinality(S) - 1
  <2>1. IsFiniteSet(S \ {x}) /\ Cardinality(S \ {x}) = Cardinality(S) - 1
    BY FS_RemoveElement
  <2>2. Below(R, S, x) \in SUBSET (S \ {x})
    BY DEF Below, StrictOrder
  <2>3. IsFiniteSet(Below(R, S, x)) /\ Rank(R, S, x) <= Cardinality(S \ {x})
    BY <2>1, <2>2, FS_Subset DEF Rank
  <2>4. Rank(R, S, x) \in Nat
    BY <2>3, FS_CardinalityType DEF Rank
  <2> QED
    BY <1>1, <2>1, <2>3, <2>4
<1>3. ASSUME NEW x \in S, NEW y \in S, <<x, y>> \in R
      PROVE  Rank(R, S, x) < Rank(R, S, y)
  <2>1. Below(R, S, x) \cup {x} \in SUBSET Below(R, S, y)
    BY <1>3 DEF Below, StrictOrder
  <2>2. x \notin Below(R, S, x)
    BY DEF Below, StrictOrder
  <2>3. Cardinality(Below(R, S, x) \cup {x}) = Rank(R, S, x) + 1
    BY <1>2, <2>2, FS_AddElement DEF Rank
  <2>4. Cardinality(Below(R, S, x) \cup {x}) <= Rank(R, S, y)
    BY <1>2, <2>1, FS_Subset DEF Rank
  <2>5. Rank(R, S, x) \in Nat /\ Rank(R, S, y) \in Nat
    BY <1>1, <1>2
  <2> QED
    BY <2>3, <2>4, <2>5
<1> QED
  BY <1>2, <1>3

RanksExact(R, S) ==
  /\ \A x, y \in S : Rank(R, S, x) = Rank(R, S, y) => x = y
  /\ \A k \in 0..Cardinality(S) - 1 : \E x \in S : Rank(R, S, x) = k

\* So the ranks are the numbers from 0, each the rank of one member.
LEMMA RankBijection ==
  ASSUME NEW S, IsFiniteSet(S), NEW R, StrictOrder(R, S)
  PROVE  RanksExact(R, S)
<1> DEFINE rank == [x \in S |-> Rank(R, S, x)]
           Places == 0..Cardinality(S) - 1
<1>1. Cardinality(S) \in Nat
  BY FS_CardinalityType
<1>2. \A x, y \in S : Rank(R, S, x) = Rank(R, S, y) => x = y
  <2> TAKE x, y \in S
  <2>1. Rank(R, S, x) \in Nat /\ Rank(R, S, y) \in Nat
    BY <1>1, RankOrder
  <2>2. <<x, y>> \in R => Rank(R, S, x) < Rank(R, S, y)
    BY RankOrder
  <2>3. <<y, x>> \in R => Rank(R, S, y) < Rank(R, S, x)
    BY RankOrder
  <2> QED
    BY <2>1, <2>2, <2>3 DEF StrictOrder
<1>3. rank \in Injection(S, Places)
  BY <1>2, RankOrder DEF Injection, IsInjective
<1>4. IsFiniteSet(Places) /\ Cardinality(Places) = Cardinality(S)
  BY <1>1, FS_Interval
<1>5. rank \in Surjection(S, Places)
  BY <1>3, <1>4, FS_Injection
<1> QED
  BY <1>2, <1>5 DEF Surjection, RanksExact

\* Numbers by size.
LEMMA NumberOrder ==
  ASSUME NEW S \in SUBSET Int
  PROVE  /\ StrictOrder({p \in S \X S : p[1] < p[2]}, S)
         /\ \A x \in S : Below({p \in S \X S : p[1] < p[2]}, S, x) = {y \in S : y < x}
BY DEF StrictOrder, Below

\* A finite set of numbers that is not empty has a least and a greatest one.
LEMMA Extremes ==
  ASSUME NEW S \in SUBSET Int, IsFiniteSet(S), S # {}
  PROVE  /\ \E x \in S : \A y \in S : x <= y
         /\ \E x \in S : \A y \in S : y <= x
<1> DEFINE R == {p \in S \X S : p[1] < p[2]}
<1>0. \A x, y \in S : <<x, y>> \in R <=> x < y
  OBVIOUS
<1> HIDE DEF R
<1>1. StrictOrder(R, S) /\ \A x \in S : Below(R, S, x) = {y \in S : y < x}
  BY NumberOrder DEF R
<1>2. Cardinality(S) \in Nat \ {0}
  BY FS_CardinalityType, FS_EmptySet
<1>3. /\ \A x \in S : Rank(R, S, x) \in 0..Cardinality(S) - 1
      /\ \A x, y \in S : <<x, y>> \in R => Rank(R, S, x) < Rank(R, S, y)
  BY <1>1, RankOrder
<1>r. RanksExact(R, S)
  BY <1>1, RankBijection
<1>4. \A k \in 0..Cardinality(S) - 1 : \E x \in S : Rank(R, S, x) = k
  BY <1>r DEF RanksExact
<1>5. PICK least \in S : Rank(R, S, least) = 0
  BY <1>2, <1>4
<1>6. PICK greatest \in S : Rank(R, S, greatest) = Cardinality(S) - 1
  BY <1>2, <1>4
<1>7. ASSUME NEW y \in S PROVE least <= y /\ y <= greatest
  <2>1. <<y, least>> \notin R
    BY <1>2, <1>3, <1>5
  <2>2. <<greatest, y>> \notin R
    BY <1>2, <1>3, <1>6
  <2> QED
    BY <1>0, <2>1, <2>2
<1> QED
  BY <1>7

-----------------------------------------------------------------------------
(* The n-th of a set and the items by length *)

\* The n-th members of a set, for the n up to its size, are its members, each once.
NthExact(set) ==
  /\ \A k \in 1..Cardinality(set) : NthOf(set, k) \in set
  /\ \A j, k \in 1..Cardinality(set) : NthOf(set, j) = NthOf(set, k) => j = k
  /\ \A x \in set : \E k \in 1..Cardinality(set) : NthOf(set, k) = x

LEMMA NthLemma ==
  ASSUME NEW set \in SUBSET Int, IsFiniteSet(set)
  PROVE  NthExact(set)
<1> DEFINE R == {p \in set \X set : p[1] < p[2]}
<1> HIDE DEF R
<1>1. StrictOrder(R, set) /\ \A x \in set : Below(R, set, x) = {y \in set : y < x}
  BY NumberOrder DEF R
<1>2. Cardinality(set) \in Nat
  BY FS_CardinalityType
<1>3. \A x \in set : Rank(R, set, x) \in 0..Cardinality(set) - 1
  BY <1>1, RankOrder
<1>r. RanksExact(R, set)
  BY <1>1, RankBijection
<1>4. \A x, y \in set : Rank(R, set, x) = Rank(R, set, y) => x = y
  BY <1>r DEF RanksExact
<1>5. \A k \in 0..Cardinality(set) - 1 : \E x \in set : Rank(R, set, x) = k
  BY <1>r DEF RanksExact
<1>6. \A k : NthOf(set, k) = CHOOSE x \in set : Rank(R, set, x) = k - 1
  BY <1>1 DEF NthOf, Rank
<1>7. \A k \in 1..Cardinality(set) : NthOf(set, k) \in set /\ Rank(R, set, NthOf(set, k)) = k - 1
  <2> TAKE k \in 1..Cardinality(set)
  <2>1. \E x \in set : Rank(R, set, x) = k - 1
    BY <1>2, <1>5
  <2> QED
    BY <2>1, <1>6
<1>8. ASSUME NEW x \in set PROVE \E k \in 1..Cardinality(set) : NthOf(set, k) = x
  <2>1. Rank(R, set, x) + 1 \in 1..Cardinality(set)
    BY <1>2, <1>3
  <2>2. Rank(R, set, NthOf(set, Rank(R, set, x) + 1)) = Rank(R, set, x)
    BY <1>2, <1>3, <1>7, <2>1
  <2> QED
    BY <1>4, <1>7, <2>1, <2>2
<1>9. ASSUME NEW j \in 1..Cardinality(set), NEW k \in 1..Cardinality(set),
             NthOf(set, j) = NthOf(set, k)
      PROVE  j = k
  BY <1>2, <1>7, <1>9
<1> QED
  BY <1>7, <1>8, <1>9 DEF NthExact

\* The items of the places are all items, each once, in the order of their lengths.
Sorted(len, n) ==
  /\ \A p \in 0..n - 1 : ItemAt(len, p) \in 1..n
  /\ \A p, q \in 0..n - 1 : ItemAt(len, p) = ItemAt(len, q) => p = q
  /\ \A x \in 1..n : \E p \in 0..n - 1 : ItemAt(len, p) = x
  /\ \A p, q \in 0..n - 1 : p <= q => len[ItemAt(len, p)] <= len[ItemAt(len, q)]

LEMMA ItemLemma ==
  ASSUME NEW n \in Nat, NEW len \in [1..n -> Nat]
  PROVE  Sorted(len, n)
<1> DEFINE R == {p \in (1..n) \X (1..n) :
                   len[p[1]] < len[p[2]] \/ (len[p[1]] = len[p[2]] /\ p[1] < p[2])}
           S == 1..n
<1>0. \A x, y \in S : <<x, y>> \in R <=> len[x] < len[y] \/ (len[x] = len[y] /\ x < y)
  OBVIOUS
<1> HIDE DEF R
<1>1. StrictOrder(R, S)
  <2>1. \A x \in S : len[x] \in Nat /\ x \in Nat
    OBVIOUS
  <2> HIDE DEF S
  <2>2. \A x \in S : <<x, x>> \notin R
    BY ONLY <1>0, <2>1
  <2>3. ASSUME NEW x \in S, NEW y \in S, NEW z \in S, <<x, y>> \in R, <<y, z>> \in R
        PROVE  <<x, z>> \in R
    <3>1. /\ len[x] < len[y] \/ (len[x] = len[y] /\ x < y)
          /\ len[y] < len[z] \/ (len[y] = len[z] /\ y < z)
      BY ONLY <1>0, <2>3
    <3>2. len[x] < len[z] \/ (len[x] = len[z] /\ x < z)
      BY ONLY <2>1, <3>1
    <3> QED
      BY ONLY <1>0, <3>2
  <2>4. ASSUME NEW x \in S, NEW y \in S PROVE x = y \/ <<x, y>> \in R \/ <<y, x>> \in R
    <3>1. \/ len[x] < len[y] \/ (len[x] = len[y] /\ x < y)
          \/ len[y] < len[x] \/ (len[y] = len[x] /\ y < x)
          \/ x = y
      BY ONLY <2>1
    <3> QED
      BY ONLY <1>0, <3>1
  <2> QED
    BY ONLY <2>2, <2>3, <2>4 DEF StrictOrder
<1>2. \A x \in S : Below(R, S, x) = {y \in S : len[y] < len[x] \/ (len[y] = len[x] /\ y < x)}
  BY <1>0 DEF Below
<1>3. IsFiniteSet(S) /\ Cardinality(S) = n
  BY FS_Interval
<1>4. \A x \in S : Rank(R, S, x) \in 0..n - 1
  BY <1>1, <1>3, RankOrder
<1>5. \A x, y \in S : <<x, y>> \in R => Rank(R, S, x) < Rank(R, S, y)
  BY <1>1, <1>3, RankOrder
<1>r. RanksExact(R, S)
  BY <1>1, <1>3, RankBijection
<1>6. \A x, y \in S : Rank(R, S, x) = Rank(R, S, y) => x = y
  BY <1>r DEF RanksExact
<1>7. \A k \in 0..n - 1 : \E x \in S : Rank(R, S, x) = k
  BY <1>r, <1>3 DEF RanksExact
<1>8. \A p : ItemAt(len, p) = CHOOSE x \in S : Rank(R, S, x) = p
  <2>1. DOMAIN len = S
    OBVIOUS
  <2> QED
    BY <1>2, <2>1 DEF ItemAt, Rank
<1>9. \A p \in 0..n - 1 : ItemAt(len, p) \in S /\ Rank(R, S, ItemAt(len, p)) = p
  BY <1>7, <1>8
<1> HIDE DEF S
<1>10. ASSUME NEW x \in S PROVE \E p \in 0..n - 1 : ItemAt(len, p) = x
  BY <1>4, <1>6, <1>9
<1>11. ASSUME NEW p \in 0..n - 1, NEW q \in 0..n - 1, p <= q
       PROVE  len[ItemAt(len, p)] <= len[ItemAt(len, q)]
  <2>1. <<ItemAt(len, q), ItemAt(len, p)>> \notin R
    BY <1>5, <1>9, <1>11
  <2>2. ItemAt(len, p) \in S /\ ItemAt(len, q) \in S
    BY <1>9
  <2>3. len[ItemAt(len, p)] \in Nat /\ len[ItemAt(len, q)] \in Nat
    BY <2>2 DEF S
  <2> QED
    BY <1>0, <2>1, <2>2, <2>3
<1>12. \A p, q \in 0..n - 1 : ItemAt(len, p) = ItemAt(len, q) => p = q
  BY <1>9
<1> QED
  BY <1>9, <1>10, <1>11, <1>12 DEF Sorted, S

-----------------------------------------------------------------------------
(* Division *)

\* Quotient and remainder.
LEMMA DivMod ==
  ASSUME NEW p \in Nat, NEW d \in Nat \ {0}
  PROVE  /\ p \div d \in Nat /\ p % d \in 0..d - 1
         /\ p = (p \div d) * d + (p % d)
OBVIOUS

\* Places in groups of d: a group and a place in it are those of one number.
LEMMA GroupPlace ==
  ASSUME NEW d \in Nat \ {0}, NEW g \in Nat, NEW h \in Nat, NEW r \in 0..d - 1, NEW s \in 0..d - 1,
         g * d + r = h * d + s
  PROVE  g = h /\ r = s
<1>1. ASSUME NEW a \in Nat, NEW b \in Nat, a < b PROVE a * d + d <= b * d
  <2>1. PICK c \in Nat : b = a + 1 + c
    <3>1. b - a - 1 \in Nat /\ b = a + 1 + (b - a - 1)
      BY <1>1
    <3> QED
      BY <3>1
  <2>2. b * d = a * d + d + c * d /\ c * d \in Nat /\ a * d \in Nat
    BY <2>1
  <2> QED
    BY <2>2
<1>2. g * d \in Nat /\ h * d \in Nat
  OBVIOUS
<1>3. ~(g < h)
  <2>1. ASSUME g < h PROVE FALSE
    <3>1. g * d + d <= h * d
      BY <1>1, <2>1
    <3> QED
      BY <1>2, <3>1
  <2> QED
    BY <2>1
<1>4. ~(h < g)
  <2>1. ASSUME h < g PROVE FALSE
    <3>1. h * d + d <= g * d
      BY <1>1, <2>1
    <3> QED
      BY <1>2, <3>1
  <2> QED
    BY <2>1
<1> QED
  BY <1>2, <1>3, <1>4

\* A number below a multiple m of d is in one of its m groups, and every place of them below it.
LEMMA InGroup ==
  ASSUME NEW d \in Nat \ {0}, NEW m \in Nat
  PROVE  /\ \A p \in 0..m * d - 1 : p \div d \in 0..m - 1
         /\ \A g \in 0..m - 1, r \in 0..d - 1 : g * d + r \in 0..m * d - 1
<1>1. ASSUME NEW p \in 0..m * d - 1 PROVE p \div d \in 0..m - 1
  <2>1. m * d \in Nat
    OBVIOUS
  <2>2. p \in Nat /\ p < m * d
    BY <2>1
  <2>3. p \div d \in Nat /\ p % d \in 0..d - 1 /\ p = (p \div d) * d + (p % d)
    BY <2>2, DivMod
  <2>4. ASSUME m <= p \div d PROVE FALSE
    <3>1. PICK c \in Nat : p \div d = m + c
      <4>1. p \div d - m \in Nat /\ p \div d = m + (p \div d - m)
        BY <2>3, <2>4
      <4> QED
        BY <4>1
    <3>2. (p \div d) * d = m * d + c * d /\ c * d \in Nat
      BY <3>1
    <3> QED
      BY <2>1, <2>2, <2>3, <3>2
  <2> QED
    BY <2>3, <2>4
<1>2. ASSUME NEW g \in 0..m - 1, NEW r \in 0..d - 1 PROVE g * d + r \in 0..m * d - 1
  <2>1. PICK c \in Nat : m = g + 1 + c
    <3>1. m - g - 1 \in Nat /\ m = g + 1 + (m - g - 1)
      OBVIOUS
    <3> QED
      BY <3>1
  <2>2. m * d = g * d + d + c * d /\ c * d \in Nat /\ g * d \in Nat
    BY <2>1
  <2> QED
    BY <2>2
<1> QED
  BY <1>1, <1>2

-----------------------------------------------------------------------------
(* Tokens *)

LEMMA CountTo ==
  ASSUME NEW n \in Nat PROVE IsFiniteSet(1..n) /\ Cardinality(1..n) = n
BY FS_Interval

\* An item has as many tokens as it is long.
LEMMA TokensOne ==
  ASSUME NEW n \in Nat, NEW len \in [1..n -> Nat], NEW x \in 1..n
  PROVE  IsFiniteSet(Tokens(len, {x})) /\ Cardinality(Tokens(len, {x})) = len[x]
<1>1. Tokens(len, {x}) = {x} \X (1..len[x])
  BY DEF Tokens
<1>2. IsFiniteSet({x}) /\ Cardinality({x}) = 1
  BY FS_Singleton
<1>3. len[x] \in Nat
  OBVIOUS
<1>4. IsFiniteSet(1..len[x]) /\ Cardinality(1..len[x]) = len[x]
  BY ONLY <1>3, CountTo
<1>5. /\ IsFiniteSet({x} \X (1..len[x]))
      /\ Cardinality({x} \X (1..len[x])) = Cardinality({x}) * Cardinality(1..len[x])
  BY <1>2, <1>4, FS_Product
<1>6. Cardinality({x}) * Cardinality(1..len[x]) = len[x]
  BY ONLY <1>2, <1>3, <1>4
<1> QED
  BY ONLY <1>1, <1>5, <1>6

\* Items of two sets that are disjoint have their tokens together.
LEMMA TokensUnion ==
  ASSUME NEW len, NEW A, NEW B, A \cap B = {},
         IsFiniteSet(Tokens(len, A)), IsFiniteSet(Tokens(len, B))
  PROVE  /\ IsFiniteSet(Tokens(len, A \cup B))
         /\ Cardinality(Tokens(len, A \cup B))
              = Cardinality(Tokens(len, A)) + Cardinality(Tokens(len, B))
<1>1. Tokens(len, A \cup B) = Tokens(len, A) \cup Tokens(len, B)
  BY DEF Tokens
<1>2. Tokens(len, A) \cap Tokens(len, B) = {}
  <2>1. \A t \in Tokens(len, A) : t[1] \in A
    BY DEF Tokens
  <2>2. \A t \in Tokens(len, B) : t[1] \in B
    BY DEF Tokens
  <2> QED
    BY <2>1, <2>2
<1>3. /\ IsFiniteSet(Tokens(len, A) \cup Tokens(len, B))
      /\ Cardinality(Tokens(len, A) \cup Tokens(len, B))
           = Cardinality(Tokens(len, A)) + Cardinality(Tokens(len, B))
             - Cardinality(Tokens(len, A) \cap Tokens(len, B))
  BY FS_Union
<1>4. /\ Cardinality(Tokens(len, A)) \in Nat
      /\ Cardinality(Tokens(len, B)) \in Nat
      /\ Cardinality(Tokens(len, A) \cap Tokens(len, B)) = 0
  BY <1>2, FS_CardinalityType, FS_EmptySet
<1>5. Cardinality(Tokens(len, A) \cup Tokens(len, B))
        = Cardinality(Tokens(len, A)) + Cardinality(Tokens(len, B))
  BY ONLY <1>3, <1>4
<1> QED
  BY ONLY <1>1, <1>3, <1>5

-----------------------------------------------------------------------------
(* The invariant of the heap *)

EqualSets(heap) ==
  \A S \in heap : \A i, j \in Parts : Cardinality(S[i].items) = Cardinality(S[j].items)
Descending(heap) ==
  \A S \in heap : \A i, j \in Parts : i < j => S[i].sum >= S[j].sum
Covers(heap, n) == \A x \in 1..n : \E S \in heap, i \in Parts : x \in S[i].items
Apart(heap) ==
  \A S, T \in heap : \A i, j \in Parts : \A x :
    x \in S[i].items /\ x \in T[j].items => S = T /\ i = j
Summed(heap, len) ==
  \A S \in heap : \A i \in Parts :
    IsFiniteSet(Tokens(len, S[i].items)) /\ S[i].sum = Cardinality(Tokens(len, S[i].items))
Even(heap, w) == \A S \in heap : Spread(S) <= w

\* n items of lengths len are shared out over the states of a heap, no spread larger than w.
Heap(heap, w, len, n) ==
  /\ heap \subseteq State(n) /\ IsFiniteSet(heap) /\ heap # {} /\ w \in Nat
  /\ EqualSets(heap) /\ Descending(heap) /\ Covers(heap, n) /\ Apart(heap)
  /\ Summed(heap, len) /\ Even(heap, w)

Widest(len) ==
  CHOOSE w \in {Spread(S) : S \in StartStates(len)} : \A S \in StartStates(len) : Spread(S) <= w

\* The item of the i-th set of the g-th group.
Item(len, g, i) == ItemAt(len, g * K + (K - i))

\* The groups of K neighbours in length are such a heap.
LEMMA StartLemma ==
  ASSUME NEW m \in Nat \ {0}, NEW n \in Nat, n = m * K, NEW len \in [1..n -> Nat]
  PROVE  Heap(StartStates(len), Widest(len), len, n)
<1> DEFINE Groups == 0..m - 1
           heap == StartStates(len)
<1>k. K \in Nat \ {0}
  BY BalanceAssumption
<1>1. Sorted(len, n)
  BY ItemLemma
<1>2. heap = {Group(len, g) : g \in Groups}
  <2>1. Cardinality(DOMAIN len) = n
    BY FS_Interval
  <2>2. n \div K = m
    <3>1. n \div K \in Nat /\ n % K \in 0..K - 1 /\ n = (n \div K) * K + (n % K)
      BY <1>k, DivMod
    <3>2. m * K + 0 = (n \div K) * K + (n % K) /\ 0 \in 0..K - 1
      BY <1>k, <3>1
    <3> HIDE <3>2
    <3>3. m = n \div K
      BY <1>k, <3>1, <3>2, GroupPlace
    <3> QED
      BY <3>3
  <2> QED
    BY <2>1, <2>2 DEF StartStates
<1>3. \A g \in Groups, i \in Parts : g * K + (K - i) \in 0..n - 1
  <2> TAKE g \in Groups, i \in Parts
  <2>1. K - i \in 0..K - 1
    BY <1>k DEF Parts
  <2>2. \A h \in 0..m - 1, r \in 0..K - 1 : h * K + r \in 0..m * K - 1
    BY <1>k, InGroup
  <2> QED
    BY <2>1, <2>2
<1>4. \A g \in Groups, i \in Parts : Item(len, g, i) \in 1..n
  BY <1>1, <1>3 DEF Sorted, Item
<1>5. \A g \in Groups, i \in Parts :
        /\ Group(len, g)[i].sum = len[Item(len, g, i)]
        /\ Group(len, g)[i].items = {Item(len, g, i)}
        /\ Group(len, g)[i] = [sum |-> len[Item(len, g, i)], items |-> {Item(len, g, i)}]
  <2> TAKE g \in Groups, i \in Parts
  <2>1. g * K + K - i = g * K + (K - i)
    BY <1>k DEF Parts
  <2>2. Group(len, g)[i] = [sum |-> len[Item(len, g, i)], items |-> {Item(len, g, i)}]
    BY <2>1 DEF Group, Item
  <2> QED
    BY <2>2
<1>6. \A g, h \in Groups, i, j \in Parts : Item(len, g, i) = Item(len, h, j) => g = h /\ i = j
  <2> TAKE g, h \in Groups, i, j \in Parts
  <2> HAVE Item(len, g, i) = Item(len, h, j)
  <2>1. g * K + (K - i) = h * K + (K - j)
    BY <1>1, <1>3 DEF Sorted, Item
  <2>2. K - i \in 0..K - 1 /\ K - j \in 0..K - 1
    BY <1>k DEF Parts
  <2>3. g = h /\ K - i = K - j
    <3>1. g \in Nat /\ h \in Nat
      OBVIOUS
    <3> QED
      BY ONLY <1>k, <2>1, <2>2, <3>1, GroupPlace DEF Parts
  <2> QED
    BY <1>k, <2>3 DEF Parts
<1>7. \A x \in 1..n : \E g \in Groups, i \in Parts : Item(len, g, i) = x
  <2> TAKE x \in 1..n
  <2>1. PICK p \in 0..n - 1 : ItemAt(len, p) = x
    BY <1>1 DEF Sorted
  <2>2. p \div K \in Groups
    BY <1>k, InGroup
  <2>3. p % K \in 0..K - 1 /\ p = (p \div K) * K + (p % K) /\ p \div K \in Nat
    <3>1. p \in Nat
      OBVIOUS
    <3> QED
      BY ONLY <1>k, <3>1, DivMod
  <2>4. K - (p % K) \in Parts /\ K - (K - (p % K)) = p % K
    BY <1>k, <2>3 DEF Parts
  <2>5. (p \div K) * K + (K - (K - (p % K))) = p
    BY <2>3, <2>4
  <2>6. Item(len, p \div K, K - (p % K)) = x
    BY <2>1, <2>5 DEF Item
  <2> QED
    BY <2>2, <2>4, <2>6
<1>8. \A g \in Groups : \A i, j \in Parts : i < j => len[Item(len, g, i)] >= len[Item(len, g, j)]
  <2> TAKE g \in Groups
  <2> TAKE i, j \in Parts
  <2> HAVE i < j
  <2>1. g * K + (K - j) <= g * K + (K - i)
    BY <1>k DEF Parts
  <2>2. len[Item(len, g, j)] <= len[Item(len, g, i)]
    BY <1>1, <1>3, <2>1 DEF Sorted, Item
  <2>3. len[Item(len, g, j)] \in Nat /\ len[Item(len, g, i)] \in Nat
    BY <1>4
  <2> QED
    BY <2>2, <2>3
<1> HIDE DEF Groups, heap
<1>9. heap \subseteq State(n)
  <2> SUFFICES ASSUME NEW g \in Groups PROVE Group(len, g) \in State(n)
    BY <1>2
  <2>1. ASSUME NEW i \in Parts
        PROVE  Group(len, g)[i] \in [sum : Nat, items : SUBSET (1..n)]
    <3>1. Item(len, g, i) \in 1..n
      BY <1>4
    <3>2. Group(len, g)[i] = [sum |-> len[Item(len, g, i)], items |-> {Item(len, g, i)}]
      BY <1>5
    <3> QED
      BY <3>1, <3>2
  <2>2. Group(len, g) = [i \in Parts |-> Group(len, g)[i]]
    BY DEF Group
  <2> QED
    BY <2>1, <2>2 DEF State
<1>10. EqualSets(heap)
  <2> SUFFICES ASSUME NEW g \in Groups, NEW i \in Parts, NEW j \in Parts
               PROVE  Cardinality(Group(len, g)[i].items) = Cardinality(Group(len, g)[j].items)
    BY <1>2 DEF EqualSets
  <2>1. \A x : Cardinality({x}) = 1
    BY FS_Singleton
  <2>2. /\ Group(len, g)[i].items = {Item(len, g, i)}
        /\ Group(len, g)[j].items = {Item(len, g, j)}
    BY <1>5
  <2> QED
    BY <2>1, <2>2
<1>11. Descending(heap)
  <2> SUFFICES ASSUME NEW g \in Groups, NEW i \in Parts, NEW j \in Parts, i < j
               PROVE  Group(len, g)[i].sum >= Group(len, g)[j].sum
    BY <1>2 DEF Descending
  <2>1. /\ Group(len, g)[i].sum = len[Item(len, g, i)]
        /\ Group(len, g)[j].sum = len[Item(len, g, j)]
    BY <1>5
  <2>2. len[Item(len, g, i)] >= len[Item(len, g, j)]
    BY <1>8
  <2> QED
    BY <2>1, <2>2
<1>12. Covers(heap, n)
  <2> SUFFICES ASSUME NEW x \in 1..n
               PROVE  \E S \in heap, i \in Parts : x \in S[i].items
    BY DEF Covers
  <2>1. PICK g \in Groups, i \in Parts : Item(len, g, i) = x
    BY <1>7
  <2>2. Group(len, g) \in heap /\ x \in Group(len, g)[i].items
    BY <1>2, <1>5, <2>1
  <2> QED
    BY <2>2
<1>13. Apart(heap)
  <2> SUFFICES ASSUME NEW g \in Groups, NEW h \in Groups, NEW i \in Parts, NEW j \in Parts, NEW x,
                      x \in Group(len, g)[i].items, x \in Group(len, h)[j].items
               PROVE  Group(len, g) = Group(len, h) /\ i = j
    BY <1>2 DEF Apart
  <2>1. /\ Group(len, g)[i].items = {Item(len, g, i)}
        /\ Group(len, h)[j].items = {Item(len, h, j)}
    BY <1>5
  <2>2. Item(len, g, i) = Item(len, h, j)
    BY <2>1
  <2>3. g = h /\ i = j
    BY <1>6, <2>2
  <2> QED
    BY <2>3
<1>14. Summed(heap, len)
  <2>1. ASSUME NEW g \in Groups, NEW i \in Parts
        PROVE  /\ IsFiniteSet(Tokens(len, Group(len, g)[i].items))
               /\ Group(len, g)[i].sum = Cardinality(Tokens(len, Group(len, g)[i].items))
    <3>1. Item(len, g, i) \in 1..n
      BY <1>4
    <3>2. /\ IsFiniteSet(Tokens(len, {Item(len, g, i)}))
          /\ Cardinality(Tokens(len, {Item(len, g, i)})) = len[Item(len, g, i)]
      BY <3>1, TokensOne
    <3>3. Group(len, g)[i].items = {Item(len, g, i)} /\ Group(len, g)[i].sum = len[Item(len, g, i)]
      BY <1>5
    <3> QED
      BY <3>2, <3>3
  <2> QED
    BY <1>2, <2>1 DEF Summed
<1>15. IsFiniteSet(heap) /\ heap # {}
  <2> DEFINE f == [g \in Groups |-> Group(len, g)]
  <2>1. f \in Surjection(Groups, heap)
    BY <1>2 DEF Surjection
  <2>2. IsFiniteSet(Groups)
    BY FS_Interval DEF Groups
  <2>3. 0 \in Groups
    BY DEF Groups
  <2> QED
    BY <1>2, <2>1, <2>2, <2>3, FS_Surjection
<1>16. Widest(len) \in Nat /\ Even(heap, Widest(len))
  <2> DEFINE spreads == {Spread(S) : S \in heap}
             f == [S \in heap |-> Spread(S)]
  <2>1. \A S \in heap : Spread(S) \in Nat
    <3> TAKE S \in heap
    <3>1. 1 \in Parts /\ K \in Parts /\ (1 < K \/ 1 = K)
      BY <1>k DEF Parts
    <3>2. S[1].sum \in Nat /\ S[K].sum \in Nat
      BY <1>9, <3>1 DEF State
    <3>3. S[1].sum >= S[K].sum
      BY <1>11, <3>1, <3>2 DEF Descending
    <3> QED
      BY <3>2, <3>3 DEF Spread
  <2>2. IsFiniteSet(spreads)
    <3>1. f \in Surjection(heap, spreads)
      BY DEF Surjection
    <3> QED
      BY <1>15, <3>1, FS_Surjection
  <2>3. \E w \in spreads : \A s \in spreads : s <= w
    <3>1. spreads \in SUBSET Int /\ spreads # {}
      BY <1>15, <2>1
    <3> QED
      BY <2>2, <3>1, Extremes
  <2>4. \E w \in spreads : \A S \in heap : Spread(S) <= w
    BY <2>3
  <2>5. Widest(len) \in spreads /\ \A S \in heap : Spread(S) <= Widest(len)
    BY <2>4 DEF Widest, heap
  <2> QED
    BY <2>1, <2>5 DEF Even
<1> QED
  BY <1>9, <1>10, <1>11, <1>12, <1>13, <1>14, <1>15, <1>16 DEF Heap, heap

\* The spread of one of its sets and another's is at most that of the state.
LEMMA SpreadLargest ==
  ASSUME NEW n, NEW heap, heap \subseteq State(n), Descending(heap),
         NEW S \in heap, NEW i \in Parts, NEW j \in Parts
  PROVE  /\ S[i].sum \in Nat /\ S[j].sum \in Nat /\ Spread(S) \in Nat
         /\ i <= j => S[i].sum - S[j].sum <= Spread(S)
         /\ i >= j => S[i].sum - S[j].sum <= 0
<1>1. K \in Nat \ {0} /\ 1 \in Parts /\ K \in Parts
  BY BalanceAssumption DEF Parts
<1>2. \A k \in Parts : S[k].sum \in Nat
  BY DEF State
<1>3. \A k \in Parts : S[1].sum >= S[k].sum /\ S[k].sum >= S[K].sum
  <2> TAKE k \in Parts
  <2>1. (1 < k \/ k = 1) /\ (k < K \/ k = K)
    BY <1>1 DEF Parts
  <2>2. 1 < k => S[1].sum >= S[k].sum
    BY <1>1 DEF Descending
  <2>3. k < K => S[k].sum >= S[K].sum
    BY <1>1 DEF Descending
  <2>4. S[1].sum \in Nat /\ S[k].sum \in Nat /\ S[K].sum \in Nat
    BY <1>1, <1>2
  <2> QED
    BY <2>1, <2>2, <2>3, <2>4
<1>4. /\ S[1].sum \in Nat /\ S[K].sum \in Nat /\ S[i].sum \in Nat /\ S[j].sum \in Nat
      /\ S[1].sum >= S[K].sum /\ S[1].sum >= S[i].sum /\ S[j].sum >= S[K].sum
  BY <1>1, <1>2, <1>3
<1>5. i >= j => S[j].sum >= S[i].sum
  <2>1. j < i => S[j].sum >= S[i].sum
    BY DEF Descending
  <2>2. i >= j => j < i \/ i = j
    BY <1>1 DEF Parts
  <2> QED
    BY <1>4, <2>1, <2>2
<1> QED
  BY <1>4, <1>5 DEF Spread

\* Two differences of which one at most is positive.
LEMMA TwoSpreads ==
  ASSUME NEW a \in Nat, NEW b \in Nat, NEW c \in Nat, NEW d \in Nat, NEW w \in Nat,
         (a - b <= w /\ c - d <= 0) \/ (a - b <= 0 /\ c - d <= w)
  PROVE  (a + c) - (b + d) <= w
OBVIOUS

\* A merge keeps the heap: the sets of the two states are joined pairwise, the large with the
\* small, and are no further apart than those of one of the two were.
LEMMA MergeLemma ==
  ASSUME NEW heap, NEW w, NEW n \in Nat, NEW len \in [1..n -> Nat], Heap(heap, w, len, n),
         NEW S \in heap, NEW T \in heap \ {S}, NEW M, Sorts(M, Merged(S, T))
  PROVE  Heap((heap \ {S, T}) \cup {M}, w, len, n)
<1> DEFINE rest == heap \ {S, T}
           next == rest \cup {M}
<1>1. PICK p \in [Parts -> Parts] :
        /\ \A i, j \in Parts : i # j => p[i] # p[j]
        /\ M = [i \in Parts |-> Merged(S, T)[p[i]]]
  BY DEF Sorts
<1> DEFINE q == [i \in Parts |-> K + 1 - p[i]]
<1>k. K \in Nat \ {0}
  BY BalanceAssumption
<1>2. \A i \in Parts : p[i] \in Parts /\ q[i] \in Parts /\ p[i] \in Nat /\ q[i] = K + 1 - p[i]
  <2> TAKE i \in Parts
  <2>1. p[i] \in 1..K
    BY DEF Parts
  <2>2. p[i] \in Nat /\ K + 1 - p[i] \in 1..K
    BY ONLY <1>k, <2>1
  <2>3. q[i] = K + 1 - p[i]
    OBVIOUS
  <2> HIDE DEF q
  <2> QED
    BY <2>1, <2>2, <2>3 DEF Parts
<1>3. \A j \in Parts : \E i \in Parts : p[i] = j
  <2>1. p \in Injection(Parts, Parts)
    BY <1>1 DEF Injection, IsInjective
  <2>2. IsFiniteSet(Parts)
    BY <1>k, FS_Interval DEF Parts
  <2>3. p \in Surjection(Parts, Parts)
    BY <2>1, <2>2, FS_Injection
  <2> QED
    BY <2>3 DEF Surjection
<1>4. \A i \in Parts : /\ M[i].sum = S[p[i]].sum + T[q[i]].sum
                       /\ M[i].items = S[p[i]].items \cup T[q[i]].items
  <2> TAKE i \in Parts
  <2>1. M[i] = Merged(S, T)[p[i]]
    BY <1>1
  <2>2. Merged(S, T)[p[i]] = [sum |-> S[p[i]].sum + T[K + 1 - p[i]].sum,
                              items |-> S[p[i]].items \cup T[K + 1 - p[i]].items]
    BY <1>2 DEF Merged
  <2> QED
    BY <1>2, <2>1, <2>2
<1>5. /\ heap \subseteq State(n) /\ IsFiniteSet(heap) /\ w \in Nat
      /\ EqualSets(heap) /\ Descending(heap) /\ Covers(heap, n) /\ Apart(heap)
      /\ Summed(heap, len) /\ Even(heap, w)
  BY DEF Heap
<1>6. \A U \in heap : \A i \in Parts : U[i].sum \in Nat /\ U[i].items \in SUBSET (1..n)
  BY <1>5 DEF State
<1>7. S \in heap /\ T \in heap /\ S # T
  OBVIOUS
<1> HIDE DEF q
<1>8. M \in State(n)
  <2>1. ASSUME NEW i \in Parts PROVE M[i] \in [sum : Nat, items : SUBSET (1..n)]
    <3>1. M[i] = [sum |-> S[p[i]].sum + T[q[i]].sum, items |-> S[p[i]].items \cup T[q[i]].items]
      <4>1. M[i] = Merged(S, T)[p[i]]
        BY <1>1
      <4> QED
        BY <1>2, <4>1 DEF Merged
    <3>2. /\ S[p[i]].sum \in Nat /\ S[p[i]].items \in SUBSET (1..n)
          /\ T[q[i]].sum \in Nat /\ T[q[i]].items \in SUBSET (1..n)
      BY <1>2, <1>6
    <3> QED
      BY <3>1, <3>2
  <2>2. M = [i \in Parts |-> M[i]]
    BY <1>1
  <2> QED
    BY <2>1, <2>2 DEF State
<1>9. IsFiniteSet(next) /\ next # {}
  <2>1. IsFiniteSet(rest)
    BY <1>5, FS_Subset
  <2> QED
    BY <2>1, FS_AddElement
<1>10. Descending(next)
  <2>1. \A i, j \in Parts : i < j => M[i].sum >= M[j].sum
    BY DEF Sorts
  <2> QED
    BY <1>5, <2>1 DEF Descending
<1>11. \A i, j \in Parts : S[p[i]].items \cap T[q[j]].items = {}
  <2> TAKE i, j \in Parts
  <2>1. p[i] \in Parts /\ q[j] \in Parts
    BY <1>2
  <2> QED
    BY <1>5, <1>7, <2>1 DEF Apart
<1>12. EqualSets(next)
  <2> SUFFICES ASSUME NEW i \in Parts, NEW j \in Parts
               PROVE  Cardinality(M[i].items) = Cardinality(M[j].items)
    BY <1>5 DEF EqualSets
  <2>1. /\ p[i] \in Parts /\ q[i] \in Parts /\ p[j] \in Parts /\ q[j] \in Parts
    BY <1>2
  <2>2. /\ Cardinality(S[p[i]].items) = Cardinality(S[p[j]].items)
        /\ Cardinality(T[q[i]].items) = Cardinality(T[q[j]].items)
    BY <1>5, <1>7, <2>1 DEF EqualSets
  <2>3. \A k \in Parts : Cardinality(M[k].items)
                           = Cardinality(S[p[k]].items) + Cardinality(T[q[k]].items)
    <3> TAKE k \in Parts
    <3>1. S[p[k]].items \in SUBSET (1..n) /\ T[q[k]].items \in SUBSET (1..n)
      BY <1>2, <1>6, <1>7
    <3>2. IsFiniteSet(S[p[k]].items) /\ IsFiniteSet(T[q[k]].items)
      <4>1. IsFiniteSet(1..n)
        BY FS_Interval
      <4> QED
        BY <3>1, <4>1, FS_Subset
    <3>3. S[p[k]].items \cap T[q[k]].items = {}
      BY <1>11
    <3>4. Cardinality(S[p[k]].items \cup T[q[k]].items)
            = Cardinality(S[p[k]].items) + Cardinality(T[q[k]].items)
              - Cardinality(S[p[k]].items \cap T[q[k]].items)
      BY <3>2, FS_Union
    <3>5. /\ Cardinality(S[p[k]].items \cap T[q[k]].items) = 0
          /\ Cardinality(S[p[k]].items) \in Nat /\ Cardinality(T[q[k]].items) \in Nat
      BY <3>2, <3>3, FS_EmptySet, FS_CardinalityType
    <3>6. Cardinality(S[p[k]].items \cup T[q[k]].items)
            = Cardinality(S[p[k]].items) + Cardinality(T[q[k]].items)
      BY ONLY <3>4, <3>5
    <3> QED
      BY <1>4, <3>6
  <2> QED
    BY <2>2, <2>3
<1>13. Covers(next, n)
  <2> SUFFICES ASSUME NEW x \in 1..n
               PROVE  \E U \in next, i \in Parts : x \in U[i].items
    BY DEF Covers
  <2>1. PICK U \in heap, j \in Parts : x \in U[j].items
    BY <1>5 DEF Covers
  <2>2. CASE U = S
    <3>1. PICK i \in Parts : p[i] = j
      BY <1>3
    <3>2. x \in M[i].items
      BY <1>4, <2>1, <2>2, <3>1
    <3> QED
      BY <3>2
  <2>3. CASE U = T
    <3>1. K + 1 - j \in Parts /\ K + 1 - (K + 1 - j) = j
      BY <1>k DEF Parts
    <3>2. PICK i \in Parts : p[i] = K + 1 - j
      BY <1>3, <3>1
    <3>3. q[i] = j
      BY <1>2, <3>1, <3>2
    <3>4. x \in M[i].items
      BY <1>4, <2>1, <2>3, <3>3
    <3> QED
      BY <3>4
  <2>4. CASE U \in rest
    BY <2>1, <2>4
  <2> QED
    BY <2>2, <2>3, <2>4
<1>14. \A i \in Parts : \A x : x \in M[i].items => x \in S[p[i]].items \/ x \in T[q[i]].items
  BY <1>4
<1>15. Apart(next)
  <2>1. ASSUME NEW i \in Parts, NEW j \in Parts, NEW x, x \in M[i].items, x \in M[j].items
        PROVE  i = j
    <3>1. p[i] \in Parts /\ p[j] \in Parts /\ q[i] \in Parts /\ q[j] \in Parts
      BY <1>2
    <3>2. \/ x \in S[p[i]].items /\ x \in S[p[j]].items
          \/ x \in T[q[i]].items /\ x \in T[q[j]].items
      BY <1>11, <1>14, <2>1
    <3>3. p[i] = p[j] \/ q[i] = q[j]
      BY <1>5, <1>7, <3>1, <3>2 DEF Apart
    <3>4. p[i] = p[j]
      <4>1. /\ p[i] \in Nat /\ p[j] \in Nat /\ q[i] = K + 1 - p[i] /\ q[j] = K + 1 - p[j]
        BY <1>2
      <4> QED
        BY <1>k, <3>3, <4>1
    <3> QED
      BY <1>1, <3>4
  <2>2. ASSUME NEW U \in rest, NEW i \in Parts, NEW j \in Parts, NEW x,
               x \in U[i].items, x \in M[j].items
        PROVE  FALSE
    <3>1. p[j] \in Parts /\ q[j] \in Parts
      BY <1>2
    <3>2. x \in S[p[j]].items \/ x \in T[q[j]].items
      BY <1>14, <2>2
    <3> QED
      BY <1>5, <1>7, <2>2, <3>1, <3>2 DEF Apart
  <2>3. ASSUME NEW U \in rest, NEW V \in rest, NEW i \in Parts, NEW j \in Parts, NEW x,
               x \in U[i].items, x \in V[j].items
        PROVE  U = V /\ i = j
    BY <1>5, <2>3 DEF Apart
  <2> SUFFICES ASSUME NEW U \in next, NEW V \in next, NEW i \in Parts, NEW j \in Parts, NEW x,
                      x \in U[i].items, x \in V[j].items
               PROVE  U = V /\ i = j
    BY DEF Apart
  <2>4. CASE U = M /\ V = M
    BY <2>1, <2>4
  <2>5. CASE U \in rest /\ V = M
    BY <2>2, <2>5
  <2>6. CASE U = M /\ V \in rest
    BY <2>2, <2>6
  <2>7. CASE U \in rest /\ V \in rest
    BY <2>3, <2>7
  <2> QED
    BY <2>4, <2>5, <2>6, <2>7
<1>16. Summed(next, len)
  <2> SUFFICES ASSUME NEW i \in Parts
               PROVE  /\ IsFiniteSet(Tokens(len, M[i].items))
                      /\ M[i].sum = Cardinality(Tokens(len, M[i].items))
    BY <1>5 DEF Summed
  <2>1. p[i] \in Parts /\ q[i] \in Parts
    BY <1>2
  <2>2. /\ IsFiniteSet(Tokens(len, S[p[i]].items))
        /\ S[p[i]].sum = Cardinality(Tokens(len, S[p[i]].items))
        /\ IsFiniteSet(Tokens(len, T[q[i]].items))
        /\ T[q[i]].sum = Cardinality(Tokens(len, T[q[i]].items))
    BY <1>5, <1>7, <2>1 DEF Summed
  <2>3. S[p[i]].items \cap T[q[i]].items = {}
    BY <1>11
  <2>4. /\ IsFiniteSet(Tokens(len, S[p[i]].items \cup T[q[i]].items))
        /\ Cardinality(Tokens(len, S[p[i]].items \cup T[q[i]].items))
             = Cardinality(Tokens(len, S[p[i]].items)) + Cardinality(Tokens(len, T[q[i]].items))
    BY <2>2, <2>3, TokensUnion
  <2> QED
    BY <1>4, <2>2, <2>4
<1>17. Even(next, w)
  <2> SUFFICES Spread(M) <= w
    BY <1>5 DEF Even
  <2>1. 1 \in Parts /\ K \in Parts
    BY <1>k DEF Parts
  <2>2. /\ p[1] \in Parts /\ p[K] \in Parts /\ q[1] \in Parts /\ q[K] \in Parts
        /\ p[1] \in Nat /\ p[K] \in Nat
        /\ q[1] = K + 1 - p[1] /\ q[K] = K + 1 - p[K]
    BY <1>2, <2>1
  <2>3. /\ S[p[1]].sum \in Nat /\ S[p[K]].sum \in Nat /\ Spread(S) \in Nat
        /\ p[1] <= p[K] => S[p[1]].sum - S[p[K]].sum <= Spread(S)
        /\ p[1] >= p[K] => S[p[1]].sum - S[p[K]].sum <= 0
    BY <1>5, <1>7, <2>2, SpreadLargest
  <2>4. /\ T[q[1]].sum \in Nat /\ T[q[K]].sum \in Nat /\ Spread(T) \in Nat
        /\ q[1] <= q[K] => T[q[1]].sum - T[q[K]].sum <= Spread(T)
        /\ q[1] >= q[K] => T[q[1]].sum - T[q[K]].sum <= 0
    BY <1>5, <1>7, <2>2, SpreadLargest
  <2>5. Spread(S) <= w /\ Spread(T) <= w /\ w \in Nat
    BY <1>5, <1>7 DEF Even
  <2>6. /\ M[1].sum = S[p[1]].sum + T[q[1]].sum
        /\ M[K].sum = S[p[K]].sum + T[q[K]].sum
    BY <1>4, <2>1
  <2>7. (p[1] <= p[K] /\ q[1] >= q[K]) \/ (p[1] >= p[K] /\ q[1] <= q[K])
    BY <1>k, <2>2
  <2>8. M[1].sum - M[K].sum <= w
    <3>1. CASE p[1] <= p[K] /\ q[1] >= q[K]
      <4>1. S[p[1]].sum - S[p[K]].sum <= w /\ T[q[1]].sum - T[q[K]].sum <= 0
        BY <2>3, <2>4, <2>5, <3>1
      <4>2. /\ S[p[1]].sum \in Nat /\ S[p[K]].sum \in Nat
            /\ T[q[1]].sum \in Nat /\ T[q[K]].sum \in Nat /\ w \in Nat
        BY <2>3, <2>4, <2>5
      <4> QED
        BY <2>6, <4>1, <4>2, TwoSpreads
    <3>2. CASE p[1] >= p[K] /\ q[1] <= q[K]
      <4>1. S[p[1]].sum - S[p[K]].sum <= 0 /\ T[q[1]].sum - T[q[K]].sum <= w
        BY <2>3, <2>4, <2>5, <3>2
      <4>2. /\ S[p[1]].sum \in Nat /\ S[p[K]].sum \in Nat
            /\ T[q[1]].sum \in Nat /\ T[q[K]].sum \in Nat /\ w \in Nat
        BY <2>3, <2>4, <2>5
      <4> QED
        BY <2>6, <4>1, <4>2, TwoSpreads
    <3> QED
      BY <2>7, <3>1, <3>2
  <2> QED
    BY <2>8 DEF Spread
<1> QED
  <2>1. next \subseteq State(n)
    BY <1>5, <1>8
  <2> QED
    BY <1>5, <1>9, <1>10, <1>12, <1>13, <1>15, <1>16, <1>17, <2>1 DEF Heap

-----------------------------------------------------------------------------
(* The partitions of the last state *)

PartOf(heap, i) == (CHOOSE S \in heap : TRUE)[i].items

\* The item at place i when the partitions of m items each follow one another.
Place(heap, m, i) == NthOf(PartOf(heap, ((i - 1) \div m) + 1), ((i - 1) % m) + 1)

Permutes(heap, m, n) ==
  /\ \A i \in 1..n : Place(heap, m, i) \in 1..n
  /\ \A i, j \in 1..n : Place(heap, m, i) = Place(heap, m, j) => i = j
  /\ \A x \in 1..n : \E i \in 1..n : Place(heap, m, i) = x

PartsOf(heap, m, n) ==
  /\ \A i \in Parts : PartOf(heap, i) \in SUBSET (1..n) /\ Cardinality(PartOf(heap, i)) = m
  /\ \A i, j \in Parts : \A x : x \in PartOf(heap, i) /\ x \in PartOf(heap, j) => i = j
  /\ \A x \in 1..n : \E i \in Parts : x \in PartOf(heap, i)

\* With one state left, the K partitions have m of the m * K items each.
LEMMA PartsLemma ==
  ASSUME NEW m \in Nat \ {0}, NEW n \in Nat, n = m * K, NEW w, NEW len,
         NEW heap, Heap(heap, w, len, n), Cardinality(heap) = 1
  PROVE  PartsOf(heap, m, n)
<1> DEFINE S == CHOOSE U \in heap : TRUE
           c == Cardinality(S[1].items)
           Pairs == Parts \X (1..c)
           f == [z \in Pairs |-> NthOf(S[z[1]].items, z[2])]
<1>k. K \in Nat \ {0} /\ 1 \in Parts
  BY BalanceAssumption DEF Parts
<1>1. /\ heap \subseteq State(n) /\ IsFiniteSet(heap)
      /\ EqualSets(heap) /\ Covers(heap, n) /\ Apart(heap)
  BY DEF Heap
<1>2. S \in heap /\ heap = {S}
  <2>1. PICK U : heap = {U}
    BY <1>1, FS_Singleton
  <2> QED
    BY <2>1
<1>3. \A i \in Parts : PartOf(heap, i) = S[i].items
  BY DEF PartOf
<1> HIDE DEF S
<1>4. \A i \in Parts : S[i].items \in SUBSET (1..n)
  BY <1>1, <1>2 DEF State
<1>5. \A i \in Parts : IsFiniteSet(S[i].items)
  <2>1. IsFiniteSet(1..n)
    BY FS_Interval
  <2> QED
    BY <1>4, <2>1, FS_Subset
<1>6. \A i \in Parts : Cardinality(S[i].items) = c
  BY <1>1, <1>2, <1>k DEF EqualSets
<1>7. c \in Nat
  BY <1>5, <1>k, FS_CardinalityType
<1>8. \A i, j \in Parts : \A x : x \in S[i].items /\ x \in S[j].items => i = j
  BY <1>1, <1>2 DEF Apart
<1>9. \A x \in 1..n : \E i \in Parts : x \in S[i].items
  BY <1>1, <1>2 DEF Covers
<1>10. \A i \in Parts : NthExact(S[i].items)
  BY <1>4, <1>5, NthLemma
<1> HIDE DEF c
<1>11. /\ \A i \in Parts, k \in 1..c : NthOf(S[i].items, k) \in S[i].items
       /\ \A i \in Parts : \A j, k \in 1..c :
            NthOf(S[i].items, j) = NthOf(S[i].items, k) => j = k
       /\ \A i \in Parts : \A x \in S[i].items : \E k \in 1..c : NthOf(S[i].items, k) = x
  BY <1>6, <1>10 DEF NthExact
<1>12. f \in Bijection(Pairs, 1..n)
  <2>1. \A z \in Pairs : z[1] \in Parts /\ z[2] \in 1..c /\ z = <<z[1], z[2]>>
    OBVIOUS
  <2>2. \A z \in Pairs : f[z] = NthOf(S[z[1]].items, z[2])
    OBVIOUS
  <2>3. f \in [Pairs -> 1..n]
    BY <1>4, <1>11, <2>1
  <2>4. ASSUME NEW y \in Pairs, NEW z \in Pairs, f[y] = f[z] PROVE y = z
    <3>1. f[y] \in S[y[1]].items /\ f[z] \in S[z[1]].items
      BY <1>11, <2>1, <2>2
    <3>2. y[1] = z[1]
      BY <1>8, <2>1, <2>4, <3>1
    <3>3. y[2] = z[2]
      BY <1>11, <2>1, <2>2, <2>4, <3>2
    <3> QED
      BY <2>1, <3>2, <3>3
  <2>5. ASSUME NEW x \in 1..n PROVE \E z \in Pairs : f[z] = x
    <3>1. PICK i \in Parts : x \in S[i].items
      BY <1>9
    <3>2. PICK k \in 1..c : NthOf(S[i].items, k) = x
      BY <1>11, <3>1
    <3>3. <<i, k>> \in Pairs /\ f[<<i, k>>] = x
      BY <3>2
    <3> QED
      BY <3>3
  <2> QED
    BY <2>3, <2>4, <2>5 DEF Bijection, Injection, IsInjective, Surjection
<1>13. c = m
  <2>1. /\ IsFiniteSet(Parts) /\ Cardinality(Parts) = K
        /\ IsFiniteSet(1..c) /\ Cardinality(1..c) = c
        /\ Cardinality(1..n) = n
    <3>1. IsFiniteSet(1..K) /\ Cardinality(1..K) = K
      BY <1>k, FS_Interval
    <3>2. IsFiniteSet(1..c) /\ Cardinality(1..c) = c
      <4>1. \A k \in Nat : IsFiniteSet(1..k) /\ Cardinality(1..k) = k
        <5> TAKE k \in Nat
        <5> QED
          BY ONLY FS_Interval, k \in Nat
      <4> QED
        BY <1>7, <4>1
    <3>3. Cardinality(1..n) = n
      BY FS_Interval
    <3> QED
      BY <3>1, <3>2, <3>3 DEF Parts
  <2>2. IsFiniteSet(Pairs) /\ Cardinality(Pairs) = Cardinality(Parts) * Cardinality(1..c)
    BY <2>1, FS_Product
  <2>3. Cardinality(1..n) = Cardinality(Pairs)
    <3>1. ExistsBijection(Pairs, 1..n)
      BY <1>12 DEF ExistsBijection
    <3> QED
      BY <2>2, <3>1, FS_Bijection
  <2>4. n = K * c
    BY <2>1, <2>2, <2>3
  <2>5. c * K + 0 = m * K + 0 /\ 0 \in 0..K - 1
    BY <1>7, <1>k, <2>4
  <2> QED
    BY ONLY <1>7, <1>k, <2>5, GroupPlace, m \in Nat \ {0}
<1> QED
  BY <1>3, <1>4, <1>6, <1>8, <1>9, <1>13 DEF PartsOf

\* So the new order of the items is a permutation of them.
LEMMA OrderLemma ==
  ASSUME NEW m \in Nat \ {0}, NEW n \in Nat, n = m * K, NEW w, NEW len,
         NEW heap, Heap(heap, w, len, n), Cardinality(heap) = 1
  PROVE  Permutes(heap, m, n)
<1> DEFINE part(i) == ((i - 1) \div m) + 1
           nth(i) == ((i - 1) % m) + 1
<1>k. K \in Nat \ {0}
  BY BalanceAssumption
<1>1. PartsOf(heap, m, n)
  BY PartsLemma
<1>2. /\ \A i \in Parts : PartOf(heap, i) \in SUBSET (1..n) /\ Cardinality(PartOf(heap, i)) = m
      /\ \A i, j \in Parts : \A x : x \in PartOf(heap, i) /\ x \in PartOf(heap, j) => i = j
      /\ \A x \in 1..n : \E i \in Parts : x \in PartOf(heap, i)
  BY <1>1 DEF PartsOf
<1>3. \A i \in Parts : NthExact(PartOf(heap, i))
  <2> TAKE i \in Parts
  <2>1. PartOf(heap, i) \in SUBSET (1..n) /\ IsFiniteSet(1..n)
    BY <1>2, FS_Interval
  <2>2. IsFiniteSet(PartOf(heap, i)) /\ PartOf(heap, i) \in SUBSET Int
    BY <2>1, FS_Subset
  <2> QED
    BY <2>2, NthLemma
<1>4. /\ \A i \in Parts, k \in 1..m : NthOf(PartOf(heap, i), k) \in PartOf(heap, i)
      /\ \A i \in Parts : \A j, k \in 1..m :
           NthOf(PartOf(heap, i), j) = NthOf(PartOf(heap, i), k) => j = k
      /\ \A i \in Parts : \A x \in PartOf(heap, i) : \E k \in 1..m : NthOf(PartOf(heap, i), k) = x
  BY <1>2, <1>3 DEF NthExact
<1>5. ASSUME NEW i \in 1..n
      PROVE  /\ part(i) \in Parts /\ nth(i) \in 1..m
             /\ i = (part(i) - 1) * m + nth(i)
  <2>1. i - 1 \in Nat /\ i - 1 \in 0..K * m - 1
    BY <1>k
  <2>2. (i - 1) \div m \in 0..K - 1
    BY <1>k, <2>1, InGroup
  <2>3. /\ (i - 1) \div m \in Nat /\ (i - 1) % m \in 0..m - 1
        /\ i - 1 = ((i - 1) \div m) * m + ((i - 1) % m)
    BY <2>1, DivMod
  <2>4. part(i) \in Parts
    BY <1>k, <2>2 DEF Parts
  <2>5. nth(i) \in 1..m /\ part(i) - 1 = (i - 1) \div m
    BY <2>3
  <2>6. i = ((i - 1) \div m) * m + (((i - 1) % m) + 1)
    BY <2>3
  <2> QED
    BY <2>4, <2>5, <2>6
<1>6. \A i \in 1..n : Place(heap, m, i) = NthOf(PartOf(heap, part(i)), nth(i))
  BY DEF Place
<1>7. \A i \in 1..n : Place(heap, m, i) \in PartOf(heap, part(i)) /\ part(i) \in Parts
  BY <1>4, <1>5, <1>6
<1>8. \A p \in Parts, k \in 1..m : \E i \in 1..n : part(i) = p /\ nth(i) = k
  <2> TAKE p \in Parts, k \in 1..m
  <2>1. p - 1 \in 0..K - 1 /\ k - 1 \in 0..m - 1 /\ p - 1 \in Nat
    BY <1>k DEF Parts
  <2>2. (p - 1) * m + (k - 1) \in 0..K * m - 1
    BY <1>k, <2>1, InGroup
  <2>3. PICK i \in 1..n : i - 1 = (p - 1) * m + (k - 1)
    <3>1. PICK z \in 0..K * m - 1 : z = (p - 1) * m + (k - 1)
      BY <2>2
    <3>2. z + 1 \in 1..n /\ (z + 1) - 1 = z
      BY <1>k, <3>1
    <3> QED
      BY <3>1, <3>2
  <2>4. i - 1 \in Nat
    OBVIOUS
  <2>5. /\ (i - 1) \div m \in Nat /\ (i - 1) % m \in 0..m - 1
        /\ i - 1 = ((i - 1) \div m) * m + ((i - 1) % m)
    BY <2>4, DivMod
  <2>6. ((i - 1) \div m) * m + ((i - 1) % m) = (p - 1) * m + (k - 1)
    BY <2>3, <2>5
  <2>7. (i - 1) \div m = p - 1 /\ (i - 1) % m = k - 1
    <3> DEFINE g == (i - 1) \div m
               r == (i - 1) % m
    <3>1. g \in Nat /\ r \in 0..m - 1 /\ g * m + r = (p - 1) * m + (k - 1)
      BY ONLY <2>5, <2>6
    <3> HIDE DEF g, r
    <3>2. g = p - 1 /\ r = k - 1
      BY ONLY <2>1, <3>1, GroupPlace, m \in Nat \ {0}
    <3> QED
      BY <3>2 DEF g, r
  <2> QED
    BY <1>k, <2>7 DEF Parts
<1> HIDE DEF part, nth
<1>9. \A i \in 1..n : Place(heap, m, i) \in 1..n
  BY <1>2, <1>7
<1>10. ASSUME NEW i \in 1..n, NEW j \in 1..n, Place(heap, m, i) = Place(heap, m, j)
       PROVE  i = j
  <2>1. part(i) = part(j)
    BY <1>2, <1>7, <1>10
  <2>2. nth(i) = nth(j)
    BY <1>4, <1>5, <1>6, <1>10, <2>1
  <2> QED
    BY <1>5, <2>1, <2>2
<1>11. ASSUME NEW x \in 1..n PROVE \E i \in 1..n : Place(heap, m, i) = x
  <2>1. PICK p \in Parts : x \in PartOf(heap, p)
    BY <1>2
  <2>2. PICK k \in 1..m : NthOf(PartOf(heap, p), k) = x
    BY <1>4, <2>1
  <2>3. PICK i \in 1..n : part(i) = p /\ nth(i) = k
    BY <1>8
  <2> QED
    BY <1>6, <2>2, <2>3
<1> QED
  BY <1>9, <1>10, <1>11 DEF Permutes

=============================================================================
