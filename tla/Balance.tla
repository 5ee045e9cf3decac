------------------------------- MODULE Balance -------------------------------
(***************************************************************************)
(* karmarkar_karp of utils/seqlen_balancing.py with equal_size=True: items *)
(* 1..n with lengths are split into K partitions of n/K items each.  The   *)
(* heap holds states; a state is K sets of items, the largest sum first.   *)
(* The two states of the largest spread are merged, the largest set of one *)
(* with the smallest of the other, until one state is left.  Where sums or *)
(* spreads are equal the code goes on by the items; here any order may be. *)
(***************************************************************************)
EXTENDS Integers, FiniteSets

CONSTANT K       \* k_partitions
ASSUME BalanceAssumption == K \in Nat \ {0}

VARIABLES
  states_pq,     \* the heap, a set of states
  widest         \* history: the largest spread among the first states

balanceVars == <<states_pq, widest>>

Parts == 1..K
State(n) == [Parts -> [sum : Nat, items : SUBSET (1..n)]]

BalanceInit == states_pq = {} /\ widest = 0

Spread(S) == S[1].sum - S[K].sum

\* The item at 0-based place `place' of sorted([(seqlen, i) ...]).
ItemAt(len, place) ==
  CHOOSE x \in DOMAIN len :
    Cardinality({y \in DOMAIN len : len[y] < len[x] \/ (len[y] = len[x] /\ y < x)}) = place

\* The state of the g-th group of K items, its sets in decreasing order.
Group(len, g) ==
  [i \in Parts |-> LET x == ItemAt(len, g * K + K - i) IN [sum |-> len[x], items |-> {x}]]

\* The first states: equal_size asserts that K divides the number of items.
StartStates(len) == {Group(len, g) : g \in 0..(Cardinality(DOMAIN len) \div K) - 1}

StartBalance(len) ==
  /\ states_pq' = StartStates(len)
  /\ widest' = CHOOSE w \in {Spread(S) : S \in StartStates(len)} :
                 \A S \in StartStates(len) : Spread(S) <= w

\* A plausible fault: sets of the same place are merged.
MergedSamePlace(S, T) ==
  [i \in Parts |-> [sum |-> S[i].sum + T[i].sum, items |-> S[i].items \cup T[i].items]]

\* A plausible fault: the sum of a set does not follow its items.
MergedItemsOnly(S, T) ==
  [i \in Parts |-> [sum |-> S[i].sum, items |-> S[i].items \cup T[K + 1 - i].items]]

\* State.merge before its sort: the i-th set takes in the (k - 1 - i)-th of the other.
Merged(S, T) ==
  [i \in Parts |-> [sum |-> S[i].sum + T[K + 1 - i].sum,
                    items |-> S[i].items \cup T[K + 1 - i].items]]

\* sorted(sets, reverse=True): M in an order of decreasing sums.
Sorts(S, M) ==
  /\ \E p \in [Parts -> Parts] :
       /\ \A i, j \in Parts : i # j => p[i] # p[j]
       /\ S = [i \in Parts |-> M[p[i]]]
  /\ \A i, j \in Parts : i < j => S[i].sum >= S[j].sum

\* heappop: one of those with the largest spread.
Pops(S, heap) == S \in heap /\ \A U \in heap : Spread(U) <= Spread(S)

MergeTwo ==
  /\ \E S \in states_pq :
       /\ Pops(S, states_pq)
       /\ \E T \in states_pq \ {S} :
            /\ Pops(T, states_pq \ {S})
            /\ \E p \in [Parts -> Parts] :
                 LET M == [i \in Parts |-> Merged(S, T)[p[i]]]
                 IN  Sorts(M, Merged(S, T)) /\ states_pq' = (states_pq \ {S, T}) \cup {M}
  /\ UNCHANGED widest

\* One state is left: the loop is over, and its sets are the partitions.
Balanced == Cardinality(states_pq) = 1
Partition(i) == (CHOOSE S \in states_pq : TRUE)[i].items

\* sorted(partition): its n-th index.
NthOf(set, n) == CHOOSE x \in set : Cardinality({y \in set : y < x}) = n - 1

-----------------------------------------------------------------------------
(* Properties of n items *)

\* The tokens of some items.
Tokens(len, items) == UNION {{x} \X (1..len[x]) : x \in items}

\* Every state is sorted and made of sets of the same size; every item is in one place.
Shares(n) ==
  /\ \A S \in states_pq : \A i, j \in Parts :
       /\ Cardinality(S[i].items) = Cardinality(S[j].items)
       /\ i < j => S[i].sum >= S[j].sum
  /\ \A x \in 1..n : \E S \in states_pq, i \in Parts :
       /\ x \in S[i].items
       /\ \A T \in states_pq, j \in Parts : x \in T[j].items => T = S /\ j = i

\* The differencing method never makes two sets differ by more than the groups it began
\* with: partitions are at most as uneven as the widest group of K neighbours in length.
SpreadBound == \A S \in states_pq : Spread(S) <= widest

=============================================================================
