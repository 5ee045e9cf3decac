--------------------------- MODULE TeamStep_proofs ---------------------------
(***************************************************************************)
(* Proofs about a batch of a team, for every number of agents and ranks,   *)
(* every set of configurations and every size of the micro-batches: the    *)
(* types, that ranks with one agent's rows are never in different          *)
(* collectives, that what is computed for a row is computed by its own     *)
(* agent, that no row is lost or doubled, and the bound on the unevenness  *)
(* of the partitions.                                                      *)
(*                                                                         *)
(* The rows move three times: the target filter with the repetition, the   *)
(* padding, and the reordering.  So the invariant says where the rows of a *)
(* prompt are after each of these, what the heap holds while the batch is  *)
(* balanced, which agents a rank still has work of, and with one agent     *)
(* that all ranks have the same work and are equally far with it.          *)
(***************************************************************************)
EXTENDS TeamStep, Balance_proofs, SequenceTheorems

-----------------------------------------------------------------------------
(* Numbers *)

LEMMA Constants ==
  /\ NAgents \in Nat \ {0} /\ NRanks \in Nat \ {0} /\ K = NRanks /\ Parts = 1..NRanks
  /\ MiniBatch \in Nat \ {0} /\ MicroBatch \in Nat \ {0} /\ LogProbMicro \in Nat \ {0}
  /\ Configs \subseteq Configuration
  /\ \A c \in Configs : Len(c.ids) > 0 /\ c.forced < c.agents /\ c.lens # {}
BY TeamAssumption DEF Parts

\* n rows are shared out over the ranks in chunks of c, one after the other.
SharedOut(n, c) ==
  /\ c \in Nat \ {0} /\ n = c * NRanks
  /\ \A i \in 1..n : (i - 1) \div c \in Ranks
                     /\ i \in ((i - 1) \div c) * c + 1..(((i - 1) \div c) + 1) * c
  /\ \A r \in Ranks :
       /\ r * c + 1..(r + 1) * c \subseteq 1..n
       /\ r * c + 1 \in r * c + 1..(r + 1) * c
       /\ IsFiniteSet(r * c + 1..(r + 1) * c) /\ Cardinality(r * c + 1..(r + 1) * c) = c
       /\ \A i \in r * c + 1..(r + 1) * c : (i - 1) \div c = r

LEMMA ShareLemma ==
  ASSUME NEW n \in Nat \ {0}, n % NRanks = 0
  PROVE  SharedOut(n, n \div NRanks)
<1>k. NRanks \in Nat \ {0}
  BY Constants
<1>1. PICK c : c = n \div NRanks
  OBVIOUS
<1>2. c \in Nat \ {0} /\ n = c * NRanks
  <2>1. c \in Nat /\ n = c * NRanks + (n % NRanks)
    BY <1>k, <1>1, DivMod
  <2>2. n = c * NRanks
    BY <1>k, <2>1
  <2> QED
    BY <1>k, <2>1, <2>2
<1>3. ASSUME NEW i \in 1..n
      PROVE  /\ (i - 1) \div c \in Ranks
             /\ i \in ((i - 1) \div c) * c + 1..(((i - 1) \div c) + 1) * c
  <2>1. i - 1 \in Nat /\ i - 1 \in 0..NRanks * c - 1
    BY <1>k, <1>2
  <2>2. (i - 1) \div c \in 0..NRanks - 1
    BY <1>k, <1>2, <2>1, InGroup
  <2>3. PICK g \in Nat, s \in 0..c - 1 : (i - 1) \div c = g /\ i - 1 = g * c + s
    <3>1. /\ (i - 1) \div c \in Nat /\ (i - 1) % c \in 0..c - 1
          /\ i - 1 = ((i - 1) \div c) * c + ((i - 1) % c)
      BY ONLY <1>2, <2>1, DivMod
    <3> QED
      BY <3>1
  <2>4. g * c \in Nat /\ (g + 1) * c = g * c + c
    BY <1>2
  <2>5. i = g * c + (s + 1) /\ s + 1 \in 1..c
    BY <1>2, <2>3, <2>4
  <2>6. i \in g * c + 1..(g + 1) * c
    BY <1>2, <2>4, <2>5
  <2> QED
    BY <2>2, <2>3, <2>6 DEF Ranks
<1>4. ASSUME NEW r \in Ranks
      PROVE  /\ r * c + 1..(r + 1) * c \subseteq 1..n
             /\ r * c + 1 \in r * c + 1..(r + 1) * c
             /\ IsFiniteSet(r * c + 1..(r + 1) * c) /\ Cardinality(r * c + 1..(r + 1) * c) = c
             /\ \A i \in r * c + 1..(r + 1) * c : (i - 1) \div c = r
  <2>1. r \in Nat /\ r \in 0..NRanks - 1
    BY <1>k DEF Ranks
  <2>2. PICK a \in Nat : a = r * c
    BY <1>2, <2>1
  <2>3. (r + 1) * c = a + c
    BY <1>2, <2>1, <2>2
  <2>4. \A s \in 0..c - 1 : a + s \in 0..n - 1
    BY <1>k, <1>2, <2>1, <2>2, InGroup
  <2>5. a + 1..a + c \subseteq 1..n
    <3>1. \A i \in a + 1..a + c : i - 1 - a \in 0..c - 1 /\ i = a + (i - 1 - a) + 1
      BY <1>2
    <3> QED
      BY <2>4, <3>1
  <2>6. IsFiniteSet(a + 1..a + c) /\ Cardinality(a + 1..a + c) = c
    <3>1. PICK b \in Nat : b = a + c
      BY <1>2
    <3>2. PICK d \in Nat : d = a + 1
      OBVIOUS
    <3>3. IsFiniteSet(d..b) /\ Cardinality(d..b) = IF d > b THEN 0 ELSE b - d + 1
      BY FS_Interval
    <3> QED
      BY <1>2, <3>1, <3>2, <3>3
  <2>7. ASSUME NEW i \in a + 1..a + c PROVE (i - 1) \div c = r
    <3>1. i - 1 \in Nat /\ i - 1 - a \in 0..c - 1 /\ i - 1 = r * c + (i - 1 - a)
      BY <1>2, <2>2
    <3>2. PICK g \in Nat, s \in 0..c - 1 : (i - 1) \div c = g /\ i - 1 = g * c + s
      <4>1. /\ (i - 1) \div c \in Nat /\ (i - 1) % c \in 0..c - 1
            /\ i - 1 = ((i - 1) \div c) * c + ((i - 1) % c)
        BY ONLY <1>2, <3>1, DivMod
      <4> QED
        BY <4>1
    <3>3. PICK t \in 0..c - 1 : t = i - 1 - a
      BY <3>1
    <3>4. g * c + s = r * c + t
      BY <3>1, <3>2, <3>3
    <3>5. g = r
      BY ONLY <1>2, <2>1, <3>4, GroupPlace, g \in Nat, s \in 0..c - 1, t \in 0..c - 1
    <3> QED
      BY <3>2, <3>5
  <2>8. a + 1 \in a + 1..a + c
    BY <1>2
  <2> QED
    BY <2>2, <2>3, <2>5, <2>6, <2>7, <2>8
<1> QED
  BY <1>1, <1>2, <1>3, <1>4 DEF SharedOut

\* Of k copies of each of L things, k are of the p-th.
Copies(L, k) ==
  /\ \A i \in 1..L * k : ((i - 1) \div k) + 1 \in 1..L
  /\ \A p \in 1..L :
       /\ IsFiniteSet({j \in 1..L * k : ((j - 1) \div k) + 1 = p})
       /\ Cardinality({j \in 1..L * k : ((j - 1) \div k) + 1 = p}) = k

LEMMA CopiesLemma ==
  ASSUME NEW L \in Nat, NEW k \in Nat \ {0}
  PROVE  Copies(L, k)
<1>1. ASSUME NEW i \in 1..L * k PROVE ((i - 1) \div k) + 1 \in 1..L
  <2>1. i - 1 \in 0..L * k - 1
    OBVIOUS
  <2>2. (i - 1) \div k \in 0..L - 1
    BY <2>1, InGroup
  <2> QED
    BY <2>2
<1>2. ASSUME NEW p \in 1..L
      PROVE  /\ IsFiniteSet({j \in 1..L * k : ((j - 1) \div k) + 1 = p})
             /\ Cardinality({j \in 1..L * k : ((j - 1) \div k) + 1 = p}) = k
  <2>1. PICK r \in Nat : r = p - 1
    OBVIOUS
  <2>2. r \in 0..L - 1
    BY <2>1
  <2>3. PICK a \in Nat : a = r * k
    OBVIOUS
  <2>4. \A s \in 0..k - 1 : a + s \in 0..L * k - 1
    BY <2>2, <2>3, InGroup
  <2>5. ASSUME NEW j \in a + 1..a + k
        PROVE  j \in 1..L * k /\ ((j - 1) \div k) + 1 = p
    <3>1. PICK t \in 0..k - 1 : t = j - 1 - a
      OBVIOUS
    <3>0. a + t \in 0..L * k - 1 /\ j = a + t + 1
      BY <2>4, <3>1
    <3>2. a + t \in 0..L * k - 1 /\ j = a + t + 1 /\ j - 1 = r * k + t /\ j - 1 \in Nat
      BY <2>3, <3>0
    <3>3. PICK g \in Nat, s \in 0..k - 1 : (j - 1) \div k = g /\ j - 1 = g * k + s
      BY <3>2, DivMod
    <3>4. g * k + s = r * k + t
      BY <3>2, <3>3
    <3>5. g = r
      BY ONLY <3>4, GroupPlace, g \in Nat, r \in Nat, k \in Nat \ {0}, s \in 0..k - 1, t \in 0..k - 1
    <3> QED
      BY <2>1, <3>2, <3>3, <3>5
  <2>6. ASSUME NEW j \in 1..L * k, ((j - 1) \div k) + 1 = p
        PROVE  j \in a + 1..a + k
    <3>1. j - 1 \in Nat
      OBVIOUS
    <3>2. PICK g \in Nat, s \in 0..k - 1 : (j - 1) \div k = g /\ j - 1 = g * k + s
      BY <3>1, DivMod
    <3>3. g = r
      BY <2>1, <2>6, <3>2
    <3>4. j = a + s + 1
      BY <2>3, <3>2, <3>3
    <3> QED
      BY <3>4
  <2>7. {j \in 1..L * k : ((j - 1) \div k) + 1 = p} = a + 1..a + k
    BY <2>5, <2>6
  <2>8. IsFiniteSet(a + 1..a + k) /\ Cardinality(a + 1..a + k) = k
    <3>1. PICK b \in Nat : b = a + k
      OBVIOUS
    <3>2. PICK d \in Nat : d = a + 1
      OBVIOUS
    <3>3. IsFiniteSet(d..b) /\ Cardinality(d..b) = IF d > b THEN 0 ELSE b - d + 1
      BY FS_Interval
    <3> QED
      BY <3>1, <3>2, <3>3
  <2> QED
    BY <2>7, <2>8
<1> QED
  BY <1>1, <1>2 DEF Copies

-----------------------------------------------------------------------------
(* The inductive invariant *)

\* The prompts of the batch are in it, those of the target agent or all of them.
Live == Ops \cup {"balance", "merge", "done"}

\* An operation runs on a batch that can be shared out, and so does what follows the first;
\* a validation has only that one; no rank has work outside of an operation.
PhaseInv ==
  /\ config \in Configs
  /\ called => phase \in Ops
  /\ Len(rows) > 0
  /\ config.kind = "train" => padding = 0
  /\ config.kind = "validate" =>
       phase \in {"route", "select", "generate", "done", "failed", "stuck", "mixed"}
  /\ called \/ phase \in {"balance", "merge", "log_prob", "ref", "update"} =>
       Len(rows) % NRanks = 0
  /\ ~called /\ phase \notin Ends => \A r \in Ranks : todo[r] = {}
  /\ phase # "merge" => states_pq = {}

\* Before an operation the rows are those of the configuration, the prompts by their places.
FreshInv ==
  /\ phase \in {"route", "select"} =>
       /\ Len(rows) = Len(config.ids)
       /\ \A i \in DOMAIN rows : rows[i] = Fresh(i, rows[i].agent)
  /\ phase = "route" => \A i \in DOMAIN rows : rows[i].agent = config.ids[i]
  /\ phase # "route" => \A i \in DOMAIN rows : rows[i].agent \in Valid

\* What a rank still has to work on are agents it has rows of.
TodoInv ==
  called => \A r \in Ranks : todo[r] \subseteq {rows[i].agent : i \in Local(r)}

\* A row is trained when its agent has been through the update.
Due(i) == called /\ rows[i].agent \notin todo[RankOf(i)]
TrainedInv ==
  \A i \in DOMAIN rows :
    /\ phase \in Ops \cup {"balance", "merge"} =>
         Len(rows[i].trained) = IF phase = "update" /\ Due(i) THEN 1 ELSE 0
    /\ phase = "done" /\ config.kind = "train" => Len(rows[i].trained) = 1

\* The rows of each prompt of a training batch are n; those of a validation batch are in
\* their order, and the padding repeats them.
Same(i) == {j \in DOMAIN rows : rows[j].prompt = rows[i].prompt}
Tested == Len(config.ids) * config.n
CountInv ==
  phase \in Live =>
    /\ config.kind = "train" => \A i \in DOMAIN rows : Cardinality(Same(i)) = config.n
    /\ config.kind = "validate" =>
         /\ Len(rows) = IF phase = "done" THEN Tested ELSE Tested + padding
         /\ \A i \in DOMAIN rows : i <= Tested => rows[i].prompt = ((i - 1) \div config.n) + 1
         /\ \A i \in DOMAIN rows : i > Tested =>
              LET first == rows[((i - 1) % Tested) + 1]
              IN  rows[i].prompt = first.prompt /\ rows[i].agent = first.agent

HeapInv == phase = "merge" => Heap(states_pq, widest, Lengths, Len(rows))

\* All rows have one agent once they have the agents they will have.
Uniform ==
  phase # "route" /\ phase # "skipped"
    /\ (phase = "select" => ~(config.target # None /\ config.kind = "train")) =>
    \E a \in Valid : \A i \in DOMAIN rows : rows[i].agent = a
InStep == \A r, q \in Ranks : todo[r] = todo[q] /\ passes[r] = passes[q]
TeamInv == OneAgent => Uniform /\ InStep /\ NeverMismatched

IInv ==
  /\ TypeOK /\ PhaseInv /\ FreshInv /\ TodoInv /\ TrainedInv /\ CountInv /\ HeapInv
  /\ OwnAgent /\ TeamInv

-----------------------------------------------------------------------------
(* Rows *)

\* A batch is a function on its places; one that is a function to rows is a batch.
LEMMA BatchLemma ==
  ASSUME NEW s \in Seq(Row)
  PROVE  Len(s) \in Nat /\ DOMAIN s = 1..Len(s) /\ \A i \in 1..Len(s) : s[i] \in Row
BY ElementOfSeq, LenProperties

LEMMA BatchOf ==
  ASSUME NEW n \in Nat, NEW s \in [1..n -> Row]
  PROVE  s \in Seq(Row) /\ Len(s) = n /\ DOMAIN s = 1..n
BY IsASeq

LEMMA RowFields ==
  ASSUME NEW row \in Row
  PROVE  /\ row.prompt \in Nat /\ row.agent \in Int /\ row.answer \in Nat /\ row.by \in Int
         /\ row.len \in Nat /\ row.old \in Int /\ row.ref \in Int /\ row.trained \in Seq(Agents)
BY DEF Row

LEMMA FreshFields ==
  ASSUME NEW p \in Nat, NEW a \in Int
  PROVE  /\ Fresh(p, a) \in Row
         /\ Fresh(p, a).prompt = p /\ Fresh(p, a).agent = a /\ Fresh(p, a).by = None
         /\ Fresh(p, a).old = None /\ Fresh(p, a).ref = None /\ Fresh(p, a).trained = <<>>
BY DEF Fresh, Row, None

\* What the invariant says of the configuration and the batch, in the words of the steps.
Bounds ==
  /\ config \in Configuration /\ config \in Configs
  /\ config.agents \in Nat \ {0} /\ config.n \in Nat \ {0} /\ config.agents <= NAgents
  /\ config.kind \in {"train", "validate"}
  /\ config.ids \in Seq(Int) /\ Len(config.ids) \in Nat \ {0}
  /\ config.forced \in Valid \cup {None} /\ config.lens \subseteq Nat
  /\ Valid \subseteq Agents /\ Agents \subseteq Int
  /\ Len(rows) \in Nat \ {0} /\ DOMAIN rows = 1..Len(rows)
  /\ \A i \in DOMAIN rows : rows[i] \in Row /\ rows[i].agent \in Int /\ rows[i].prompt \in Nat

LEMMA BoundsLemma ==
  ASSUME TypeOK, PhaseInv
  PROVE  Bounds
<1>1. config \in Configuration /\ config \in Configs /\ Len(config.ids) > 0
      /\ config.forced < config.agents
  BY Constants DEF TypeOK, PhaseInv
<1>2. /\ config.agents \in 1..NAgents /\ config.n \in Nat \ {0}
      /\ config.kind \in {"train", "validate"} /\ config.ids \in Seq(Int)
      /\ config.forced \in Agents \cup {None} /\ config.lens \subseteq Nat
  BY <1>1 DEF Configuration
<1>3. NAgents \in Nat \ {0}
  BY Constants
<1>4. Len(config.ids) \in Nat
  BY <1>2, LenProperties
<1>5. rows \in Seq(Row) /\ Len(rows) > 0
  BY DEF TypeOK, PhaseInv
<1>6. Len(rows) \in Nat /\ DOMAIN rows = 1..Len(rows) /\ \A i \in 1..Len(rows) : rows[i] \in Row
  BY <1>5, BatchLemma
<1>7. \A i \in DOMAIN rows : rows[i].agent \in Int /\ rows[i].prompt \in Nat
  BY <1>6, RowFields
<1>8. Valid \subseteq Agents /\ Agents \subseteq Int
  BY <1>2, <1>3 DEF Valid, Agents
<1>9. config.forced \in Valid \cup {None}
  BY <1>1, <1>2, <1>3 DEF Valid, Agents, None
<1> QED
  BY <1>1, <1>2, <1>3, <1>4, <1>5, <1>6, <1>7, <1>8, <1>9 DEF Bounds

-----------------------------------------------------------------------------
(* The first states *)

LEMMA InitInv == Init => IInv
<1> SUFFICES ASSUME Init PROVE IInv
  OBVIOUS
<1>1. /\ config \in Configs /\ phase = "route" /\ called = FALSE /\ padding = 0
      /\ rows = [p \in 1..Len(config.ids) |-> Fresh(p, config.ids[p])]
      /\ todo = [r \in Ranks |-> {}] /\ passes = [r \in Ranks |-> 0]
      /\ states_pq = {} /\ widest = 0
  BY DEF Init, BalanceInit
<1>2. config \in Configuration /\ Len(config.ids) > 0 /\ config.ids \in Seq(Int)
  <2>1. config \in Configuration /\ Len(config.ids) > 0
    BY <1>1, Constants
  <2> QED
    BY <2>1 DEF Configuration
<1>3. Len(config.ids) \in Nat \ {0} /\ \A p \in 1..Len(config.ids) : config.ids[p] \in Int
  BY <1>2, LenProperties, ElementOfSeq
<1>4. \A p \in 1..Len(config.ids) :
        /\ rows[p] = Fresh(p, config.ids[p]) /\ rows[p] \in Row
        /\ rows[p].agent = config.ids[p]
        /\ rows[p].by = None /\ rows[p].old = None /\ rows[p].ref = None
        /\ rows[p].trained = <<>>
  BY <1>1, <1>3, FreshFields
<1>5. rows \in Seq(Row) /\ Len(rows) = Len(config.ids) /\ DOMAIN rows = 1..Len(config.ids)
  <2>1. rows \in [1..Len(config.ids) -> Row]
    BY <1>1, <1>4
  <2> QED
    BY <1>3, <2>1, BatchOf
<1>6. TypeOK
  BY <1>1, <1>2, <1>5 DEF TypeOK, Phases
<1>7. PhaseInv
  BY <1>1, <1>3, <1>5 DEF PhaseInv
<1>8. FreshInv
  BY <1>1, <1>4, <1>5 DEF FreshInv
<1>9. TodoInv /\ TrainedInv /\ CountInv /\ HeapInv
  BY <1>1 DEF TodoInv, TrainedInv, CountInv, HeapInv, Live, Ops
<1>10. OwnAgent
  BY <1>4, <1>5 DEF OwnAgent
<1>11. TeamInv
  BY <1>1 DEF TeamInv, Uniform, InStep, NeverMismatched
<1> QED
  BY <1>6, <1>7, <1>8, <1>9, <1>10, <1>11 DEF IInv

-----------------------------------------------------------------------------
(* Routing, the filter and the padding *)

LEMMA EnsureAgentIdsInv ==
  ASSUME IInv, EnsureAgentIds
  PROVE  IInv'
<1>1. Bounds
  BY BoundsLemma DEF IInv
<1>2. /\ phase = "route" /\ phase' = "select" /\ called' = called /\ padding' = padding
      /\ config' = config /\ todo' = todo /\ passes' = passes
      /\ states_pq' = states_pq /\ widest' = widest
  BY DEF EnsureAgentIds, workVars, balanceVars
<1>3. ~called /\ states_pq = {}
  BY <1>2 DEF IInv, PhaseInv, Ops
<1>4. \A p \in DOMAIN rows : rows[p] = Fresh(p, rows[p].agent) /\ rows[p].agent = config.ids[p]
  BY <1>2 DEF IInv, FreshInv
<1>5. PICK new \in [DOMAIN rows -> Valid \cup {rows[p].agent : p \in DOMAIN rows}] :
        /\ IF config.forced # None THEN new = [p \in DOMAIN rows |-> config.forced] ELSE Routed(new)
        /\ rows' = [p \in DOMAIN rows |-> [rows[p] EXCEPT !.agent = new[p]]]
  BY DEF EnsureAgentIds
<1>6. config.forced # None => new = [p \in DOMAIN rows |-> config.forced]
  BY <1>5
<1>7. config.forced = None => Routed(new)
  BY <1>5
<1>8. \A a \in Int : ~Invalid(a) <=> a \in Valid
  BY <1>1 DEF Invalid, Valid, Bounds
<1>9. \A p \in DOMAIN rows : new[p] \in Valid
  <2> TAKE p \in DOMAIN rows
  <2>1. CASE config.forced # None
    BY <1>1, <1>6, <2>1 DEF Bounds
  <2>2. CASE config.forced = None /\ \A q \in DOMAIN rows : ~Invalid(rows[q].agent)
    <3>1. new = [q \in DOMAIN rows |-> rows[q].agent]
      BY <1>7, <2>2 DEF Routed
    <3> QED
      BY <1>1, <1>8, <2>2, <3>1 DEF Bounds
  <2>3. CASE config.forced = None /\ ~\A q \in DOMAIN rows : ~Invalid(rows[q].agent)
    <3>1. CASE config.router = "random_batch"
      <4>1. \E a \in Valid : new = [q \in DOMAIN rows |-> a]
        BY <1>7, <2>3, <3>1 DEF Routed
      <4> QED
        BY <4>1
    <3>2. CASE config.router = "random"
      <4>1. new \in [DOMAIN rows -> Valid]
        BY <1>7, <2>3, <3>2 DEF Routed
      <4> QED
        BY <4>1
    <3>3. CASE config.router \notin {"random_batch", "random"}
      <4>1. new = [q \in DOMAIN rows |->
                     IF rows[q].agent < 0 THEN 0
                     ELSE IF Invalid(rows[q].agent) THEN config.agents - 1 ELSE rows[q].agent]
        BY <1>7, <2>3, <3>3 DEF Routed
      <4>2. 0 \in Valid /\ config.agents - 1 \in Valid
        BY <1>1 DEF Valid, Bounds
      <4> QED
        BY <1>1, <1>8, <4>1, <4>2 DEF Bounds
    <3> QED
      BY <3>1, <3>2, <3>3
  <2> QED
    BY <2>1, <2>2, <2>3
<1>10. \A p \in DOMAIN rows : /\ rows'[p] = Fresh(p, new[p]) /\ rows'[p] \in Row
                              /\ rows'[p].agent = new[p] /\ p \in Nat
  <2> TAKE p \in DOMAIN rows
  <2>1. rows'[p] = [rows[p] EXCEPT !.agent = new[p]]
    BY <1>5
  <2>2. rows'[p] = Fresh(p, new[p])
    BY <1>4, <2>1 DEF Fresh
  <2>3. p \in Nat /\ new[p] \in Int
    <3>1. DOMAIN rows = 1..Len(rows) /\ Len(rows) \in Nat /\ Valid \subseteq Int
      BY <1>1 DEF Bounds
    <3>2. new[p] \in Valid
      BY <1>9
    <3>3. p \in Nat
      BY <3>1
    <3> QED
      BY ONLY <3>1, <3>2, <3>3
  <2> QED
    BY <2>2, <2>3, FreshFields
<1>11. rows' \in Seq(Row) /\ Len(rows') = Len(rows) /\ DOMAIN rows' = DOMAIN rows
  <2>1. DOMAIN rows = 1..Len(rows) /\ Len(rows) \in Nat
    BY <1>1 DEF Bounds
  <2>2. rows' \in [1..Len(rows) -> Row]
    BY <1>5, <1>10, <2>1
  <2> QED
    BY <2>1, <2>2, BatchOf
<1>12. TypeOK'
  BY <1>2, <1>3, <1>11 DEF IInv, TypeOK, Phases
<1>13. PhaseInv'
  BY <1>2, <1>3, <1>11 DEF IInv, PhaseInv, Ends
<1>14. FreshInv'
  <2>1. Valid' = Valid
    BY <1>2 DEF Valid
  <2>2. Len(rows) = Len(config.ids)
    BY <1>2 DEF IInv, FreshInv
  <2>3. \A p \in DOMAIN rows : rows'[p] = Fresh(p, rows'[p].agent)
    BY <1>10
  <2> QED
    BY <1>2, <1>9, <1>10, <1>11, <2>1, <2>2, <2>3 DEF FreshInv
<1>15. TodoInv' /\ TrainedInv' /\ CountInv' /\ HeapInv'
  BY <1>2, <1>3 DEF TodoInv, TrainedInv, CountInv, HeapInv, Live, Ops
<1>16. OwnAgent'
  <2>1. \A p \in DOMAIN rows' : /\ rows'[p].by = None /\ rows'[p].old = None /\ rows'[p].ref = None
                                /\ rows'[p].trained = <<>>
    <3> TAKE p \in DOMAIN rows'
    <3>1. rows'[p] = Fresh(p, new[p]) /\ p \in Nat /\ new[p] \in Int
      BY <1>1, <1>9, <1>10, <1>11 DEF Bounds
    <3> QED
      BY <3>1, FreshFields
  <2> QED
    BY <2>1 DEF OwnAgent
<1>17. TeamInv'
  <2> SUFFICES ASSUME OneAgent' PROVE Uniform' /\ InStep' /\ NeverMismatched'
    BY DEF TeamInv
  <2>1. OneAgent
    BY <1>2 DEF OneAgent, Invalid, Valid
  <2>2. InStep' /\ NeverMismatched'
    BY <1>2, <2>1 DEF IInv, TeamInv, InStep, NeverMismatched
  <2>3. Uniform'
    <3> SUFFICES ASSUME ~(config.target # None /\ config.kind = "train")
                 PROVE  \E a \in Valid : \A p \in DOMAIN rows : new[p] = a
      <4>1. Valid' = Valid
        BY <1>2 DEF Valid
      <4>2. \A p \in DOMAIN rows' : rows'[p].agent = new[p]
        BY <1>10, <1>11
      <4> QED
        BY <1>2, <1>11, <4>1, <4>2 DEF Uniform
    <3>1. CASE config.agents = 1
      <4>1. Valid = {0}
        BY <3>1 DEF Valid
      <4> QED
        BY <1>9, <4>1
    <3>2. CASE config.forced # None
      BY <1>1, <1>6, <3>2 DEF Bounds
    <3>3. DOMAIN rows = DOMAIN config.ids
      <4>1. Len(rows) = Len(config.ids)
        BY <1>2 DEF IInv, FreshInv
      <4>2. DOMAIN config.ids = 1..Len(config.ids) /\ DOMAIN rows = 1..Len(rows)
        BY <1>1 DEF Bounds
      <4> QED
        BY <4>1, <4>2
    <3>4. CASE /\ config.router = "random_batch" /\ config.forced = None
               /\ \E p \in DOMAIN config.ids : Invalid(config.ids[p])
      <4>1. ~\A p \in DOMAIN rows : ~Invalid(rows[p].agent)
        BY <1>4, <3>3, <3>4
      <4>2. \E a \in Valid : new = [p \in DOMAIN rows |-> a]
        BY <1>7, <3>4, <4>1 DEF Routed
      <4> QED
        BY <4>2
    <3>5. CASE /\ config.forced = None
               /\ \E a \in Valid : \A p \in DOMAIN config.ids : config.ids[p] = a
      <4>1. PICK a \in Valid : \A p \in DOMAIN config.ids : config.ids[p] = a
        BY <3>5
      <4>2. \A p \in DOMAIN rows : rows[p].agent = a
        BY <1>4, <3>3, <4>1
      <4>3. \A p \in DOMAIN rows : ~Invalid(rows[p].agent)
        BY <1>1, <1>8, <4>2 DEF Bounds
      <4>4. new = [p \in DOMAIN rows |-> rows[p].agent]
        BY <1>7, <3>5, <4>3 DEF Routed
      <4> QED
        BY <4>2, <4>4
    <3> QED
      BY <2>1, <3>1, <3>2, <3>4, <3>5 DEF OneAgent
  <2> QED
    BY <2>2, <2>3
<1> QED
  BY <1>12, <1>13, <1>14, <1>15, <1>16, <1>17 DEF IInv

LEMMA SelectInv ==
  ASSUME IInv, Select
  PROVE  IInv'
<1>1. Bounds
  BY BoundsLemma DEF IInv
<1>2. /\ phase = "select" /\ config.kind = "train" /\ called' = called /\ padding' = padding
      /\ config' = config /\ todo' = todo /\ passes' = passes
      /\ states_pq' = states_pq /\ widest' = widest
  BY DEF Select, workVars, balanceVars
<1>3. ~called /\ states_pq = {} /\ \A r \in Ranks : todo[r] = {}
  BY <1>2 DEF IInv, PhaseInv, Ops, Ends
<1>4. /\ \A p \in DOMAIN rows : rows[p] = Fresh(p, rows[p].agent) /\ rows[p].agent \in Valid
      /\ DOMAIN rows = 1..Len(rows) /\ Len(rows) \in Nat /\ Valid \subseteq Int
  BY <1>1, <1>2 DEF IInv, FreshInv, Bounds
<1>5. OneAgent' <=> OneAgent
  BY <1>2 DEF OneAgent, Invalid, Valid
<1>6. Valid' = Valid /\ Live' = Live
  BY <1>2 DEF Valid, Live
<1>7. CASE Kept = {}
  <2>1. phase' = "skipped" /\ rows' = rows
    BY <1>7 DEF Select
  <2>2. TypeOK' /\ PhaseInv' /\ FreshInv'
    BY <1>2, <1>3, <1>4, <1>6, <2>1 DEF IInv, TypeOK, PhaseInv, FreshInv, Phases, Ends
  <2>3. TodoInv' /\ TrainedInv' /\ CountInv' /\ HeapInv' /\ OwnAgent'
    BY <1>2, <1>3, <2>1
    DEF IInv, TodoInv, TrainedInv, CountInv, HeapInv, OwnAgent, Live, Ops
  <2>4. TeamInv'
    BY <1>2, <1>5, <2>1 DEF IInv, TeamInv, Uniform, InStep, NeverMismatched
  <2> QED
    BY <2>2, <2>3, <2>4 DEF IInv
<1>8. CASE Kept # {}
  <2> DEFINE n == config.n
             L == Cardinality(Kept)
             s == [k \in 1..L |-> rows[NthOf(Kept, k)]]
             from(i) == NthOf(Kept, ((i - 1) \div n) + 1)
  <2>1. phase' = "generate" /\ rows' = Repeat(s, n)
    BY <1>8 DEF Select
  <2>2. Kept \in SUBSET (1..Len(rows)) /\ IsFiniteSet(Kept) /\ L \in Nat \ {0}
    <3>1. Kept \in SUBSET (1..Len(rows)) /\ IsFiniteSet(1..Len(rows))
      BY <1>4, FS_Interval DEF Kept
    <3>2. IsFiniteSet(Kept)
      BY <3>1, FS_Subset
    <3> QED
      BY <1>8, <3>1, <3>2, FS_CardinalityType, FS_EmptySet
  <2>3. NthExact(Kept)
    <3>1. Kept \in SUBSET Int
      BY <2>2
    <3> QED
      BY <2>2, <3>1, NthLemma
  <2>4. n \in Nat \ {0}
    BY <1>1 DEF Bounds
  <2>5. PICK l \in Nat \ {0} : l = L
    BY <2>2
  <2>6. /\ \A k \in 1..l : NthOf(Kept, k) \in Kept
        /\ \A j, k \in 1..l : NthOf(Kept, j) = NthOf(Kept, k) => j = k
    BY <2>3, <2>5 DEF NthExact
  <2>7. s \in Seq(Row) /\ Len(s) = l
    <3>1. \A k \in 1..l : rows[NthOf(Kept, k)] \in Row
      BY <1>1, <2>6 DEF Bounds, Kept
    <3>2. s \in [1..l -> Row]
      BY <2>5, <3>1
    <3> QED
      BY <2>5, <3>2, BatchOf
  <2>8. l * n \in Nat \ {0}
    BY <2>4, <2>5
  <2>9. Copies(l, n)
    BY <2>4, <2>5, CopiesLemma
  <2>10. \A i \in 1..l * n : ((i - 1) \div n) + 1 \in 1..l
    BY <2>9 DEF Copies
  <2>11. rows' = [i \in 1..l * n |-> s[((i - 1) \div n) + 1]]
    BY <2>1, <2>7 DEF Repeat
  <2>12. \A i \in 1..l * n : rows'[i] = rows[from(i)] /\ from(i) \in Kept
    BY <2>5, <2>6, <2>10, <2>11
  <2> HIDE DEF s, L
  <2>13. \A i \in 1..l * n :
           /\ rows'[i] = Fresh(from(i), rows[from(i)].agent)
           /\ from(i) \in Nat /\ from(i) \in Kept /\ rows[from(i)].agent \in Valid
    BY <1>4, <2>2, <2>12
  <2>14. \A i \in 1..l * n :
           /\ rows'[i] \in Row /\ rows'[i].prompt = from(i)
           /\ rows'[i].agent = rows[from(i)].agent /\ rows'[i].agent \in Valid
           /\ rows'[i].by = None /\ rows'[i].old = None /\ rows'[i].ref = None
           /\ rows'[i].trained = <<>>
    <3> TAKE i \in 1..l * n
    <3>1. /\ rows'[i] = Fresh(from(i), rows[from(i)].agent)
          /\ from(i) \in Nat /\ rows[from(i)].agent \in Int /\ rows[from(i)].agent \in Valid
      BY <1>4, <2>13
    <3> QED
      BY <3>1, FreshFields
  <2>15. rows' \in Seq(Row) /\ Len(rows') = l * n /\ DOMAIN rows' = 1..l * n
    <3>1. rows' \in [1..l * n -> Row]
      BY <2>11, <2>14
    <3> QED
      BY <2>8, <3>1, BatchOf
  <2>16. TypeOK'
    BY <1>2, <1>3, <2>1, <2>15 DEF IInv, TypeOK, Phases, Ops
  <2>17. PhaseInv'
    BY <1>2, <1>3, <2>1, <2>8, <2>15 DEF IInv, PhaseInv, Ends
  <2>18. FreshInv'
    BY <1>6, <2>1, <2>14, <2>15 DEF FreshInv
  <2>19. TodoInv' /\ HeapInv'
    BY <1>2, <1>3, <2>1 DEF TodoInv, HeapInv
  <2>20. TrainedInv'
    BY <2>1, <2>14, <2>15 DEF TrainedInv
  <2>21. OwnAgent'
    BY <2>14, <2>15 DEF OwnAgent
  <2>22. CountInv'
    <3> SUFFICES ASSUME NEW i \in 1..l * n
                 PROVE  Cardinality(Same(i)') = n
      BY <1>2, <2>15 DEF CountInv
    <3>1. PICK p \in 1..l : p = ((i - 1) \div n) + 1
      BY <2>10
    <3>2. Same(i)' = {j \in 1..l * n : from(j) = from(i)}
      BY <2>14, <2>15 DEF Same
    <3>3. \A j \in 1..l * n : from(j) = from(i) <=> ((j - 1) \div n) + 1 = p
      BY <2>6, <2>10, <3>1
    <3>4. Same(i)' = {j \in 1..l * n : ((j - 1) \div n) + 1 = p}
      BY <3>2, <3>3
    <3> QED
      BY <2>9, <3>4 DEF Copies
  <2>23. TeamInv'
    <3> SUFFICES ASSUME OneAgent PROVE Uniform' /\ InStep' /\ NeverMismatched'
      BY <1>5 DEF TeamInv
    <3>1. InStep' /\ NeverMismatched'
      BY <1>2, <2>1 DEF IInv, TeamInv, InStep, NeverMismatched
    <3>2. Uniform'
      <4>1. CASE config.target # None
        <5>1. \A i \in 1..l * n : rows'[i].agent = config.target
          BY <2>13, <2>14, <4>1 DEF Kept, OfTarget
        <5>2. 1 \in 1..l * n
          BY <2>8
        <5>3. config.target \in Valid
          BY <2>14, <5>1, <5>2
        <5> QED
          BY <1>6, <2>15, <5>1, <5>3 DEF Uniform
      <4>2. CASE config.target = None
        <5>1. PICK a \in Valid : \A p \in DOMAIN rows : rows[p].agent = a
          BY <1>2, <4>2 DEF IInv, TeamInv, Uniform
        <5>2. \A i \in 1..l * n : rows'[i].agent = a
          BY <2>13, <2>14, <5>1 DEF Kept
        <5> QED
          BY <1>6, <2>15, <5>2 DEF Uniform
      <4> QED
        BY <4>1, <4>2
    <3> QED
      BY <3>1, <3>2
  <2> QED
    BY <2>16, <2>17, <2>18, <2>19, <2>20, <2>21, <2>22, <2>23 DEF IInv
<1> QED
  BY <1>7, <1>8

LEMMA PadInv ==
  ASSUME IInv, Pad
  PROVE  IInv'
<1> DEFINE n == config.n
           T == Len(rows) * n
           test == Repeat(rows, n)
           from(i) == IF i <= T THEN i ELSE ((i - 1) % T) + 1
           prompt(i) == ((i - 1) \div n) + 1
<1>1. Bounds
  BY BoundsLemma DEF IInv
<1>2. /\ phase = "select" /\ config.kind = "validate" /\ called' = called
      /\ config' = config /\ todo' = todo /\ passes' = passes
      /\ states_pq' = states_pq /\ widest' = widest /\ phase' = "generate"
      /\ padding' = PadSize(Len(test))
      /\ rows' = [i \in 1..Len(test) + padding' |->
                    IF i <= Len(test) THEN test[i] ELSE test[((i - 1) % Len(test)) + 1]]
  BY DEF Pad, balanceVars
<1>3. ~called /\ states_pq = {} /\ \A r \in Ranks : todo[r] = {}
  BY <1>2 DEF IInv, PhaseInv, Ops, Ends
<1>4. /\ \A p \in DOMAIN rows : rows[p] = Fresh(p, rows[p].agent) /\ rows[p].agent \in Valid
      /\ DOMAIN rows = 1..Len(rows) /\ Len(rows) \in Nat \ {0} /\ Valid \subseteq Int
      /\ Len(rows) = Len(config.ids)
  BY <1>1, <1>2 DEF IInv, FreshInv, Bounds
<1>5. OneAgent' <=> OneAgent
  BY <1>2 DEF OneAgent, Invalid, Valid
<1>6. Valid' = Valid /\ Live' = Live /\ Tested' = T /\ n' = n
  BY <1>2, <1>4 DEF Valid, Live, Tested
<1>7. n \in Nat \ {0}
  BY <1>1 DEF Bounds
<1>8. T \in Nat \ {0}
  BY <1>4, <1>7
<1>9. Copies(Len(rows), n)
  BY <1>4, <1>7, CopiesLemma
<1>10. \A i \in 1..T : prompt(i) \in 1..Len(rows)
  BY <1>9 DEF Copies
<1>11. test = [i \in 1..T |-> rows[prompt(i)]]
  BY DEF Repeat
<1>12. \A i \in 1..T : /\ test[i] = Fresh(prompt(i), rows[prompt(i)].agent)
                       /\ test[i] \in Row /\ prompt(i) \in Nat /\ rows[prompt(i)].agent \in Valid
  <2> TAKE i \in 1..T
  <2>1. test[i] = rows[prompt(i)] /\ prompt(i) \in DOMAIN rows
    BY <1>4, <1>10, <1>11
  <2>2. rows[prompt(i)] \in Row
    BY <1>1, <2>1 DEF Bounds
  <2> QED
    BY <1>4, <2>1, <2>2
<1>13. Len(test) = T
  <2>1. test \in [1..T -> Row]
    BY <1>11, <1>12
  <2> QED
    BY <1>8, <2>1, BatchOf
<1>14. PICK pad \in Nat : padding' = pad
  <2>1. T % NRanks \in 0..NRanks - 1 /\ NRanks \in Nat
    BY <1>8, Constants, DivMod
  <2>2. PadSize(T) \in Nat
    BY <2>1 DEF PadSize
  <2> QED
    BY <1>2, <1>13, <2>2
<1>15. rows' = [i \in 1..T + pad |-> IF i <= T THEN test[i] ELSE test[((i - 1) % T) + 1]]
  BY <1>2, <1>13, <1>14
<1>16. \A i \in 1..T + pad : from(i) \in 1..T /\ rows'[i] = test[from(i)]
  <2> TAKE i \in 1..T + pad
  <2>1. i - 1 \in Nat
    BY <1>8
  <2>2. (i - 1) % T \in 0..T - 1
    BY ONLY <1>8, <2>1, DivMod
  <2>3. from(i) \in 1..T
    BY <1>8, <2>2
  <2> QED
    BY <1>15, <2>3
<1> HIDE DEF test, from, T
<1>17. \A i \in 1..T + pad :
         /\ rows'[i] \in Row /\ rows'[i].prompt = prompt(from(i))
         /\ rows'[i].agent = rows[prompt(from(i))].agent /\ rows'[i].agent \in Valid
         /\ rows'[i].by = None /\ rows'[i].old = None /\ rows'[i].ref = None
         /\ rows'[i].trained = <<>>
  <2> TAKE i \in 1..T + pad
  <2>1. rows'[i] = test[from(i)] /\ from(i) \in 1..T
    BY <1>16
  <2>2. /\ test[from(i)] = Fresh(prompt(from(i)), rows[prompt(from(i))].agent)
        /\ prompt(from(i)) \in Nat /\ rows[prompt(from(i))].agent \in Valid
    BY <1>12, <2>1
  <2>3. rows[prompt(from(i))].agent \in Int
    BY <1>4, <2>2
  <2> QED
    BY <2>1, <2>2, <2>3, FreshFields
<1>18. T + pad \in Nat \ {0}
  BY <1>8
<1>19. rows' \in Seq(Row) /\ Len(rows') = T + pad /\ DOMAIN rows' = 1..T + pad
  <2>1. rows' \in [1..T + pad -> Row]
    BY <1>15, <1>17
  <2> QED
    BY <1>18, <2>1, BatchOf
<1>p. phase' = "generate" /\ config' = config /\ config.kind = "validate"
  BY <1>2
<1>20. TypeOK'
  BY <1>2, <1>3, <1>14, <1>19 DEF IInv, TypeOK, Phases, Ops
<1>21. PhaseInv'
  BY <1>2, <1>3, <1>8, <1>14, <1>18, <1>19 DEF IInv, PhaseInv, Ends
<1>22. FreshInv'
  BY <1>2, <1>6, <1>17, <1>19 DEF FreshInv
<1>23. TodoInv' /\ HeapInv'
  BY <1>2, <1>3 DEF TodoInv, HeapInv
<1>24. TrainedInv'
  BY <1>p, <1>17, <1>19 DEF TrainedInv
<1>25. OwnAgent'
  BY <1>17, <1>19 DEF OwnAgent
<1>26. CountInv'
  <2>1. ASSUME NEW i \in 1..T + pad, i <= T PROVE rows'[i].prompt = prompt(i)
    BY <1>17, <2>1 DEF from
  <2>2. ASSUME NEW i \in 1..T + pad, i > T
        PROVE  LET first == rows'[((i - 1) % T) + 1]
               IN  rows'[i].prompt = first.prompt /\ rows'[i].agent = first.agent
    <3>1. from(i) = ((i - 1) % T) + 1
      BY <1>8, <2>2 DEF from
    <3>2. from(i) \in 1..T /\ from(i) \in 1..T + pad
      BY <1>8, <1>16
    <3>3. from(from(i)) = from(i)
      BY <3>2 DEF from
    <3>4. rows'[i] = test[from(i)] /\ rows'[from(i)] = test[from(i)]
      BY <1>16, <3>2, <3>3
    <3> QED
      BY <3>1, <3>4
  <2> QED
    <3>1. /\ \A i \in DOMAIN rows' : i <= T => rows'[i].prompt = ((i - 1) \div n) + 1
          /\ \A i \in DOMAIN rows' : i > T =>
               LET first == rows'[((i - 1) % T) + 1]
               IN  rows'[i].prompt = first.prompt /\ rows'[i].agent = first.agent
      BY <1>19, <2>1, <2>2
    <3> QED
      BY <1>p, <1>6, <1>14, <1>19, <3>1 DEF CountInv
<1>27. TeamInv'
  <2> SUFFICES ASSUME OneAgent PROVE Uniform' /\ InStep' /\ NeverMismatched'
    BY <1>5 DEF TeamInv
  <2>1. InStep' /\ NeverMismatched'
    BY <1>2 DEF IInv, TeamInv, InStep, NeverMismatched
  <2>2. PICK a \in Valid : \A p \in DOMAIN rows : rows[p].agent = a
    BY <1>2 DEF IInv, TeamInv, Uniform
  <2>3. \A i \in 1..T + pad : rows'[i].agent = a
    <3> TAKE i \in 1..T + pad
    <3>1. from(i) \in 1..T
      BY <1>16
    <3>2. prompt(from(i)) \in DOMAIN rows
      BY <1>4, <1>10, <3>1
    <3> QED
      BY <1>17, <2>2, <3>2
  <2>4. Uniform'
    BY <1>6, <1>19, <2>3 DEF Uniform
  <2> QED
    BY <2>1, <2>4
<1> QED
  BY <1>20, <1>21, <1>22, <1>23, <1>24, <1>25, <1>26, <1>27 DEF IInv

-----------------------------------------------------------------------------
(* An operation on the ranks *)

\* Where the rows of a batch that is shared out are.
Shared ==
  /\ Chunk \in Nat \ {0} /\ Len(rows) = Chunk * NRanks
  /\ \A i \in DOMAIN rows : RankOf(i) \in Ranks /\ i \in Local(RankOf(i))
  /\ \A r \in Ranks :
       /\ Local(r) \subseteq DOMAIN rows /\ r * Chunk + 1 \in Local(r)
       /\ IsFiniteSet(Local(r)) /\ Cardinality(Local(r)) = Chunk
       /\ \A i \in Local(r) : RankOf(i) = r

LEMMA SharedLemma ==
  ASSUME Bounds, Len(rows) % NRanks = 0
  PROVE  Shared
<1>1. Len(rows) \in Nat \ {0} /\ DOMAIN rows = 1..Len(rows)
  BY DEF Bounds
<1>2. SharedOut(Len(rows), Chunk)
  BY <1>1, ShareLemma DEF Chunk
<1> QED
  BY <1>1, <1>2 DEF Shared, SharedOut, Local, RankOf

LEMMA DispatchInv ==
  ASSUME IInv, Dispatch
  PROVE  IInv'
<1>1. Bounds
  BY BoundsLemma DEF IInv
<1>2. /\ phase \in Ops /\ ~called /\ config' = config /\ rows' = rows /\ padding' = padding
      /\ passes' = passes /\ states_pq' = states_pq /\ widest' = widest
  BY DEF Dispatch, balanceVars
<1>3. \A r \in Ranks : todo[r] = {}
  BY <1>2 DEF IInv, PhaseInv, Ops, Ends
<1>4. /\ Valid' = Valid /\ Tested' = Tested /\ Chunk' = Chunk
      /\ \A r : Local(r)' = Local(r)
      /\ \A i : RankOf(i)' = RankOf(i) /\ Same(i)' = Same(i)
      /\ OneAgent' <=> OneAgent
  BY <1>2 DEF Valid, Tested, Chunk, Local, RankOf, Same, OneAgent, Invalid
<1>5. OwnAgent'
  BY <1>2 DEF IInv, OwnAgent
<1>6. CASE Len(rows) % NRanks # 0
  <2>1. phase' = "failed" /\ called' = called /\ todo' = todo
    BY <1>6 DEF Dispatch
  <2>2. TypeOK' /\ PhaseInv'
    BY <1>2, <1>3, <2>1 DEF IInv, TypeOK, PhaseInv, Phases, Ends, Ops
  <2>3. FreshInv' /\ TodoInv' /\ HeapInv'
    BY <1>2, <1>4, <2>1 DEF IInv, FreshInv, TodoInv, HeapInv, Ops
  <2>4. TrainedInv' /\ CountInv'
    BY <2>1 DEF TrainedInv, CountInv, Live, Ops
  <2>5. TeamInv'
    BY <1>2, <1>4, <2>1 DEF IInv, TeamInv, Uniform, InStep, NeverMismatched, Ops
  <2> QED
    BY <1>5, <2>2, <2>3, <2>4, <2>5 DEF IInv
<1>7. CASE Len(rows) % NRanks = 0
  <2>1. /\ phase' = phase /\ called' = TRUE
        /\ todo' = [r \in Ranks |-> {rows[i].agent : i \in Local(r)}]
    BY <1>7 DEF Dispatch
  <2>2. Shared
    BY <1>1, <1>7, SharedLemma
  <2>3. \A i \in DOMAIN rows : rows[i].agent \in Valid /\ rows[i].agent \in Agents
    BY <1>1, <1>2 DEF IInv, FreshInv, Bounds, Ops
  <2>4. TypeOK'
    <3>1. \A r \in Ranks : {rows[i].agent : i \in Local(r)} \in SUBSET Agents
      BY <2>2, <2>3 DEF Shared
    <3>2. todo' \in [Ranks -> SUBSET Agents]
      BY <2>1, <3>1
    <3> QED
      BY <1>2, <2>1, <3>2 DEF IInv, TypeOK
  <2>5. PhaseInv'
    BY <1>2, <1>7, <2>1 DEF IInv, PhaseInv
  <2>6. FreshInv' /\ TodoInv' /\ HeapInv'
    BY <1>2, <1>4, <2>1 DEF IInv, FreshInv, TodoInv, HeapInv, Ops
  <2>7. CountInv'
    BY <1>2, <1>4, <2>1 DEF IInv, CountInv, Live, Ops
  <2>8. TrainedInv'
    <3>1. ASSUME NEW i \in DOMAIN rows PROVE ~Due(i) /\ ~Due(i)'
      <4>1. RankOf(i) \in Ranks /\ i \in Local(RankOf(i))
        BY <2>2 DEF Shared
      <4>2. rows[i].agent \in todo'[RankOf(i)]
        BY <2>1, <4>1
      <4> QED
        BY <1>2, <1>4, <4>2 DEF Due
    <3>2. \A i \in DOMAIN rows : Len(rows[i].trained) = 0
      BY <1>2, <3>1 DEF IInv, TrainedInv
    <3> QED
      BY <1>2, <2>1, <3>1, <3>2 DEF TrainedInv, Ops
  <2>9. TeamInv'
    <3> SUFFICES ASSUME OneAgent PROVE Uniform' /\ InStep' /\ NeverMismatched'
      BY <1>4 DEF TeamInv
    <3>1. Uniform' /\ NeverMismatched'
      BY <1>2, <1>4, <2>1 DEF IInv, TeamInv, Uniform, NeverMismatched
    <3>2. PICK a \in Valid : \A i \in DOMAIN rows : rows[i].agent = a
      BY <1>2 DEF IInv, TeamInv, Uniform, Ops
    <3>3. \A r \in Ranks : todo'[r] = {a}
      <4> TAKE r \in Ranks
      <4>1. todo'[r] = {rows[i].agent : i \in Local(r)}
        BY <2>1
      <4>2. r * Chunk + 1 \in Local(r) /\ Local(r) \subseteq DOMAIN rows
        BY <2>2 DEF Shared
      <4> QED
        BY <3>2, <4>1, <4>2
    <3>4. InStep'
      BY <1>2, <3>3 DEF IInv, TeamInv, InStep
    <3> QED
      BY <3>1, <3>4
  <2> QED
    BY <1>5, <2>4, <2>5, <2>6, <2>7, <2>8, <2>9 DEF IInv
<1> QED
  BY <1>6, <1>7

\* With one agent all ranks that have work have the same, and are equally far with it.
LEMMA LockStep ==
  ASSUME IInv, called, OneAgent, NEW s \in Ranks, todo[s] # {}
  PROVE  Meet
<1>1. Bounds
  BY BoundsLemma DEF IInv
<1>2. phase \in Ops /\ Len(rows) % NRanks = 0
  BY DEF IInv, PhaseInv
<1>3. Shared
  BY <1>1, <1>2, SharedLemma
<1>4. PICK a \in Valid : \A i \in DOMAIN rows : rows[i].agent = a
  BY <1>2 DEF IInv, TeamInv, Uniform, Ops
<1>5. \A r, q \in Ranks : todo[r] = todo[q] /\ passes[r] = passes[q]
  BY DEF IInv, TeamInv, InStep
<1>6. \A r \in Ranks : Local(r) \subseteq DOMAIN rows
  BY <1>3 DEF Shared
<1>7. \A r \in Ranks : todo[r] = {a}
  <2> TAKE r \in Ranks
  <2>1. todo[r] \subseteq {rows[i].agent : i \in Local(r)}
    BY DEF IInv, TodoInv
  <2>2. todo[r] \subseteq {a}
    BY <1>4, <1>6, <2>1
  <2> QED
    BY <1>5, <2>2
<1>8. \A r \in Ranks : Mine(r, a) = Local(r)
  BY <1>4, <1>6 DEF Mine
<1>9. \A r \in Ranks : Cardinality(Mine(r, a)) = Chunk
  BY <1>3, <1>8 DEF Shared
<1>10. \A r \in Ranks : Turn(r) = a
  <2> TAKE r \in Ranks
  <2>1. Local(r) \in SUBSET Int /\ IsFiniteSet(Local(r)) /\ Local(r) # {}
    BY <1>1, <1>3 DEF Shared, Bounds
  <2>2. \E i \in Local(r) : \A j \in Local(r) : i <= j
    BY <2>1, Extremes
  <2>3. First(Mine(r, a)) \in Int
    BY <1>8, <2>1, <2>2 DEF First
  <2>4. a \in Int
    BY <1>1 DEF Bounds
  <2>5. \A b \in todo[r] :
          IF phase = "generate" THEN First(Mine(r, a)) <= First(Mine(r, b)) ELSE a <= b
    BY <1>7, <2>3, <2>4
  <2> QED
    BY <1>7, <2>5 DEF Turn
<1>11. \A r, q \in Ranks : Entering(q) = Entering(r)
  <2> TAKE r, q \in Ranks
  <2>1. Turn(r) = a /\ Turn(q) = a /\ passes[r] = passes[q]
        /\ Cardinality(Mine(r, a)) = Chunk /\ Cardinality(Mine(q, a)) = Chunk
    BY <1>5, <1>9, <1>10
  <2> QED
    BY ONLY <2>1 DEF Entering
<1> QED
  BY <1>7, <1>11 DEF Meet

LEMMA MismatchInv ==
  ASSUME IInv, Mismatch
  PROVE  IInv'
<1>1. /\ phase' \in {"stuck", "mixed"} /\ called' = FALSE /\ called /\ phase \in Ops
      /\ config' = config /\ rows' = rows /\ padding' = padding /\ todo' = todo
      /\ passes' = passes /\ states_pq' = states_pq /\ widest' = widest
  BY DEF Mismatch, balanceVars, IInv, PhaseInv
<1>2. ~OneAgent
  <2>1. ~Meet /\ \E r \in Ranks : todo[r] # {}
    BY DEF Mismatch
  <2> QED
    BY <1>1, <2>1, LockStep
<1>3. TypeOK' /\ PhaseInv'
  BY <1>1 DEF IInv, TypeOK, PhaseInv, Phases, Ends, Ops
<1>4. FreshInv'
  BY <1>1 DEF IInv, FreshInv, Valid, Ops
<1>5. TodoInv' /\ TrainedInv' /\ CountInv' /\ HeapInv'
  BY <1>1 DEF IInv, TodoInv, TrainedInv, CountInv, HeapInv, Live, Ops
<1>6. OwnAgent'
  BY <1>1 DEF IInv, OwnAgent
<1>7. TeamInv'
  BY <1>1, <1>2 DEF TeamInv, OneAgent, Invalid, Valid
<1> QED
  BY <1>3, <1>4, <1>5, <1>6, <1>7 DEF IInv

\* A rank that has work is at an agent of it, whichever order it takes them in.
LEMMA TurnLemma ==
  ASSUME IInv, called, NEW r \in Ranks, todo[r] # {}
  PROVE  Turn(r) \in todo[r]
<1> DEFINE key(a) == IF phase = "generate" THEN First(Mine(r, a)) ELSE a
           keys == {key(a) : a \in todo[r]}
           f == [a \in todo[r] |-> key(a)]
<1>1. Bounds
  BY BoundsLemma DEF IInv
<1>2. phase \in Ops /\ Len(rows) % NRanks = 0
  BY DEF IInv, PhaseInv
<1>3. Shared
  BY <1>1, <1>2, SharedLemma
<1>4. todo[r] \subseteq Agents /\ todo[r] \subseteq {rows[i].agent : i \in Local(r)}
  BY DEF IInv, TypeOK, TodoInv
<1>5. Local(r) \in SUBSET Int /\ IsFiniteSet(Local(r))
  BY <1>1, <1>3 DEF Shared, Bounds
<1>6. \A a \in todo[r] : key(a) \in Int
  <2> TAKE a \in todo[r]
  <2>1. Mine(r, a) # {} /\ Mine(r, a) \in SUBSET Local(r)
    BY <1>4 DEF Mine
  <2>2. IsFiniteSet(Mine(r, a)) /\ Mine(r, a) \in SUBSET Int
    BY <1>5, <2>1, FS_Subset
  <2>3. \E i \in Mine(r, a) : \A j \in Mine(r, a) : i <= j
    BY <2>1, <2>2, Extremes
  <2>4. First(Mine(r, a)) \in Int
    BY <2>2, <2>3 DEF First
  <2>5. a \in Int
    BY <1>1, <1>4 DEF Bounds
  <2> QED
    BY <2>4, <2>5
<1>7. IsFiniteSet(keys)
  <2>1. IsFiniteSet(Agents)
    BY Constants, FS_Interval DEF Agents
  <2>2. IsFiniteSet(todo[r])
    BY <1>4, <2>1, FS_Subset
  <2>3. f \in Surjection(todo[r], keys)
    BY DEF Surjection
  <2> QED
    BY <2>2, <2>3, FS_Surjection
<1>8. \E k \in keys : \A l \in keys : k <= l
  <2>1. keys \in SUBSET Int /\ keys # {}
    BY <1>6
  <2> QED
    BY <1>7, <2>1, Extremes
<1>9. \E a \in todo[r] : \A b \in todo[r] : key(a) <= key(b)
  BY <1>8
<1>10. \E a \in todo[r] : \A b \in todo[r] :
         IF phase = "generate" THEN First(Mine(r, a)) <= First(Mine(r, b)) ELSE a <= b
  BY <1>9
<1> QED
  BY <1>10 DEF Turn

\* The response stitched into a row answers a prompt of the row's agent.
LEMMA AnswerLemma ==
  ASSUME Bounds, Shared, NEW i \in DOMAIN rows
  PROVE  /\ Answer(i) \in Nat
         /\ \E j \in DOMAIN rows : rows[j].prompt = Answer(i) /\ rows[j].agent = rows[i].agent
<1>1. CASE config.rollout = "multi_agent_hf"
  <2> DEFINE mine == Mine(RankOf(i), rows[i].agent)
  <2>1. RankOf(i) \in Ranks /\ i \in Local(RankOf(i))
    BY DEF Shared
  <2>2. /\ Local(RankOf(i)) \subseteq DOMAIN rows /\ IsFiniteSet(Local(RankOf(i)))
        /\ DOMAIN rows \subseteq Int
    BY <2>1 DEF Shared, Bounds
  <2>3. i \in mine /\ mine \in SUBSET Local(RankOf(i))
    BY <2>1 DEF Mine
  <2>4. IsFiniteSet(mine) /\ mine \in SUBSET Int
    BY <2>2, <2>3, FS_Subset
  <2>5. \E k \in mine : \A j \in mine : k <= j
    BY <2>3, <2>4, Extremes
  <2>6. First(mine) \in mine
    BY <2>5 DEF First
  <2>7. First(mine) \in DOMAIN rows /\ rows[First(mine)].agent = rows[i].agent
    BY <2>2, <2>6 DEF Mine
  <2>8. Answer(i) = rows[First(mine)].prompt
    BY <1>1 DEF Answer
  <2> QED
    BY <2>7, <2>8 DEF Bounds
<1>2. CASE config.rollout # "multi_agent_hf"
  BY <1>2 DEF Answer, Bounds
<1> QED
  BY <1>1, <1>2

\* What an agent's part of an operation leaves in a row, and what it leaves alone.
LEMMA WorkedLemma ==
  ASSUME Bounds, phase \in Ops, NEW i \in DOMAIN rows, NEW a \in Agents, Answer(i) \in Nat,
         NEW w, w = Worked(i, a)
  PROVE  /\ w \in Row
         /\ w.prompt = rows[i].prompt /\ w.agent = rows[i].agent /\ w.len = rows[i].len
         /\ \/ w.by = rows[i].by /\ w.answer = rows[i].answer
            \/ w.by = a /\ w.answer = Answer(i)
         /\ w.old \in {a, rows[i].old} /\ w.ref \in {a, rows[i].ref}
         /\ w.trained = IF phase = "update" THEN Append(rows[i].trained, a) ELSE rows[i].trained
<1>1. rows[i] \in Row /\ a \in Int
  BY DEF Bounds
<1>2. rows[i].trained \in Seq(Agents)
  BY <1>1, RowFields
<1>3. Append(rows[i].trained, a) \in Seq(Agents)
  BY <1>2, AppendProperties
<1>4. CASE phase = "generate"
  <2>1. w = [rows[i] EXCEPT !.answer = Answer(i), !.by = a]
    BY <1>4 DEF Worked
  <2> QED
    BY <1>1, <1>4, <2>1 DEF Row
<1>5. CASE phase = "log_prob"
  <2>1. w = [rows[i] EXCEPT !.old = a]
    BY <1>5 DEF Worked
  <2> QED
    BY <1>1, <1>5, <2>1 DEF Row
<1>6. CASE phase = "ref"
  <2>1. w = [rows[i] EXCEPT !.ref = a]
    BY <1>6 DEF Worked
  <2> QED
    BY <1>1, <1>6, <2>1 DEF Row
<1>7. CASE phase = "update"
  <2>1. w = [rows[i] EXCEPT !.trained = Append(rows[i].trained, a)]
    BY <1>7 DEF Worked
  <2> QED
    BY <1>1, <1>3, <1>7, <2>1 DEF Row
<1> QED
  BY <1>4, <1>5, <1>6, <1>7 DEF Ops

LEMMA CollectiveInv ==
  ASSUME IInv, Collective
  PROVE  IInv'
<1> DEFINE done(i) == LastPass(RankOf(i)) /\ i \in Mine(RankOf(i), Turn(RankOf(i)))
<1>1. Bounds
  BY BoundsLemma DEF IInv
<1>2. /\ called /\ called' = called /\ phase' = phase /\ config' = config /\ padding' = padding
      /\ states_pq' = states_pq /\ widest' = widest
      /\ \A r \in Ranks : todo[r] # {}
  BY DEF Collective, Meet, driverVars, balanceVars
<1>3. phase \in Ops /\ Len(rows) % NRanks = 0
  BY <1>2 DEF IInv, PhaseInv
<1>4. Shared
  BY <1>1, <1>3, SharedLemma
<1>5. /\ passes' = [r \in Ranks |-> IF LastPass(r) THEN 0 ELSE passes[r] + 1]
      /\ todo' = [r \in Ranks |-> IF LastPass(r) THEN todo[r] \ {Turn(r)} ELSE todo[r]]
      /\ rows' = [i \in DOMAIN rows |-> IF done(i) THEN Worked(i, Turn(RankOf(i))) ELSE rows[i]]
  BY DEF Collective
<1>6. \A r \in Ranks : Turn(r) \in todo[r]
  BY <1>2, TurnLemma
<1>7. \A i \in DOMAIN rows :
        /\ RankOf(i) \in Ranks /\ i \in Local(RankOf(i)) /\ rows[i] \in Row
        /\ rows[i].agent \in Valid /\ rows[i].agent \in Agents /\ Answer(i) \in Nat
        /\ \E j \in DOMAIN rows : rows[j].prompt = Answer(i) /\ rows[j].agent = rows[i].agent
        /\ done(i) => Turn(RankOf(i)) = rows[i].agent
  <2> TAKE i \in DOMAIN rows
  <2>1. rows[i].agent \in Valid /\ rows[i].agent \in Agents /\ rows[i] \in Row
    BY <1>1, <1>3 DEF IInv, FreshInv, Bounds, Ops
  <2>2. RankOf(i) \in Ranks /\ i \in Local(RankOf(i))
    BY <1>4 DEF Shared
  <2>3. /\ Answer(i) \in Nat
        /\ \E j \in DOMAIN rows : rows[j].prompt = Answer(i) /\ rows[j].agent = rows[i].agent
    BY <1>1, <1>4, AnswerLemma
  <2>4. done(i) => Turn(RankOf(i)) = rows[i].agent
    BY DEF Mine
  <2> QED
    BY <2>1, <2>2, <2>3, <2>4
<1> HIDE DEF done
<1>8. \A i \in DOMAIN rows : ~done(i) => rows'[i] = rows[i]
  BY <1>5
<1>9. \A i \in DOMAIN rows : done(i) =>
        /\ rows'[i] \in Row
        /\ rows'[i].prompt = rows[i].prompt /\ rows'[i].agent = rows[i].agent
        /\ rows'[i].len = rows[i].len
        /\ \/ rows'[i].by = rows[i].by /\ rows'[i].answer = rows[i].answer
           \/ rows'[i].by = rows[i].agent /\ rows'[i].answer = Answer(i)
        /\ rows'[i].old \in {rows[i].agent, rows[i].old}
        /\ rows'[i].ref \in {rows[i].agent, rows[i].ref}
        /\ rows'[i].trained = IF phase = "update" THEN Append(rows[i].trained, rows[i].agent)
                              ELSE rows[i].trained
  <2> TAKE i \in DOMAIN rows
  <2> HAVE done(i)
  <2>1. PICK a \in Agents : a = rows[i].agent
    BY <1>7
  <2>2. PICK w : w = Worked(i, a)
    OBVIOUS
  <2>3. rows'[i] = w
    BY <1>5, <1>7, <2>1, <2>2
  <2>4. Answer(i) \in Nat
    BY <1>7
  <2>5. /\ w \in Row
        /\ w.prompt = rows[i].prompt /\ w.agent = rows[i].agent /\ w.len = rows[i].len
        /\ \/ w.by = rows[i].by /\ w.answer = rows[i].answer
           \/ w.by = a /\ w.answer = Answer(i)
        /\ w.old \in {a, rows[i].old} /\ w.ref \in {a, rows[i].ref}
        /\ w.trained = IF phase = "update" THEN Append(rows[i].trained, a) ELSE rows[i].trained
    BY <1>1, <1>3, <2>2, <2>4, WorkedLemma
  <2> QED
    BY <2>1, <2>3, <2>5
<1>10. \A i \in DOMAIN rows :
         rows'[i] \in Row /\ rows'[i].prompt = rows[i].prompt /\ rows'[i].agent = rows[i].agent
  BY <1>7, <1>8, <1>9
<1>11. rows' \in Seq(Row) /\ Len(rows') = Len(rows) /\ DOMAIN rows' = DOMAIN rows
  <2>1. DOMAIN rows = 1..Len(rows) /\ Len(rows) \in Nat
    BY <1>1 DEF Bounds
  <2>2. rows' \in [1..Len(rows) -> Row]
    BY <1>5, <1>10, <2>1
  <2> QED
    BY <2>1, <2>2, BatchOf
<1>12. /\ Valid' = Valid /\ Tested' = Tested /\ Chunk' = Chunk
       /\ \A r : Local(r)' = Local(r)
       /\ \A i : RankOf(i)' = RankOf(i)
       /\ OneAgent' <=> OneAgent
  BY <1>2, <1>11 DEF Valid, Tested, Chunk, Local, RankOf, OneAgent, Invalid
<1>13. TypeOK'
  <2>1. todo' \in [Ranks -> SUBSET Agents] /\ passes' \in [Ranks -> Nat]
    BY <1>5 DEF IInv, TypeOK
  <2> QED
    BY <1>2, <1>11, <2>1 DEF IInv, TypeOK
<1>14. PhaseInv'
  BY <1>2, <1>11 DEF IInv, PhaseInv
<1>15. FreshInv'
  BY <1>2, <1>3, <1>7, <1>10, <1>11, <1>12 DEF FreshInv, Ops
<1>16. TodoInv'
  <2> SUFFICES ASSUME NEW r \in Ranks
               PROVE  todo'[r] \subseteq {rows'[i].agent : i \in Local(r)}
    BY <1>12 DEF TodoInv
  <2>1. todo'[r] \subseteq todo[r]
    BY <1>5
  <2>2. todo[r] \subseteq {rows[i].agent : i \in Local(r)}
    BY <1>2 DEF IInv, TodoInv
  <2>3. Local(r) \subseteq DOMAIN rows
    BY <1>4 DEF Shared
  <2> QED
    BY <1>10, <2>1, <2>2, <2>3
<1>17. TrainedInv'
  <2> SUFFICES ASSUME NEW i \in DOMAIN rows
               PROVE  Len(rows'[i].trained) = IF phase = "update" /\ Due(i)' THEN 1 ELSE 0
    BY <1>2, <1>3, <1>11 DEF TrainedInv, Ops
  <2>1. Len(rows[i].trained) = IF phase = "update" /\ Due(i) THEN 1 ELSE 0
    BY <1>3 DEF IInv, TrainedInv
  <2>2. CASE phase # "update"
    BY <1>8, <1>9, <2>1, <2>2
  <2>3. CASE phase = "update" /\ done(i)
    <3>1. Turn(RankOf(i)) = rows[i].agent /\ RankOf(i) \in Ranks
      BY <1>7, <2>3
    <3>2. rows[i].agent \in todo[RankOf(i)]
      BY <1>6, <3>1
    <3>3. Len(rows[i].trained) = 0
      BY <2>1, <3>2 DEF Due
    <3>4. rows[i].trained \in Seq(Agents) /\ rows[i].agent \in Agents
      BY <1>7, RowFields
    <3>5. Len(Append(rows[i].trained, rows[i].agent)) = Len(rows[i].trained) + 1
      BY <3>4, AppendProperties
    <3>6. rows'[i].trained = Append(rows[i].trained, rows[i].agent)
      BY <1>9, <2>3
    <3>7. LastPass(RankOf(i))
      BY <2>3 DEF done
    <3>8. rows[i].agent \notin todo'[RankOf(i)]
      BY <1>5, <3>1, <3>7
    <3>9. Due(i)'
      BY <1>2, <1>10, <1>12, <3>8 DEF Due
    <3> QED
      BY <2>3, <3>3, <3>5, <3>6, <3>9
  <2>4. CASE phase = "update" /\ ~done(i)
    <3>1. RankOf(i) \in Ranks /\ i \in Local(RankOf(i))
      BY <1>7
    <3>2. LastPass(RankOf(i)) => rows[i].agent # Turn(RankOf(i))
      BY <2>4, <3>1 DEF done, Mine
    <3>3. rows[i].agent \in todo'[RankOf(i)] <=> rows[i].agent \in todo[RankOf(i)]
      BY <1>5, <3>1, <3>2
    <3>4. Due(i)' <=> Due(i)
      BY <1>2, <1>10, <1>12, <3>3 DEF Due
    <3> QED
      BY <1>8, <2>1, <2>4, <3>4
  <2> QED
    BY <2>2, <2>3, <2>4
<1>18. CountInv'
  <2>1. \A i \in DOMAIN rows : Same(i)' = Same(i)
    BY <1>10, <1>11 DEF Same
  <2>2. phase \in Live
    BY <1>3 DEF Live
  <2>3. CASE config.kind = "train"
    <3>1. \A i \in DOMAIN rows : Cardinality(Same(i)) = config.n
      BY <2>2, <2>3 DEF IInv, CountInv
    <3> QED
      BY <1>2, <1>11, <2>1, <2>3, <3>1 DEF CountInv
  <2>4. CASE config.kind = "validate"
    <3> DEFINE first(i) == ((i - 1) % Tested) + 1
    <3>1. /\ Len(rows) = IF phase = "done" THEN Tested ELSE Tested + padding
          /\ \A i \in DOMAIN rows : i <= Tested => rows[i].prompt = ((i - 1) \div config.n) + 1
          /\ \A i \in DOMAIN rows : i > Tested =>
               rows[i].prompt = rows[first(i)].prompt /\ rows[i].agent = rows[first(i)].agent
      BY <2>2, <2>4 DEF IInv, CountInv
    <3>2. \A i \in DOMAIN rows : i > Tested => first(i) \in DOMAIN rows
      <4> TAKE i \in DOMAIN rows
      <4> HAVE i > Tested
      <4>1. Tested \in Nat \ {0}
        BY <1>1 DEF Tested, Bounds
      <4>2. i - 1 \in Nat /\ i \in 1..Len(rows) /\ Len(rows) \in Nat
        BY <1>1 DEF Bounds
      <4>3. (i - 1) % Tested \in 0..Tested - 1
        BY ONLY <4>1, <4>2, DivMod
      <4>4. first(i) \in 1..Len(rows)
        BY <4>1, <4>2, <4>3
      <4> QED
        BY <1>1, <4>4 DEF Bounds
    <3> HIDE DEF first
    <3>3. \A i \in DOMAIN rows : i > Tested =>
            rows'[i].prompt = rows'[first(i)].prompt /\ rows'[i].agent = rows'[first(i)].agent
      BY <1>10, <3>1, <3>2
    <3> QED
      BY <1>2, <1>10, <1>11, <1>12, <2>4, <3>1, <3>3 DEF CountInv, first
  <2> QED
    BY <1>1, <2>3, <2>4 DEF Bounds
<1>19. HeapInv'
  BY <1>2, <1>3 DEF HeapInv, Ops
<1>20. OwnAgent'
  <2> SUFFICES ASSUME NEW i \in DOMAIN rows
               PROVE  /\ {rows'[i].by, rows'[i].old, rows'[i].ref} \subseteq {None, rows[i].agent}
                      /\ rows'[i].by # None =>
                           \E j \in DOMAIN rows : rows[j].prompt = rows'[i].answer
                                                  /\ rows[j].agent = rows[i].agent
                      /\ \A k \in DOMAIN rows'[i].trained : rows'[i].trained[k] = rows[i].agent
    BY <1>10, <1>11 DEF OwnAgent
  <2>1. /\ {rows[i].by, rows[i].old, rows[i].ref} \subseteq {None, rows[i].agent}
        /\ rows[i].by # None =>
             \E j \in DOMAIN rows : rows[j].prompt = rows[i].answer
                                    /\ rows[j].agent = rows[i].agent
        /\ \A k \in DOMAIN rows[i].trained : rows[i].trained[k] = rows[i].agent
    BY DEF IInv, OwnAgent
  <2>2. CASE ~done(i)
    BY <1>8, <2>1, <2>2
  <2>3. CASE done(i)
    <3>1. {rows'[i].by, rows'[i].old, rows'[i].ref} \subseteq {None, rows[i].agent}
      BY <1>9, <2>1, <2>3
    <3>2. rows'[i].by # None =>
            \E j \in DOMAIN rows : rows[j].prompt = rows'[i].answer
                                   /\ rows[j].agent = rows[i].agent
      BY <1>7, <1>9, <2>1, <2>3
    <3>3. \A k \in DOMAIN rows'[i].trained : rows'[i].trained[k] = rows[i].agent
      <4>1. rows[i].trained \in Seq(Agents) /\ rows[i].agent \in Agents
        BY <1>7, RowFields
      <4>2. PICK t \in Seq(Agents) : t = rows[i].trained
        BY <4>1
      <4>3. PICK a \in Agents : a = rows[i].agent
        BY <4>1
      <4>4. \A k \in DOMAIN Append(t, a) : Append(t, a)[k] = a
        <5>1. /\ Len(t) \in Nat /\ DOMAIN t = 1..Len(t)
              /\ DOMAIN Append(t, a) = 1..Len(t) + 1
              /\ \A k \in 1..Len(t) : Append(t, a)[k] = t[k]
              /\ Append(t, a)[Len(t) + 1] = a
          BY AppendProperties, LenProperties
        <5>2. \A k \in 1..Len(t) : t[k] = a
          BY <2>1, <4>2, <4>3, <5>1
        <5> QED
          BY <5>1, <5>2
      <4>5. rows'[i].trained = t \/ rows'[i].trained = Append(t, a)
        BY <1>9, <2>3, <4>2, <4>3
      <4>6. \A k \in DOMAIN t : t[k] = a
        BY <2>1, <4>2, <4>3
      <4> QED
        BY <4>3, <4>4, <4>5, <4>6
    <3> QED
      BY <3>1, <3>2, <3>3
  <2> QED
    BY <2>2, <2>3
<1>21. TeamInv'
  <2> SUFFICES ASSUME OneAgent PROVE Uniform' /\ InStep' /\ NeverMismatched'
    BY <1>12 DEF TeamInv
  <2>1. PICK a \in Valid : \A i \in DOMAIN rows : rows[i].agent = a
    BY <1>3 DEF IInv, TeamInv, Uniform, Ops
  <2>2. Uniform'
    BY <1>10, <1>11, <1>12, <2>1 DEF Uniform
  <2>3. NeverMismatched'
    BY <1>2, <1>3 DEF NeverMismatched, Ops
  <2>4. InStep'
    <3>1. \A r, q \in Ranks : todo[r] = todo[q] /\ passes[r] = passes[q]
      BY DEF IInv, TeamInv, InStep
    <3>2. \A r \in Ranks : Turn(r) = a /\ Cardinality(Mine(r, Turn(r))) = Chunk
      <4> TAKE r \in Ranks
      <4>1. todo[r] \subseteq {rows[i].agent : i \in Local(r)} /\ Local(r) \subseteq DOMAIN rows
            /\ Cardinality(Local(r)) = Chunk
        BY <1>2, <1>4 DEF IInv, TodoInv, Shared
      <4>2. Turn(r) = a
        BY <1>6, <2>1, <4>1
      <4>3. Mine(r, a) = Local(r)
        BY <2>1, <4>1 DEF Mine
      <4> QED
        BY <4>1, <4>2, <4>3
    <3>3. \A r, q \in Ranks : LastPass(r) <=> LastPass(q)
      <4> TAKE r, q \in Ranks
      <4>1. /\ passes[r] = passes[q]
            /\ Cardinality(Mine(r, Turn(r))) = Cardinality(Mine(q, Turn(q)))
        BY <3>1, <3>2
      <4> QED
        BY ONLY <4>1 DEF LastPass
    <3>4. ASSUME NEW r \in Ranks, NEW q \in Ranks
          PROVE  todo'[r] = todo'[q] /\ passes'[r] = passes'[q]
      <4>1. Turn(r) = Turn(q) /\ todo[r] = todo[q] /\ passes[r] = passes[q]
            /\ (LastPass(r) <=> LastPass(q))
        BY <3>1, <3>2, <3>3
      <4> QED
        BY <1>5, <4>1
    <3> QED
      BY <3>4 DEF InStep
  <2> QED
    BY <2>2, <2>3, <2>4
<1> QED
  BY <1>13, <1>14, <1>15, <1>16, <1>17, <1>18, <1>19, <1>20, <1>21 DEF IInv

\* The rows of a validation batch that are not padding.
LEMMA UnpaddedLemma ==
  ASSUME IInv, phase = "generate", config.kind = "validate"
  PROVE  /\ Tested \in Nat \ {0} /\ 1..Tested \subseteq DOMAIN rows
         /\ Unpadded \in Seq(Row) /\ Len(Unpadded) = Tested /\ DOMAIN Unpadded = 1..Tested
         /\ \A i \in 1..Tested : Unpadded[i] = rows[i]
         /\ \A i \in 1..Tested : rows[i].prompt = ((i - 1) \div config.n) + 1
         /\ \A j \in DOMAIN rows : \E k \in 1..Tested :
              rows[k].prompt = rows[j].prompt /\ rows[k].agent = rows[j].agent
<1>1. Bounds
  BY BoundsLemma DEF IInv
<1>2. Tested \in Nat \ {0}
  BY <1>1 DEF Tested, Bounds
<1>3. padding \in Nat /\ rows \in Seq(Row)
  BY DEF IInv, TypeOK
<1>4. /\ Len(rows) = Tested + padding
      /\ \A i \in DOMAIN rows : i <= Tested => rows[i].prompt = ((i - 1) \div config.n) + 1
      /\ \A i \in DOMAIN rows : i > Tested =>
           LET first == rows[((i - 1) % Tested) + 1]
           IN  rows[i].prompt = first.prompt /\ rows[i].agent = first.agent
  BY DEF IInv, CountInv, Live, Ops
<1>5. DOMAIN rows = 1..Len(rows)
  BY <1>1 DEF Bounds
<1>6. 1..Tested \subseteq DOMAIN rows
  BY <1>2, <1>3, <1>4, <1>5
<1>7. Unpadded = SubSeq(rows, 1, Tested)
  BY <1>2, <1>3, <1>4 DEF Unpadded
<1>8. /\ Unpadded \in Seq(Row) /\ Len(Unpadded) = Tested
      /\ \A i \in 1..Tested : Unpadded[i] = rows[i]
  <2>1. PICK m \in 0..Len(rows) : m = Tested
    BY <1>2, <1>3, <1>4
  <2>2. /\ SubSeq(rows, 1, m) = [i \in 1..m |-> rows[i]]
    BY <1>2, <1>3, <2>1
  <2>3. SubSeq(rows, 1, m) \in [1..m -> Row]
    BY <1>1, <1>6, <2>1, <2>2 DEF Bounds
  <2>4. m \in Nat
    BY <1>2, <2>1
  <2>5. SubSeq(rows, 1, m) \in Seq(Row) /\ Len(SubSeq(rows, 1, m)) = m
    BY <2>3, <2>4, BatchOf
  <2> QED
    BY <1>7, <2>1, <2>2, <2>5
<1>9. DOMAIN Unpadded = 1..Tested
  BY <1>8, BatchLemma
<1>10. \A i \in 1..Tested : rows[i].prompt = ((i - 1) \div config.n) + 1
  BY <1>4, <1>6, <1>2
<1>11. ASSUME NEW j \in DOMAIN rows
       PROVE  \E k \in 1..Tested : rows[k].prompt = rows[j].prompt /\ rows[k].agent = rows[j].agent
  <2>1. CASE j <= Tested
    <3>1. j \in 1..Tested
      BY <1>2, <1>5, <2>1
    <3> QED
      BY <3>1
  <2>2. CASE j > Tested
    <3>1. j - 1 \in Nat
      BY <1>1, <1>5 DEF Bounds
    <3>2. (j - 1) % Tested \in 0..Tested - 1
      BY ONLY <1>2, <3>1, DivMod
    <3>3. ((j - 1) % Tested) + 1 \in 1..Tested
      BY <1>2, <3>2
    <3> QED
      BY <1>4, <2>2, <3>3
  <2>3. j \in Int
    BY <1>5
  <2> QED
    BY <1>2, <2>1, <2>2, <2>3
<1> QED
  BY <1>2, <1>6, <1>8, <1>9, <1>10, <1>11

LEMMA CollectUnpads ==
  ASSUME IInv, Collect, phase = "generate", config.kind = "validate"
  PROVE  IInv'
<1>1. Bounds
  BY BoundsLemma DEF IInv
<1>2. /\ called' = FALSE /\ phase' = "done" /\ rows' = Unpadded /\ config' = config
      /\ padding' = padding /\ todo' = todo /\ passes' = passes
      /\ states_pq' = states_pq /\ widest' = widest
  BY DEF Collect, balanceVars
<1>3. /\ Tested \in Nat \ {0} /\ 1..Tested \subseteq DOMAIN rows
      /\ rows' \in Seq(Row) /\ Len(rows') = Tested /\ DOMAIN rows' = 1..Tested
      /\ \A i \in 1..Tested : rows'[i] = rows[i]
      /\ \A i \in 1..Tested : rows[i].prompt = ((i - 1) \div config.n) + 1
  BY <1>2, UnpaddedLemma
<1>4. \A j \in DOMAIN rows : \E k \in 1..Tested :
        rows[k].prompt = rows[j].prompt /\ rows[k].agent = rows[j].agent
  BY UnpaddedLemma
<1>5. /\ Valid' = Valid /\ Tested' = Tested
      /\ OneAgent' <=> OneAgent
  BY <1>2 DEF Valid, Tested, OneAgent, Invalid
<1>6. states_pq = {}
  BY DEF IInv, PhaseInv
<1>7. TypeOK'
  BY <1>2, <1>3, <1>6 DEF IInv, TypeOK, Phases, Ends
<1>8. PhaseInv'
  BY <1>2, <1>3, <1>6 DEF IInv, PhaseInv, Ends
<1>9. FreshInv'
  <2>1. \A i \in DOMAIN rows : rows[i].agent \in Valid
    BY DEF IInv, FreshInv
  <2> QED
    BY <1>2, <1>3, <1>5, <2>1 DEF FreshInv
<1>10. TodoInv' /\ TrainedInv' /\ HeapInv'
  BY <1>2 DEF TodoInv, TrainedInv, HeapInv, Ops
<1>11. CountInv'
  <2>1. \A i \in DOMAIN rows' : i <= Tested /\ rows'[i].prompt = ((i - 1) \div config.n) + 1
    BY <1>3
  <2>2. \A i \in DOMAIN rows' : ~(i > Tested)
    BY <1>3
  <2> QED
    BY <1>2, <1>3, <1>5, <2>1, <2>2 DEF CountInv
<1>12. OwnAgent'
  <2> SUFFICES ASSUME NEW i \in 1..Tested
               PROVE  /\ {rows'[i].by, rows'[i].old, rows'[i].ref} \subseteq {None, rows'[i].agent}
                      /\ rows'[i].by # None =>
                           \E j \in 1..Tested : rows'[j].prompt = rows'[i].answer
                                                /\ rows'[j].agent = rows'[i].agent
                      /\ \A k \in DOMAIN rows'[i].trained : rows'[i].trained[k] = rows'[i].agent
    BY <1>3 DEF OwnAgent
  <2>1. /\ {rows[i].by, rows[i].old, rows[i].ref} \subseteq {None, rows[i].agent}
        /\ rows[i].by # None =>
             \E j \in DOMAIN rows : rows[j].prompt = rows[i].answer
                                    /\ rows[j].agent = rows[i].agent
        /\ \A k \in DOMAIN rows[i].trained : rows[i].trained[k] = rows[i].agent
    BY <1>3 DEF IInv, OwnAgent
  <2>2. rows'[i] = rows[i]
    BY <1>3
  <2>3. ASSUME rows[i].by # None
        PROVE  \E j \in 1..Tested : rows'[j].prompt = rows[i].answer
                                    /\ rows'[j].agent = rows[i].agent
    <3>1. PICK j \in DOMAIN rows : rows[j].prompt = rows[i].answer /\ rows[j].agent = rows[i].agent
      BY <2>1, <2>3
    <3>2. PICK k \in 1..Tested : rows[k].prompt = rows[j].prompt /\ rows[k].agent = rows[j].agent
      BY <1>4
    <3>3. rows'[k] = rows[k]
      BY <1>3
    <3> QED
      BY <3>1, <3>2, <3>3
  <2> QED
    BY <2>1, <2>2, <2>3
<1>13. TeamInv'
  <2> SUFFICES ASSUME OneAgent PROVE Uniform' /\ InStep' /\ NeverMismatched'
    BY <1>5 DEF TeamInv
  <2>1. PICK a \in Valid : \A i \in DOMAIN rows : rows[i].agent = a
    BY DEF IInv, TeamInv, Uniform
  <2>2. Uniform'
    BY <1>3, <1>5, <2>1 DEF Uniform
  <2> QED
    BY <1>2, <2>2 DEF IInv, TeamInv, InStep, NeverMismatched
<1> QED
  BY <1>7, <1>8, <1>9, <1>10, <1>11, <1>12, <1>13 DEF IInv

\* Of a training batch the lengths show with the responses; nothing else changes.
LEMMA CollectTrains ==
  ASSUME IInv, Collect, config.kind = "train"
  PROVE  IInv'
<1>1. Bounds
  BY BoundsLemma DEF IInv
<1>2. /\ called /\ called' = FALSE /\ phase' = AfterOp[phase] /\ config' = config
      /\ padding' = padding /\ todo' = todo /\ passes' = passes
      /\ states_pq' = states_pq /\ widest' = widest
      /\ \A r \in Ranks : todo[r] = {}
  BY DEF Collect, balanceVars
<1>3. phase \in Ops /\ Len(rows) % NRanks = 0 /\ states_pq = {}
  BY <1>2 DEF IInv, PhaseInv, Ops
<1>4. Shared
  BY <1>1, <1>3, SharedLemma
<1>5. /\ phase = "generate" => phase' = "balance"
      /\ phase = "log_prob" => phase' = "ref"
      /\ phase = "ref" => phase' = "update"
      /\ phase = "update" => phase' = "done"
  BY <1>2 DEF AfterOp
<1>6. \A i \in DOMAIN rows :
        /\ rows[i] \in Row
        /\ rows'[i] \in Row
        /\ rows'[i].prompt = rows[i].prompt /\ rows'[i].agent = rows[i].agent
        /\ rows'[i].by = rows[i].by /\ rows'[i].answer = rows[i].answer
        /\ rows'[i].old = rows[i].old /\ rows'[i].ref = rows[i].ref
        /\ rows'[i].trained = rows[i].trained
  <2>1. \A i \in DOMAIN rows : rows[i] \in Row
    BY <1>1 DEF Bounds
  <2>2. CASE phase = "generate"
    <3>1. PICK len \in [DOMAIN rows -> config.lens] :
            rows' = [i \in DOMAIN rows |-> [rows[i] EXCEPT !.len = len[i]]]
      BY <2>2 DEF Collect
    <3>2. \A i \in DOMAIN rows : len[i] \in Nat
      BY <1>1 DEF Bounds
    <3>3. ASSUME NEW i \in DOMAIN rows, NEW row \in Row, row = rows[i], NEW l \in Nat, l = len[i]
          PROVE  /\ rows'[i] \in Row
                 /\ rows'[i].prompt = row.prompt /\ rows'[i].agent = row.agent
                 /\ rows'[i].by = row.by /\ rows'[i].answer = row.answer
                 /\ rows'[i].old = row.old /\ rows'[i].ref = row.ref
                 /\ rows'[i].trained = row.trained
      <4>1. rows'[i] = [row EXCEPT !.len = l]
        BY <3>1, <3>3
      <4> QED
        BY ONLY <4>1, row \in Row, l \in Nat DEF Row
    <3> QED
      BY <2>1, <3>2, <3>3
  <2>3. CASE phase # "generate"
    <3>1. rows' = rows
      BY <2>3 DEF Collect
    <3> QED
      BY <2>1, <3>1
  <2> QED
    BY <2>2, <2>3
<1>7. rows' \in Seq(Row) /\ Len(rows') = Len(rows) /\ DOMAIN rows' = DOMAIN rows
  <2>1. DOMAIN rows = 1..Len(rows) /\ Len(rows) \in Nat
    BY <1>1 DEF Bounds
  <2>2. rows' = [i \in DOMAIN rows |-> rows'[i]]
    <3>1. CASE phase = "generate"
      <4>1. \E len \in [DOMAIN rows -> config.lens] :
              rows' = [i \in DOMAIN rows |-> [rows[i] EXCEPT !.len = len[i]]]
        BY <3>1 DEF Collect
      <4> QED
        BY <4>1
    <3>2. CASE phase # "generate"
      <4>1. rows' = rows
        BY <3>2 DEF Collect
      <4>2. rows = [i \in DOMAIN rows |-> rows[i]]
        BY <2>1 DEF IInv, TypeOK
      <4> QED
        BY <4>1, <4>2
    <3> QED
      BY <3>1, <3>2
  <2>3. rows' \in [1..Len(rows) -> Row]
    BY <1>6, <2>1, <2>2
  <2> QED
    BY <2>1, <2>3, BatchOf
<1>8. /\ Valid' = Valid /\ Tested' = Tested
      /\ OneAgent' <=> OneAgent
  BY <1>2 DEF Valid, Tested, OneAgent, Invalid
<1>9. TypeOK'
  BY <1>2, <1>3, <1>5, <1>7 DEF IInv, TypeOK, Phases, Ops, Ends
<1>10. PhaseInv'
  BY <1>2, <1>3, <1>5, <1>7 DEF IInv, PhaseInv, Ops, Ends
<1>11. FreshInv'
  <2>1. \A i \in DOMAIN rows : rows[i].agent \in Valid
    BY <1>3 DEF IInv, FreshInv, Ops
  <2> QED
    BY <1>3, <1>5, <1>6, <1>7, <1>8, <2>1 DEF FreshInv, Ops
<1>12. TodoInv' /\ HeapInv'
  BY <1>2, <1>3, <1>5 DEF TodoInv, HeapInv, Ops
<1>13. TrainedInv'
  <2>1. \A i \in DOMAIN rows : Due(i)
    BY <1>2, <1>4 DEF Due, Shared
  <2>2. \A i \in DOMAIN rows : ~Due(i)'
    BY <1>2 DEF Due
  <2>3. \A i \in DOMAIN rows : Len(rows[i].trained) = IF phase = "update" THEN 1 ELSE 0
    BY <1>3, <2>1 DEF IInv, TrainedInv
  <2>4. \A i \in DOMAIN rows : Len(rows'[i].trained) = IF phase' = "done" THEN 1 ELSE 0
    BY <1>3, <1>5, <1>6, <2>3 DEF Ops
  <2>5. phase' # "done" => phase' \in Ops \cup {"balance"}
    BY <1>3, <1>5 DEF Ops
  <2> QED
    BY <1>2, <1>7, <2>2, <2>4, <2>5 DEF TrainedInv, Ops
<1>14. CountInv'
  <2>1. \A i \in DOMAIN rows : Same(i)' = Same(i)
    BY <1>6, <1>7 DEF Same
  <2>2. \A i \in DOMAIN rows : Cardinality(Same(i)) = config.n
    BY <1>3 DEF IInv, CountInv, Live
  <2> QED
    BY <1>2, <1>7, <2>1, <2>2 DEF CountInv
<1>15. OwnAgent'
  <2> SUFFICES ASSUME NEW i \in DOMAIN rows
               PROVE  /\ {rows[i].by, rows[i].old, rows[i].ref} \subseteq {None, rows[i].agent}
                      /\ rows[i].by # None =>
                           \E j \in DOMAIN rows : rows[j].prompt = rows[i].answer
                                                  /\ rows[j].agent = rows[i].agent
                      /\ \A k \in DOMAIN rows[i].trained : rows[i].trained[k] = rows[i].agent
    BY <1>6, <1>7 DEF OwnAgent
  <2> QED
    BY DEF IInv, OwnAgent
<1>16. TeamInv'
  <2> SUFFICES ASSUME OneAgent PROVE Uniform' /\ InStep' /\ NeverMismatched'
    BY <1>8 DEF TeamInv
  <2>1. PICK a \in Valid : \A i \in DOMAIN rows : rows[i].agent = a
    BY <1>3 DEF IInv, TeamInv, Uniform, Ops
  <2>2. Uniform'
    BY <1>6, <1>7, <1>8, <2>1 DEF Uniform
  <2>3. NeverMismatched'
    BY <1>3, <1>5 DEF NeverMismatched, Ops
  <2>4. InStep'
    BY <1>2 DEF IInv, TeamInv, InStep
  <2> QED
    BY <2>2, <2>3, <2>4
<1> QED
  BY <1>9, <1>10, <1>11, <1>12, <1>13, <1>14, <1>15, <1>16 DEF IInv

LEMMA CollectInv ==
  ASSUME IInv, Collect
  PROVE  IInv'
<1>1. Bounds
  BY BoundsLemma DEF IInv
<1>2. called /\ phase \in Ops
  BY DEF Collect, IInv, PhaseInv
<1>3. CASE config.kind = "train"
  BY <1>3, CollectTrains
<1>4. CASE config.kind = "validate"
  <2>1. phase = "generate"
    BY <1>2, <1>4 DEF IInv, PhaseInv, Ops
  <2> QED
    BY <1>4, <2>1, CollectUnpads
<1> QED
  BY <1>1, <1>3, <1>4 DEF Bounds

-----------------------------------------------------------------------------
(* Balancing *)

LEMMA BalanceStartsInv ==
  ASSUME IInv, BalanceStarts
  PROVE  IInv'
<1>1. Bounds
  BY BoundsLemma DEF IInv
<1>2. /\ phase = "balance" /\ phase' = "merge" /\ config' = config /\ rows' = rows
      /\ called' = called /\ padding' = padding /\ todo' = todo /\ passes' = passes
      /\ states_pq' = StartStates(Lengths) /\ widest' = Widest(Lengths)
  BY DEF BalanceStarts, StartBalance, Widest
<1>3. ~called /\ Len(rows) % NRanks = 0 /\ K = NRanks
  BY <1>2, Constants DEF IInv, PhaseInv, Ops
<1>4. Shared
  BY <1>1, <1>3, SharedLemma
<1>5. Heap(StartStates(Lengths), Widest(Lengths), Lengths, Len(rows))
  <2>1. PICK n \in Nat : n = Len(rows)
    BY <1>1 DEF Bounds
  <2>2. PICK m \in Nat \ {0} : m = Chunk
    BY <1>4 DEF Shared
  <2>3. n = m * K
    BY <1>3, <1>4, <2>1, <2>2 DEF Shared
  <2>4. Lengths \in [1..n -> Nat]
    <3>1. \A i \in DOMAIN rows : rows[i].len \in Nat
      BY <1>1, RowFields DEF Bounds
    <3> QED
      BY <1>1, <2>1, <3>1 DEF Bounds, Lengths
  <2>5. PICK len \in [1..n -> Nat] : len = Lengths
    BY <2>4
  <2>6. Heap(StartStates(len), Widest(len), len, n)
    BY <2>3, StartLemma
  <2> QED
    BY <2>1, <2>5, <2>6
<1>6. HeapInv'
  <2>1. Lengths' = Lengths /\ Len(rows)' = Len(rows)
    BY <1>2 DEF Lengths
  <2>2. Heap(states_pq', widest', Lengths', Len(rows)')
    BY <1>2, <1>5, <2>1
  <2> QED
    BY <2>2 DEF HeapInv
<1>7. /\ Valid' = Valid /\ Tested' = Tested /\ (\A i : Same(i)' = Same(i))
      /\ OneAgent' <=> OneAgent
  BY <1>2 DEF Valid, Tested, Same, OneAgent, Invalid
<1>8. TypeOK'
  <2>1. states_pq' \subseteq State(Len(rows)) /\ widest' \in Nat
    BY <1>2, <1>5 DEF Heap
  <2> QED
    BY <1>2, <2>1 DEF IInv, TypeOK, Phases
<1>9. PhaseInv'
  BY <1>2, <1>3 DEF IInv, PhaseInv, Ends
<1>10. FreshInv' /\ TodoInv'
  BY <1>2, <1>3, <1>7 DEF IInv, FreshInv, TodoInv
<1>11. TrainedInv' /\ CountInv'
  BY <1>2, <1>7 DEF IInv, TrainedInv, CountInv, Live
<1>12. OwnAgent'
  BY <1>2 DEF IInv, OwnAgent
<1>13. TeamInv'
  BY <1>2, <1>7 DEF IInv, TeamInv, Uniform, InStep, NeverMismatched
<1> QED
  BY <1>6, <1>8, <1>9, <1>10, <1>11, <1>12, <1>13 DEF IInv

LEMMA BalanceMergesInv ==
  ASSUME IInv, BalanceMerges
  PROVE  IInv'
<1>1. Bounds
  BY BoundsLemma DEF IInv
<1>2. /\ phase = "merge" /\ phase' = phase /\ config' = config /\ rows' = rows
      /\ called' = called /\ padding' = padding /\ todo' = todo /\ passes' = passes
      /\ widest' = widest
  BY DEF BalanceMerges, MergeTwo, driverVars
<1>3. Heap(states_pq, widest, Lengths, Len(rows))
  BY <1>2 DEF IInv, HeapInv
<1>3a. PICK S \in states_pq : \E T \in states_pq \ {S}, p \in [Parts -> Parts] :
          LET M == [i \in Parts |-> Merged(S, T)[p[i]]]
          IN  Sorts(M, Merged(S, T)) /\ states_pq' = (states_pq \ {S, T}) \cup {M}
  BY DEF BalanceMerges, MergeTwo
<1>4. PICK T \in states_pq \ {S}, p \in [Parts -> Parts] :
        LET M == [i \in Parts |-> Merged(S, T)[p[i]]]
        IN  Sorts(M, Merged(S, T)) /\ states_pq' = (states_pq \ {S, T}) \cup {M}
  BY <1>3a
<1>5. PICK M : /\ Sorts(M, Merged(S, T))
               /\ states_pq' = (states_pq \ {S, T}) \cup {M}
  BY <1>4
<1>6. Heap((states_pq \ {S, T}) \cup {M}, widest, Lengths, Len(rows))
  <2>1. PICK n \in Nat : n = Len(rows)
    BY <1>1 DEF Bounds
  <2>2. Lengths \in [1..n -> Nat]
    <3>1. \A i \in DOMAIN rows : rows[i].len \in Nat
      BY <1>1, RowFields DEF Bounds
    <3> QED
      BY <1>1, <2>1, <3>1 DEF Bounds, Lengths
  <2>3. PICK len \in [1..n -> Nat] : len = Lengths
    BY <2>2
  <2>4. PICK heap, w : heap = states_pq /\ w = widest
    OBVIOUS
  <2>5. Heap(heap, w, len, n)
    BY <1>3, <2>1, <2>3, <2>4
  <2>6. S \in heap /\ T \in heap \ {S}
    BY <2>4
  <2>7. Heap((heap \ {S, T}) \cup {M}, w, len, n)
    BY <1>5, <2>5, <2>6, MergeLemma
  <2> QED
    BY <2>1, <2>3, <2>4, <2>7
<1>7. HeapInv'
  <2>1. Lengths' = Lengths /\ Len(rows)' = Len(rows)
    BY <1>2 DEF Lengths
  <2>2. Heap(states_pq', widest', Lengths', Len(rows)')
    BY <1>2, <1>5, <1>6, <2>1
  <2> QED
    BY <2>2 DEF HeapInv
<1>8. /\ Valid' = Valid /\ Tested' = Tested /\ (\A i : Same(i)' = Same(i))
      /\ OneAgent' <=> OneAgent
  BY <1>2 DEF Valid, Tested, Same, OneAgent, Invalid
<1>9. TypeOK'
  <2>1. states_pq' \subseteq State(Len(rows))
    BY <1>5, <1>6 DEF Heap
  <2> QED
    BY <1>2, <2>1 DEF IInv, TypeOK
<1>10. PhaseInv'
  BY <1>2 DEF IInv, PhaseInv
<1>11. FreshInv' /\ TodoInv'
  BY <1>2, <1>8 DEF IInv, FreshInv, TodoInv, PhaseInv, Ops
<1>12. TrainedInv' /\ CountInv'
  BY <1>2, <1>8 DEF IInv, TrainedInv, CountInv, Live
<1>13. OwnAgent'
  BY <1>2 DEF IInv, OwnAgent
<1>14. TeamInv'
  BY <1>2, <1>8 DEF IInv, TeamInv, Uniform, InStep, NeverMismatched
<1> QED
  BY <1>7, <1>9, <1>10, <1>11, <1>12, <1>13, <1>14 DEF IInv

\* The places of D with value v.  A permutation of the places leaves as many of each value
\* as there were.
Having(D, f, v) == {j \in D : f[j] = v}
LEMMA PermutedCount ==
  ASSUME NEW D, IsFiniteSet(D), NEW g \in [D -> D],
         \A i, j \in D : g[i] = g[j] => i = j,
         \A x \in D : \E i \in D : g[i] = x,
         NEW f, NEW e, \A i \in D : e[i] = f[g[i]],
         NEW v
  PROVE  Cardinality(Having(D, e, v)) = Cardinality(Having(D, f, v))
<1> DEFINE A == Having(D, e, v)
           B == Having(D, f, v)
           h == [j \in A |-> g[j]]
<1>1. h \in Bijection(A, B)
  <2>1. A \subseteq D /\ B \subseteq D
    BY DEF Having
  <2>2. \A i \in D : i \in A <=> g[i] \in B
    BY DEF Having
  <2>3. h \in [A -> B] /\ \A i \in A : h[i] = g[i]
    BY <2>1, <2>2
  <2> HIDE DEF A, B, h
  <2>4. \A i, j \in A : h[i] = h[j] => i = j
    BY <2>1, <2>3
  <2>5. \A x \in B : \E i \in A : h[i] = x
    BY <2>1, <2>2, <2>3
  <2> QED
    BY ONLY <2>3, <2>4, <2>5 DEF Bijection, Injection, IsInjective, Surjection
<1>2. IsFiniteSet(A)
  <2>1. A \in SUBSET D
    BY DEF Having
  <2> QED
    BY <2>1, FS_Subset
<1>3. ExistsBijection(A, B)
  BY <1>1 DEF ExistsBijection
<1> QED
  BY <1>2, <1>3, FS_Bijection

LEMMA ReorderInv ==
  ASSUME IInv, Reorder
  PROVE  IInv'
<1>1. Bounds
  BY BoundsLemma DEF IInv
<1>2. /\ phase = "merge" /\ phase' = "log_prob" /\ config' = config
      /\ called' = called /\ padding' = padding /\ todo' = todo /\ passes' = passes
      /\ states_pq' = {} /\ widest' = widest /\ Cardinality(states_pq) = 1
      /\ rows' = [i \in DOMAIN rows |-> Reordered(i)]
  BY DEF Reorder, Balanced
<1>3. /\ ~called /\ Len(rows) % NRanks = 0 /\ K = NRanks
      /\ config.kind = "train"
  <2>1. ~called /\ Len(rows) % NRanks = 0 /\ config.kind # "validate"
    BY <1>2 DEF IInv, PhaseInv, Ops
  <2> QED
    BY <1>1, <2>1, Constants DEF Bounds
<1>4. Shared
  BY <1>1, <1>3, SharedLemma
<1>5. PICK n \in Nat : n = Len(rows) /\ DOMAIN rows = 1..n
  BY <1>1 DEF Bounds
<1>6. Permutes(states_pq, Chunk, n)
  <2>1. PICK m \in Nat \ {0} : m = Chunk
    BY <1>4 DEF Shared
  <2>2. n = m * K
    BY <1>3, <1>4, <1>5, <2>1 DEF Shared
  <2>3. PICK heap, w, len : heap = states_pq /\ w = widest /\ len = Lengths
    OBVIOUS
  <2>4. Heap(heap, w, len, n)
    BY <1>2, <1>5, <2>3 DEF IInv, HeapInv
  <2>5. Cardinality(heap) = 1
    BY <1>2, <2>3
  <2>6. Permutes(heap, m, n)
    BY <2>2, <2>4, <2>5, OrderLemma
  <2> QED
    BY <2>1, <2>3, <2>6
<1>7. PICK g : g = [i \in 1..n |-> Place(states_pq, Chunk, i)]
  OBVIOUS
<1>8. /\ g \in [1..n -> 1..n]
      /\ \A i, j \in 1..n : g[i] = g[j] => i = j
      /\ \A x \in 1..n : \E i \in 1..n : g[i] = x
  BY <1>6, <1>7 DEF Permutes
<1>9. \A i \in 1..n : rows'[i] = rows[g[i]]
  <2> TAKE i \in 1..n
  <2>1. Reordered(i) = rows[Place(states_pq, Chunk, i)]
    BY DEF Reordered, Place, Partition, PartOf, RankOf
  <2> QED
    BY <1>2, <1>5, <1>7, <2>1
<1>10. rows' \in Seq(Row) /\ Len(rows') = n /\ DOMAIN rows' = 1..n
  <2>1. \A i \in 1..n : rows[g[i]] \in Row
    BY <1>1, <1>5, <1>8 DEF Bounds
  <2>2. rows' \in [1..n -> Row]
    BY <1>2, <1>5, <1>9, <2>1
  <2> QED
    BY <2>2, BatchOf
<1>11. /\ Valid' = Valid /\ Tested' = Tested
       /\ OneAgent' <=> OneAgent
  BY <1>2 DEF Valid, Tested, OneAgent, Invalid
<1>12. TypeOK'
  BY <1>2, <1>10 DEF IInv, TypeOK, Phases, Ops
<1>13. PhaseInv'
  BY <1>1, <1>2, <1>3, <1>5, <1>10 DEF IInv, PhaseInv, Bounds, Ops, Ends
<1>14. FreshInv'
  <2>1. \A i \in 1..n : rows'[i].agent \in Valid
    BY <1>2, <1>5, <1>8, <1>9 DEF IInv, FreshInv
  <2> QED
    BY <1>2, <1>10, <1>11, <2>1 DEF FreshInv
<1>15. TodoInv' /\ HeapInv'
  BY <1>2, <1>3 DEF TodoInv, HeapInv
<1>16. TrainedInv'
  <2>1. \A i \in 1..n : Len(rows[i].trained) = 0
    BY <1>2, <1>5 DEF IInv, TrainedInv
  <2>2. \A i \in 1..n : Len(rows'[i].trained) = 0
    BY <1>8, <1>9, <2>1
  <2> QED
    BY <1>2, <1>10, <2>2 DEF TrainedInv
<1>17. CountInv'
  <2> SUFFICES ASSUME NEW i \in 1..n PROVE Cardinality(Same(i)') = config.n
    BY <1>2, <1>3, <1>10 DEF CountInv
  <2>1. PICK f : f = [j \in 1..n |-> rows[j].prompt]
    OBVIOUS
  <2>2. PICK e : e = [j \in 1..n |-> f[g[j]]]
    OBVIOUS
  <2>3. PICK D, v : D = 1..n /\ v = rows[g[i]].prompt
    OBVIOUS
  <2>4. /\ Same(i)' = Having(D, e, v)
        /\ Same(g[i]) = Having(D, f, v)
    <3>1. \A j \in 1..n : e[j] = rows'[j].prompt
      BY <1>8, <1>9, <2>1, <2>2
    <3>2. rows'[i].prompt = v
      BY <1>9, <2>3
    <3>3. Same(i)' = Having(D, e, v)
      BY <1>10, <2>3, <3>1, <3>2 DEF Same, Having
    <3>4. Same(g[i]) = Having(D, f, v)
      BY <1>5, <2>1, <2>3 DEF Same, Having
    <3> QED
      BY <3>3, <3>4
  <2>6. Cardinality(Having(D, e, v)) = Cardinality(Having(D, f, v))
    <3>1. /\ IsFiniteSet(D) /\ g \in [D -> D]
          /\ \A x, y \in D : g[x] = g[y] => x = y
          /\ \A x \in D : \E y \in D : g[y] = x
          /\ \A x \in D : e[x] = f[g[x]]
      <4>1. IsFiniteSet(1..n)
        BY ONLY FS_Interval, n \in Nat
      <4> QED
        BY <1>8, <2>2, <2>3, <4>1
    <3> QED
      BY ONLY <3>1, PermutedCount
  <2>5. Cardinality(Same(g[i])) = config.n
    <3>1. \A j \in 1..n : Cardinality(Same(j)) = config.n
      BY <1>2, <1>3, <1>5 DEF IInv, CountInv, Live
    <3> QED
      BY <1>8, <3>1
  <2> QED
    BY <2>4, <2>5, <2>6
<1>18. OwnAgent'
  <2> SUFFICES ASSUME NEW i \in 1..n
               PROVE  /\ {rows'[i].by, rows'[i].old, rows'[i].ref} \subseteq {None, rows'[i].agent}
                      /\ rows'[i].by # None =>
                           \E j \in 1..n : rows'[j].prompt = rows'[i].answer
                                           /\ rows'[j].agent = rows'[i].agent
                      /\ \A k \in DOMAIN rows'[i].trained : rows'[i].trained[k] = rows'[i].agent
    BY <1>10 DEF OwnAgent
  <2>1. PICK x \in 1..n : x = g[i] /\ rows'[i] = rows[x]
    BY <1>8, <1>9
  <2>2. /\ {rows[x].by, rows[x].old, rows[x].ref} \subseteq {None, rows[x].agent}
        /\ rows[x].by # None =>
             \E j \in DOMAIN rows : rows[j].prompt = rows[x].answer
                                    /\ rows[j].agent = rows[x].agent
        /\ \A k \in DOMAIN rows[x].trained : rows[x].trained[k] = rows[x].agent
    BY <1>5 DEF IInv, OwnAgent
  <2>3. ASSUME rows[x].by # None
        PROVE  \E j \in 1..n : rows'[j].prompt = rows[x].answer
                               /\ rows'[j].agent = rows[x].agent
    <3>1. PICK y \in 1..n : rows[y].prompt = rows[x].answer /\ rows[y].agent = rows[x].agent
      BY <1>5, <2>2, <2>3
    <3>2. PICK j \in 1..n : g[j] = y
      BY <1>8
    <3>3. rows'[j] = rows[y]
      BY <1>9, <3>2
    <3> QED
      BY <3>1, <3>3
  <2> QED
    BY <2>1, <2>2, <2>3
<1>19. TeamInv'
  <2> SUFFICES ASSUME OneAgent PROVE Uniform' /\ InStep' /\ NeverMismatched'
    BY <1>11 DEF TeamInv
  <2>1. PICK a \in Valid : \A i \in DOMAIN rows : rows[i].agent = a
    BY <1>2 DEF IInv, TeamInv, Uniform
  <2>2. \A i \in 1..n : rows'[i].agent = a
    <3> TAKE i \in 1..n
    <3>1. g[i] \in DOMAIN rows /\ rows'[i] = rows[g[i]]
      BY <1>5, <1>8, <1>9
    <3> QED
      BY <2>1, <3>1
  <2>3. Uniform'
    BY <1>10, <1>11, <2>2 DEF Uniform
  <2> QED
    BY <1>2, <2>3 DEF IInv, TeamInv, InStep, NeverMismatched
<1> QED
  BY <1>12, <1>13, <1>14, <1>15, <1>16, <1>17, <1>18, <1>19 DEF IInv

-----------------------------------------------------------------------------
(* Every step *)

LEMMA StepInv ==
  ASSUME IInv, [Next]_vars
  PROVE  IInv'
<1>1. CASE EnsureAgentIds
  BY <1>1, EnsureAgentIdsInv
<1>2. CASE Select
  BY <1>2, SelectInv
<1>3. CASE Pad
  BY <1>3, PadInv
<1>4. CASE Dispatch
  BY <1>4, DispatchInv
<1>5. CASE Collective
  BY <1>5, CollectiveInv
<1>6. CASE Mismatch
  BY <1>6, MismatchInv
<1>7. CASE Collect
  BY <1>7, CollectInv
<1>8. CASE BalanceStarts
  BY <1>8, BalanceStartsInv
<1>9. CASE BalanceMerges
  BY <1>9, BalanceMergesInv
<1>10. CASE Reorder
  BY <1>10, ReorderInv
<1>11. CASE UNCHANGED vars
  <2>1. /\ config' = config /\ phase' = phase /\ called' = called /\ rows' = rows
        /\ padding' = padding /\ todo' = todo /\ passes' = passes
        /\ states_pq' = states_pq /\ widest' = widest
    BY <1>11 DEF vars, driverVars, balanceVars
  <2>2. /\ Valid' = Valid /\ Tested' = Tested /\ (\A i : Same(i)' = Same(i))
        /\ OneAgent' <=> OneAgent
    BY <2>1 DEF Valid, Tested, Same, OneAgent, Invalid
  <2>3. TypeOK' /\ PhaseInv' /\ OwnAgent'
    BY <2>1 DEF IInv, TypeOK, PhaseInv, OwnAgent
  <2>4. FreshInv' /\ CountInv'
    BY <2>1, <2>2 DEF IInv, FreshInv, CountInv, Live
  <2>5. TodoInv' /\ TrainedInv'
    BY <2>1 DEF IInv, TodoInv, TrainedInv, Due, Local, RankOf, Chunk
  <2>6. HeapInv'
    BY <2>1 DEF IInv, HeapInv, Lengths
  <2>7. TeamInv'
    BY <2>1, <2>2 DEF IInv, TeamInv, Uniform, InStep, NeverMismatched
  <2> QED
    BY <2>3, <2>4, <2>5, <2>6, <2>7 DEF IInv
<1> QED
  BY <1>1, <1>2, <1>3, <1>4, <1>5, <1>6, <1>7, <1>8, <1>9, <1>10, <1>11 DEF Next

\* From the batch to its last use, in every order in which the ranks and the driver can go,
\* every part of the invariant holds.
THEOREM Invariance == Spec => []IInv
<1>1. Init => IInv
  BY InitInv
<1>2. IInv /\ [Next]_vars => IInv'
  BY StepInv
<1> QED
  BY <1>1, <1>2, PTL DEF Spec

-----------------------------------------------------------------------------
(* The properties *)

\* The state has its type: rows are rows, ranks work on agents, the heap holds states of the
\* batch's own items.
THEOREM TypeCorrect == Spec => []TypeOK
<1>1. IInv => TypeOK
  BY DEF IInv
<1> QED
  BY <1>1, Invariance, PTL

\* One agent in the batch keeps the ranks together (_iter_agent_batches, dp_actor's loops):
\* whatever the rows' chunks, the mini-batches and the micro-batches are, no rank enters
\* another collective than the others, or is out of the operation before them.
THEOREM OneAgentNeverMismatched == Spec => []NeverMismatched
<1>1. IInv => NeverMismatched
  BY DEF IInv, TeamInv, NeverMismatched
<1> QED
  BY <1>1, Invariance, PTL

\* The stitching of multi_agent_hf_rollout and the masks of the actor go by agent_id, and
\* agent_id moves with its row: what is computed for a row is its own agent's, with any
\* number of agents on any number of ranks.
THEOREM OwnAgentOnly == Spec => []OwnAgent
<1>1. IInv => OwnAgent
  BY DEF IInv
<1> QED
  BY <1>1, Invariance, PTL

\* get_seqlen_balanced_partitions never makes partitions that differ by more tokens than the
\* widest group of K neighbours in length differs at the start.
THEOREM SpreadBounded == Spec => []SpreadBound
<1>1. ASSUME IInv PROVE SpreadBound
  <2>1. CASE phase = "merge"
    BY <1>1, <2>1 DEF IInv, HeapInv, Heap, Even, SpreadBound
  <2>2. CASE phase # "merge"
    BY <1>1, <2>2 DEF IInv, PhaseInv, SpreadBound
  <2> QED
    BY <2>1, <2>2
<1> QED
  BY <1>1, Invariance, PTL

\* A heap is one in the words of the property: what is together apart and covering is shared.
LEMMA SharesLemma ==
  ASSUME NEW n, NEW len, NEW w, Heap(states_pq, w, len, n)
  PROVE  /\ Shares(n)
         /\ \A S \in states_pq : \A i \in Parts : S[i].sum = Cardinality(Tokens(len, S[i].items))
<1>1. /\ EqualSets(states_pq) /\ Descending(states_pq) /\ Covers(states_pq, n)
      /\ Apart(states_pq) /\ Summed(states_pq, len)
  BY DEF Heap
<1>2. \A S \in states_pq : \A i, j \in Parts :
        /\ Cardinality(S[i].items) = Cardinality(S[j].items)
        /\ i < j => S[i].sum >= S[j].sum
  BY <1>1 DEF EqualSets, Descending
<1>3. ASSUME NEW x \in 1..n
      PROVE  \E S \in states_pq, i \in Parts :
               /\ x \in S[i].items
               /\ \A T \in states_pq, j \in Parts : x \in T[j].items => T = S /\ j = i
  <2>1. PICK S \in states_pq : \E i \in Parts : x \in S[i].items
    BY <1>1 DEF Covers
  <2>2. PICK i \in Parts : x \in S[i].items
    BY <2>1
  <2>3. \A T \in states_pq, j \in Parts : x \in T[j].items => T = S /\ j = i
    BY <1>1, <2>2 DEF Apart
  <2> QED
    BY <2>2, <2>3
<1>4. \A S \in states_pq : \A i \in Parts : S[i].sum = Cardinality(Tokens(len, S[i].items))
  BY <1>1 DEF Summed
<1> QED
  BY <1>2, <1>3, <1>4 DEF Shares

\* The rows of a validation batch: n of each prompt, and more while the padding is in.
LEMMA TestedCount ==
  ASSUME IInv, phase \in Live, config.kind = "validate", NEW i \in DOMAIN rows
  PROVE  /\ IsFiniteSet(Same(i)) /\ Cardinality(Same(i)) >= config.n
         /\ phase = "done" \/ padding = 0 => Cardinality(Same(i)) = config.n
<1>1. Bounds
  BY BoundsLemma DEF IInv
<1>2. PICK L \in Nat \ {0} : L = Len(config.ids)
  BY <1>1 DEF Bounds
<1>3. PICK k \in Nat \ {0} : k = config.n
  BY <1>1 DEF Bounds
<1>4. PICK m \in Nat \ {0} : m = L * k
  OBVIOUS
<1>5. PICK n \in Nat : n = Len(rows) /\ DOMAIN rows = 1..n
  BY <1>1 DEF Bounds
<1>6. padding \in Nat
  BY DEF IInv, TypeOK
<1>7. /\ n = IF phase = "done" THEN m ELSE m + padding
      /\ \A j \in 1..n : j <= m => rows[j].prompt = ((j - 1) \div k) + 1
      /\ \A j \in 1..n : j > m => rows[j].prompt = rows[((j - 1) % m) + 1].prompt
  BY <1>2, <1>3, <1>4, <1>5 DEF IInv, CountInv, Tested
<1>8. m <= n
  BY <1>6, <1>7
<1>9. Copies(L, k)
  BY CopiesLemma
<1>10. PICK p \in 1..L : p = rows[i].prompt
  <2>1. \A j \in 1..m : ((j - 1) \div k) + 1 \in 1..L
    BY <1>4, <1>9 DEF Copies
  <2>2. CASE i <= m
    BY <1>5, <1>7, <2>1, <2>2
  <2>3. CASE i > m
    <3>1. (i - 1) % m \in 0..m - 1
      <4>1. PICK x \in Nat : x = i - 1
        BY <1>5
      <4> QED
        BY <4>1
    <3>2. PICK y \in 1..m : y = ((i - 1) % m) + 1
      BY <3>1
    <3>3. rows[y].prompt = ((y - 1) \div k) + 1 /\ y \in 1..n
      BY <1>7, <1>8, <3>2
    <3> QED
      BY <1>5, <1>7, <2>1, <2>3, <3>2, <3>3
  <2> QED
    BY <1>5, <2>2, <2>3
<1>11. PICK first : first = {j \in 1..m : ((j - 1) \div k) + 1 = p}
  OBVIOUS
<1>12. IsFiniteSet(first) /\ Cardinality(first) = k
  BY <1>4, <1>9, <1>10, <1>11 DEF Copies
<1>13. first \subseteq Same(i)
  BY <1>5, <1>7, <1>8, <1>10, <1>11 DEF Same
<1>14. IsFiniteSet(Same(i))
  <2>1. IsFiniteSet(1..n)
    BY ONLY FS_Interval, n \in Nat
  <2>2. Same(i) \in SUBSET (1..n)
    BY <1>5 DEF Same
  <2> QED
    BY <2>1, <2>2, FS_Subset
<1>15. Cardinality(Same(i)) >= k
  <2>1. Cardinality(first) <= Cardinality(Same(i))
    BY <1>13, <1>14, FS_Subset
  <2>2. Cardinality(Same(i)) \in Nat
    BY <1>14, FS_CardinalityType
  <2> QED
    BY <1>12, <2>1, <2>2
<1>16. ASSUME phase = "done" \/ padding = 0 PROVE Cardinality(Same(i)) = k
  <2>1. n = m
    BY <1>6, <1>7, <1>16
  <2>2. Same(i) = first
    <3>1. \A j \in 1..m : rows[j].prompt = ((j - 1) \div k) + 1
      BY <1>7, <2>1
    <3>2. Same(i) = {j \in 1..m : rows[j].prompt = p}
      BY <1>5, <1>10, <2>1 DEF Same
    <3> QED
      BY <1>11, <3>1, <3>2
  <2> QED
    BY <1>12, <2>2
<1> QED
  BY <1>3, <1>14, <1>15, <1>16

\* repeat, the target filter, pad and unpad, the chunks, the balancing and the update between
\* them lose no row and double none: each prompt keeps its n rows, the partitions share the
\* rows and count their tokens, and a step that ends has trained each row once.
THEOREM NoSampleLost == Spec => []SamplesKept
<1>1. ASSUME IInv PROVE SamplesKept
  <2>1. ASSUME phase \in Ops \cup {"balance", "merge", "done"}, NEW i \in DOMAIN rows
        PROVE  IF padding > 0 /\ phase # "done" THEN Cardinality(Same(i)) >= config.n
               ELSE Cardinality(Same(i)) = config.n
    <3>1. Bounds /\ phase \in Live /\ padding \in Nat
      BY <1>1, <2>1, BoundsLemma DEF IInv, Live, TypeOK
    <3>2. CASE config.kind = "train"
      <4>1. padding = 0
        BY <1>1, <3>2 DEF IInv, PhaseInv
      <4>2. Cardinality(Same(i)) = config.n
        BY <1>1, <2>1, <3>1, <3>2 DEF IInv, CountInv
      <4> QED
        BY <4>1, <4>2
    <3>3. CASE config.kind = "validate"
      <4>1. /\ Cardinality(Same(i)) >= config.n
            /\ phase = "done" \/ padding = 0 => Cardinality(Same(i)) = config.n
        BY <1>1, <2>1, <3>1, <3>3, TestedCount
      <4> QED
        BY <3>1, <4>1
    <3> QED
      BY <3>1, <3>2, <3>3 DEF Bounds
  <2>2. ASSUME phase = "merge"
        PROVE  /\ Shares(Len(rows))
               /\ \A S \in states_pq : \A i \in Parts :
                    S[i].sum = Cardinality(Tokens(Lengths, S[i].items))
    <3>1. PICK n, len, w : n = Len(rows) /\ len = Lengths /\ w = widest
      OBVIOUS
    <3>2. Heap(states_pq, w, len, n)
      BY <1>1, <2>2, <3>1 DEF IInv, HeapInv
    <3>3. /\ Shares(n)
          /\ \A S \in states_pq : \A i \in Parts : S[i].sum = Cardinality(Tokens(len, S[i].items))
      BY <3>2, SharesLemma
    <3> QED
      BY <3>1, <3>3
  <2>3. ASSUME phase = "done", config.kind = "train", NEW i \in DOMAIN rows
        PROVE  Len(rows[i].trained) = 1
    BY <1>1, <2>3 DEF IInv, TrainedInv
  <2> QED
    BY <2>1, <2>2, <2>3 DEF SamplesKept, Same
<1> QED
  BY <1>1, Invariance, PTL

=============================================================================
