-------------------------- MODULE FullyAsync_proofs --------------------------
(***************************************************************************)
(* Proofs about fully asynchronous training, for every number of samples,  *)
(* every batch size, limit and trigger.                                    *)
(*                                                                         *)
(*   IInv      types and freshness control: who is in the lock's queue and *)
(*             in the event loop, what the synchronizer's calls hold, what *)
(*             the staleness counter and its partial sum bound             *)
(*   PlaceInv  every sample is in one place, or the queue dropped it       *)
(*   LagInv    what the queue holds when a sample is put, and so how many  *)
(*             batches are trained on before it                            *)
(*   SInv      with staleness_threshold 0 the coroutines take turns, so    *)
(*             that no server generates while weights are transferred      *)
(*   RInv      and generation, training and transfer are rounds            *)
(*                                                                         *)
(* The counter is reset from numbers that were read while other coroutines *)
(* run.  What makes the reset right up to one sample is the lock:          *)
(* update_param_version holds it throughout, and the processor submits     *)
(* nothing without it.                                                     *)
(***************************************************************************)
EXTENDS FullyAsync, SequenceTheorems, FiniteSetTheorems, TLAPS

-----------------------------------------------------------------------------
(* Sequences of coroutines *)

In(q, c) == \E k \in 1..Len(q) : q[k] = c
Distinct(q) == \A j, k \in 1..Len(q) : q[j] = q[k] => j = k
AtMostOnce(q, c) == \A j, k \in 1..Len(q) : q[j] = c /\ q[k] = c => j = k

\* Asking for the lock adds a waiter at the end.
LEMMA AppendLock ==
  ASSUME NEW S, NEW q \in Seq(S), NEW c \in S, Distinct(q), ~In(q, c)
  PROVE  /\ Append(q, c) \in Seq(S) /\ Append(q, c) # <<>>
         /\ Distinct(Append(q, c))
         /\ \A d \in S : In(Append(q, c), d) <=> In(q, d) \/ d = c
         /\ Head(Append(q, c)) = IF q = <<>> THEN c ELSE Head(q)
<1>1. /\ Append(q, c) \in Seq(S) /\ Len(Append(q, c)) = Len(q) + 1
      /\ \A k \in 1..Len(q) : Append(q, c)[k] = q[k]
      /\ Append(q, c)[Len(q) + 1] = c
  BY AppendProperties
<1>2. Len(q) \in Nat
  BY LenProperties
<1>3. Distinct(Append(q, c))
  BY <1>1, <1>2 DEF Distinct, In
<1>4. \A d \in S : In(Append(q, c), d) <=> In(q, d) \/ d = c
  <2> TAKE d \in S
  <2>1. ASSUME In(Append(q, c), d) PROVE In(q, d) \/ d = c
    BY <2>1, <1>1, <1>2 DEF In
  <2>2. ASSUME In(q, d) PROVE In(Append(q, c), d)
    <3>1. PICK k \in 1..Len(q) : q[k] = d
      BY <2>2 DEF In
    <3> QED
      BY <3>1, <1>1, <1>2 DEF In
  <2>3. In(Append(q, c), c)
    BY <1>1, <1>2 DEF In
  <2> QED
    BY <2>1, <2>2, <2>3
<1>5. Head(Append(q, c)) = IF q = <<>> THEN c ELSE Head(q)
  BY <1>1, <1>2
<1> QED
  BY <1>1, <1>2, <1>3, <1>4, <1>5

\* A release takes its holder out; the next one is now at the head.
LEMMA TailLock ==
  ASSUME NEW S, NEW q \in Seq(S), q # <<>>, Distinct(q)
  PROVE  /\ Tail(q) \in Seq(S)
         /\ Distinct(Tail(q))
         /\ \A d \in S : In(Tail(q), d) <=> In(q, d) /\ d # Head(q)
         /\ Len(q) > 1 => q[2] \in S /\ In(Tail(q), q[2]) /\ Tail(q) # <<>> /\ Head(Tail(q)) = q[2]
         /\ ~(Len(q) > 1) => Tail(q) = <<>> /\ \A d \in S : ~In(Tail(q), d)
<1>1. /\ Tail(q) \in Seq(S) /\ Len(Tail(q)) = Len(q) - 1
      /\ \A k \in 1..Len(Tail(q)) : Tail(q)[k] = q[k + 1]
  BY HeadTailProperties
<1>2. Len(q) \in Nat /\ Len(q) > 0 /\ Head(q) = q[1]
  BY EmptySeq, LenProperties
<1>3. Distinct(Tail(q))
  BY <1>1, <1>2 DEF Distinct
<1>4. \A d \in S : In(Tail(q), d) <=> In(q, d) /\ d # Head(q)
  <2> TAKE d \in S
  <2>1. ASSUME In(Tail(q), d) PROVE In(q, d) /\ d # Head(q)
    <3>1. PICK k \in 1..Len(Tail(q)) : Tail(q)[k] = d
      BY <2>1 DEF In
    <3>2. k + 1 \in 1..Len(q) /\ q[k + 1] = d /\ 1 \in 1..Len(q) /\ k + 1 # 1
      BY <3>1, <1>1, <1>2
    <3> QED
      BY <3>2, <1>2 DEF In, Distinct
  <2>2. ASSUME In(q, d), d # Head(q) PROVE In(Tail(q), d)
    <3>1. PICK k \in 1..Len(q) : q[k] = d
      BY <2>2 DEF In
    <3>2. k # 1
      BY <3>1, <2>2, <1>2
    <3>3. k - 1 \in 1..Len(Tail(q)) /\ Tail(q)[k - 1] = d
      BY <3>1, <3>2, <1>1, <1>2
    <3> QED
      BY <3>3 DEF In
  <2> QED
    BY <2>1, <2>2
<1>5. ASSUME Len(q) > 1
      PROVE  q[2] \in S /\ In(Tail(q), q[2]) /\ Tail(q) # <<>> /\ Head(Tail(q)) = q[2]
  <2>1. 1 \in 1..Len(Tail(q)) /\ Tail(q)[1] = q[2]
    BY <1>5, <1>1, <1>2
  <2>2. q[2] \in S
    BY <1>5, <1>2, ElementOfSeq
  <2>3. In(Tail(q), q[2])
    BY ONLY <2>1 DEF In
  <2>4. Tail(q) # <<>>
    <3>1. Len(Tail(q)) # 0 /\ Len(<<>>) = 0
      BY <1>5, <1>1, <1>2
    <3> QED
      BY ONLY <3>1
  <2>5. Head(Tail(q)) = q[2]
    BY ONLY <2>1, <2>4, <1>1, HeadTailProperties
  <2> QED
    BY <2>2, <2>3, <2>4, <2>5
<1>6. ASSUME ~(Len(q) > 1) PROVE Tail(q) = <<>> /\ \A d \in S : ~In(Tail(q), d)
  <2>1. Len(Tail(q)) = 0
    BY <1>6, <1>1, <1>2
  <2> QED
    BY <2>1, <1>1, EmptySeq DEF In
<1> QED
  BY <1>1, <1>3, <1>4, <1>5, <1>6

\* Coroutines other than c become ready, and perhaps the one at the head has run.
LEMMA Continue ==
  ASSUME NEW S, NEW c, NEW q \in Seq(S), NEW e \in Seq(S), ~In(e, c)
  PROVE  /\ q \o e \in Seq(S)
         /\ ~In(q, c) => ~In(q \o e, c)
         /\ AtMostOnce(q, c) => AtMostOnce(q \o e, c)
<1>1. /\ q \o e \in Seq(S) /\ Len(q \o e) = Len(q) + Len(e)
      /\ \A k \in 1..Len(q) + Len(e) : (q \o e)[k] = IF k <= Len(q) THEN q[k] ELSE e[k - Len(q)]
  BY ConcatProperties
<1>2. Len(q) \in Nat /\ Len(e) \in Nat
  BY LenProperties
<1>3. ASSUME NEW k \in 1..Len(q \o e), (q \o e)[k] = c PROVE k \in 1..Len(q) /\ q[k] = c
  <2>1. CASE k <= Len(q)
    BY <2>1, <1>1, <1>2, <1>3
  <2>2. CASE ~(k <= Len(q))
    <3>1. k - Len(q) \in 1..Len(e) /\ e[k - Len(q)] = c
      BY <2>2, <1>1, <1>2, <1>3
    <3> QED
      BY <3>1 DEF In
  <2> QED
    BY <2>1, <2>2
<1> QED
  BY <1>1, <1>3 DEF In, AtMostOnce

LEMMA Ran ==
  ASSUME NEW S, NEW c, NEW q \in Seq(S), q # <<>>, AtMostOnce(q, c)
  PROVE  /\ Tail(q) \in Seq(S)
         /\ ~In(q, c) => ~In(Tail(q), c)
         /\ AtMostOnce(Tail(q), c)
         /\ Head(q) = c => ~In(Tail(q), c)
<1>1. /\ Tail(q) \in Seq(S) /\ Len(Tail(q)) = Len(q) - 1
      /\ \A k \in 1..Len(Tail(q)) : Tail(q)[k] = q[k + 1]
  BY HeadTailProperties
<1>2. Len(q) \in Nat /\ Len(q) > 0 /\ Head(q) = q[1]
  BY EmptySeq, LenProperties
<1>3. ASSUME NEW k \in 1..Len(Tail(q)), Tail(q)[k] = c
      PROVE  k + 1 \in 1..Len(q) /\ q[k + 1] = c /\ Head(q) # c
  <2>1. k + 1 \in 1..Len(q) /\ q[k + 1] = c /\ 1 \in 1..Len(q) /\ k + 1 # 1
    BY <1>1, <1>2, <1>3
  <2> QED
    BY <2>1, <1>2 DEF AtMostOnce
<1>4. AtMostOnce(Tail(q), c)
  <2> SUFFICES ASSUME NEW j \in 1..Len(Tail(q)), NEW k \in 1..Len(Tail(q)),
                      Tail(q)[j] = c, Tail(q)[k] = c
               PROVE  j = k
    BY DEF AtMostOnce
  <2>1. j + 1 \in 1..Len(q) /\ q[j + 1] = c /\ k + 1 \in 1..Len(q) /\ q[k + 1] = c
    BY <1>3
  <2>2. j + 1 = k + 1
    BY <2>1 DEF AtMostOnce
  <2> QED
    BY <2>2, <1>1, <1>2
<1> QED
  BY <1>1, <1>3, <1>4 DEF In

\* c, which was not ready, becomes so.
LEMMA Woken ==
  ASSUME NEW S, NEW c \in S, NEW q \in Seq(S), ~In(q, c)
  PROVE  q \o <<c>> \in Seq(S) /\ AtMostOnce(q \o <<c>>, c) /\ In(q \o <<c>>, c)
<1>1. <<c>> \in Seq(S) /\ Len(<<c>>) = 1 /\ <<c>>[1] = c
  OBVIOUS
<1>2. /\ q \o <<c>> \in Seq(S) /\ Len(q \o <<c>>) = Len(q) + 1
      /\ \A k \in 1..Len(q) + 1 : (q \o <<c>>)[k] = IF k <= Len(q) THEN q[k] ELSE <<c>>[k - Len(q)]
  BY <1>1, ConcatProperties
<1>3. Len(q) \in Nat
  BY LenProperties
<1>4. \A k \in 1..Len(q) : (q \o <<c>>)[k] = q[k] /\ q[k] # c
  BY <1>2, <1>3 DEF In
<1>5. Len(q) + 1 \in 1..Len(q) + 1 /\ (q \o <<c>>)[Len(q) + 1] = c
  <2>1. ~(Len(q) + 1 <= Len(q)) /\ Len(q) + 1 - Len(q) = 1 /\ Len(q) + 1 \in 1..Len(q) + 1
    BY <1>3
  <2> QED
    BY <2>1, <1>1, <1>2
<1>6. \A k \in 1..Len(q) + 1 : k \in 1..Len(q) \/ k = Len(q) + 1
  BY <1>3
<1> QED
  BY <1>2, <1>4, <1>5, <1>6 DEF AtMostOnce, In

-----------------------------------------------------------------------------
(* Types, one variable at a time *)

Flat ==
  /\ ready \in Seq(Coroutines) /\ lockQ \in Seq(Locking)
  /\ fed \in 0..DONE /\ taken \in 0..DONE /\ hand \in 0..DONE
  /\ ppc \in {"top", "setpause", "drain", "await", "waiting", "condlock",
              "cwait", "get", "getwait", "exit", "dead"}
  /\ goal \in {"pause", "limit", "done"} /\ waited \in BOOLEAN
  /\ cancel_queue \in Seq(Samples)
  /\ phase \in [Samples -> Live \cup {"idle", "done", "failed"}]
  /\ finished \in Nat /\ failed \in BOOLEAN /\ failures \in 0..MaxFailures
  /\ paused \in BOOLEAN /\ running \in BOOLEAN /\ monitor_loop_trigger \in BOOLEAN
  /\ serverPaused \in BOOLEAN
  /\ current_param_version \in Nat /\ staleness_samples \in Nat /\ sver \in Nat
  /\ ssum \in Nat /\ dropped \in Nat /\ wver \in Nat
  /\ used \in [Samples -> Nat]
  /\ mpc \in {"sleep", "unpause"} /\ epc \in {"run", "put", "sent", "lock", "done"}
  /\ spc \in {"idle", "pause", "pauseL", "cancel", "gather", "kv", "paused", "update",
              "updL", "size", "report", "resume", "resL", "server"}
  /\ mq \in Seq(Samples \cup {NoSample})
  /\ tpc \in {"collect", "train", "wait", "pause", "weights", "endwait", "finwait", "done"}
  /\ buf \in Seq(Samples) /\ local_trigger_step \in 1..Trigger /\ tver \in Nat
  /\ final \in BOOLEAN /\ trained \in SUBSET Samples

LEMMA FlatLemma == TypeOK <=> Flat
<1>1. ASSUME TypeOK PROVE Flat
  <2>1. RollouterTypeOK
    BY <1>1 DEF TypeOK
  <2> QED
    BY <1>1, <2>1, Zenon DEF TypeOK, RollouterTypeOK, Flat
<1>2. ASSUME Flat PROVE TypeOK
  <2>1. RollouterTypeOK
    BY <1>2, Zenon DEF RollouterTypeOK, Flat
  <2> QED
    BY <1>2, <2>1, Zenon DEF TypeOK, Flat
<1> QED
  BY <1>1, <1>2

LEMMA FlatNext == TypeOK' <=> Flat'
BY FlatLemma, PTL

-----------------------------------------------------------------------------
(* Counting samples *)

Filled(q) == {k \in 1..Len(q) : q[k] # NoSample}
Tasks == {i \in Samples : phase[i] \in {"new", "gen", "ret", "cut", "put"}}
InHand == IF hand \in Samples THEN 1 ELSE 0

\* Interrupted samples and those in tasks, which update_param_version reads first.
Counted == Cardinality(Tasks) + Len(cancel_queue)

Out == InFlight + InHand

LEMMA CountTo ==
  ASSUME NEW n \in Nat PROVE IsFiniteSet(1..n) /\ Cardinality(1..n) = n
BY FS_Interval

LEMMA FilledLemma ==
  ASSUME NEW S, NEW q \in Seq(S)
  PROVE  /\ IsFiniteSet(Filled(q)) /\ Cardinality(Filled(q)) \in Nat
         /\ Cardinality(Filled(q)) <= Len(q)
<1>1. Len(q) \in Nat
  BY LenProperties
<1>2. IsFiniteSet(1..Len(q)) /\ Cardinality(1..Len(q)) = Len(q)
  BY ONLY <1>1, CountTo
<1>3. Filled(q) \in SUBSET (1..Len(q))
  BY DEF Filled
<1> QED
  BY <1>2, <1>3, FS_Subset, FS_CardinalityType

\* An element at the end adds at most itself.
LEMMA FilledAppend ==
  ASSUME NEW S, NEW q \in Seq(S), NEW x \in S
  PROVE  Cardinality(Filled(Append(q, x))) <= Cardinality(Filled(q)) + (IF x = NoSample THEN 0 ELSE 1)
<1>1. /\ Append(q, x) \in Seq(S) /\ Len(Append(q, x)) = Len(q) + 1 /\ Len(q) \in Nat
      /\ \A k \in 1..Len(q) : Append(q, x)[k] = q[k]
      /\ Append(q, x)[Len(q) + 1] = x
  BY AppendProperties, LenProperties
<1>2. IsFiniteSet(Filled(q)) /\ Cardinality(Filled(q)) \in Nat
  BY FilledLemma
<1>3. CASE x = NoSample
  <2>1. Filled(Append(q, x)) = Filled(q)
    BY <1>1, <1>3 DEF Filled
  <2> QED
    BY <2>1, <1>2, <1>3
<1>4. CASE x # NoSample
  <2>1. Filled(Append(q, x)) = Filled(q) \cup {Len(q) + 1}
    BY <1>1, <1>4 DEF Filled
  <2>2. Cardinality(Filled(q) \cup {Len(q) + 1}) = Cardinality(Filled(q)) + 1
    <3>1. Len(q) + 1 \notin Filled(q)
      BY <1>1 DEF Filled
    <3> QED
      BY <1>2, <3>1, FS_AddElement, Zenon
  <2>3. Cardinality(Filled(Append(q, x))) = Cardinality(Filled(q)) + 1
    BY <2>1, <2>2, Zenon
  <2> QED
    BY <2>3, <1>2, <1>4
<1> QED
  BY <1>3, <1>4

\* What the consumer takes, or a put drops, leaves no more than there was.
LEMMA FilledTail ==
  ASSUME NEW S, NEW q \in Seq(S), q # <<>>
  PROVE  Tail(q) \in Seq(S) /\ Cardinality(Filled(Tail(q))) <= Cardinality(Filled(q))
<1>1. /\ Tail(q) \in Seq(S) /\ Len(Tail(q)) = Len(q) - 1 /\ Len(q) \in Nat
      /\ \A k \in 1..Len(Tail(q)) : Tail(q)[k] = q[k + 1]
  BY HeadTailProperties, LenProperties
<1> DEFINE f == [k \in Filled(Tail(q)) |-> k + 1]
<1>2. f \in Injection(Filled(Tail(q)), Filled(q))
  <2>1. \A k \in Filled(Tail(q)) : k + 1 \in Filled(q)
    BY <1>1 DEF Filled
  <2>2. \A j, k \in Filled(Tail(q)) : j + 1 = k + 1 => j = k
    BY <1>1 DEF Filled
  <2> QED
    BY <2>1, <2>2 DEF Injection, IsInjective
<1>3. IsFiniteSet(Filled(q))
  BY FilledLemma
<1> HIDE DEF f
<1> QED
  BY <1>1, <1>2, <1>3, FS_Injection

\* Making room, and the deque's own bound, lose samples at most.
LEMMA ShorterLemma ==
  ASSUME NEW S, NEW q \in Seq(S), NEW cap \in Nat \ {0}
  PROVE  /\ MakeRoom(q, cap) \in Seq(S) /\ Within(q, cap) \in Seq(S)
         /\ Cardinality(Filled(MakeRoom(q, cap))) <= Cardinality(Filled(q))
         /\ Cardinality(Filled(Within(q, cap))) <= Cardinality(Filled(q))
<1>1. q # <<>> => Tail(q) \in Seq(S) /\ Cardinality(Filled(Tail(q))) <= Cardinality(Filled(q))
  BY FilledTail
<1>2. Cardinality(Filled(q)) \in Nat /\ Len(<<>>) = 0
  BY FilledLemma
<1> QED
  BY <1>1, <1>2 DEF MakeRoom, Within, IsFull

\* put_sample, whether it drops or not, adds at most the sample put.
LEMMA EnqueueLemma ==
  ASSUME NEW S, NEW q \in Seq(S), NEW x \in S, NEW cap \in Nat \ {0}
  PROVE  /\ Enqueue(q, x, cap) \in Seq(S)
         /\ Cardinality(Filled(Enqueue(q, x, cap)))
              <= Cardinality(Filled(q)) + (IF x = NoSample THEN 0 ELSE 1)
<1>1. PICK room : room = MakeRoom(q, cap)
  OBVIOUS
<1>2. PICK longer : longer = Append(room, x)
  OBVIOUS
<1>3. room \in Seq(S) /\ Cardinality(Filled(room)) <= Cardinality(Filled(q))
  BY <1>1, ShorterLemma
<1>4. /\ longer \in Seq(S)
      /\ Cardinality(Filled(longer)) <= Cardinality(Filled(room)) + (IF x = NoSample THEN 0 ELSE 1)
  BY <1>2, <1>3, FilledAppend, AppendProperties
<1>5. /\ Within(longer, cap) \in Seq(S)
      /\ Cardinality(Filled(Within(longer, cap))) <= Cardinality(Filled(longer))
  BY <1>4, ShorterLemma
<1>6. /\ Cardinality(Filled(q)) \in Nat /\ Cardinality(Filled(room)) \in Nat
      /\ Cardinality(Filled(longer)) \in Nat /\ Cardinality(Filled(Within(longer, cap))) \in Nat
  BY <1>3, <1>4, <1>5, FilledLemma
<1>7. Enqueue(q, x, cap) = Within(longer, cap)
  BY <1>1, <1>2 DEF Enqueue
<1> QED
  BY <1>3, <1>4, <1>5, <1>6, <1>7

LEMMA Constants ==
  /\ IsFiniteSet(Samples) /\ Samples \subseteq Nat \ {0}
  /\ max_required_samples \in Nat \ {0} /\ TotalSamples \in Nat \ {0} /\ PendingCap \in Nat \ {0}
  /\ \A i \in Samples : i # sync /\ i # processor /\ i \in Coroutines
  /\ Locking \subseteq Coroutines /\ {processor, sync, monitor, main} = Locking
  /\ {feeder, waiter} \subseteq Coroutines
  /\ sync \notin {processor, monitor, main, feeder, waiter}
  /\ processor # monitor /\ processor # main /\ monitor # main
<1>1. IsFiniteSet(Samples)
  BY FS_Interval, RollouterAssumption DEF Samples
<1> QED
  BY <1>1, RollouterAssumption
     DEF Samples, Coroutines, Locking, sync, processor, monitor, main, feeder, waiter

LEMMA Numbers ==
  ASSUME TypeOK
  PROVE  /\ IsFiniteSet(Tasks) /\ Cardinality(Tasks) \in Nat
         /\ Len(cancel_queue) \in Nat /\ Cardinality(Filled(mq)) \in Nat /\ InHand \in {0, 1}
         /\ Cardinality(Filled(mq)) <= Len(mq) /\ Len(mq) \in Nat
         /\ InFlight = Counted + Cardinality(Filled(mq))
         /\ Counted \in Nat /\ InFlight \in Nat /\ Out \in Nat
<1>1. IsFiniteSet(Tasks) /\ Cardinality(Tasks) \in Nat
  BY Constants, FS_Subset, FS_CardinalityType DEF Tasks
<1>2. /\ mq \in Seq(Samples \cup {NoSample}) /\ cancel_queue \in Seq(Samples)
  BY DEF TypeOK, RollouterTypeOK
<1>3. /\ Len(cancel_queue) \in Nat /\ Cardinality(Filled(mq)) \in Nat
      /\ Cardinality(Filled(mq)) <= Len(mq) /\ Len(mq) \in Nat
  BY <1>2, FilledLemma, LenProperties
<1>4. InFlight = Cardinality(Tasks) + Len(cancel_queue) + Cardinality(Filled(mq))
  BY DEF InFlight, Tasks, Filled
<1> QED
  BY <1>1, <1>3, <1>4 DEF Counted, Out, InHand

-----------------------------------------------------------------------------
(* The inductive invariant *)

\* The lock and the event loop: nobody waits twice, and a call of the synchronizer that
\* waits for the lock is not ready as well.
LoopInv ==
  /\ Distinct(lockQ) /\ AtMostOnce(ready, sync)
  /\ In(lockQ, sync) => Holds(sync) \/ ~In(ready, sync)

\* Who of the others is in the lock's queue; the processor keeps the lock in asyncio.wait,
\* and what it is about to submit is a sample.
ProcInv ==
  /\ In(lockQ, processor) <=> ppc \in {"setpause", "await", "waiting", "condlock"}
  /\ ppc = "waiting" => Holds(processor)
  /\ goal = "limit" /\ ppc \in {"drain", "await", "waiting", "condlock", "cwait"} => hand \in Samples
  /\ In(lockQ, monitor) <=> mpc = "unpause"
  /\ In(lockQ, main) <=> epc = "lock"

\* The calls of the synchronizer: they hold the lock across their awaits.
SyncInv ==
  /\ In(lockQ, sync) <=>
       spc \in {"pauseL", "cancel", "gather", "kv", "updL", "size", "report", "resL", "server"}
  /\ spc \in {"cancel", "gather", "kv", "size", "report", "server"} => Holds(sync)
  /\ spc \in {"idle", "paused"} => ~In(ready, sync)
  /\ tpc = "weights" => spc = "paused"

\* The counter: it misses one sample at most.  While update_param_version waits for the
\* queue's size its partial sum bounds what is not in the queue, and then everything.
OutInv ==
  /\ Out <= staleness_samples + 1
  /\ Out <= max_required_samples + 1
  /\ ppc \in {"get", "getwait"} => Out <= max_required_samples
  /\ spc = "size" => Counted <= ssum /\ (In(ready, sync) => InFlight <= ssum)

IInv == TypeOK /\ LoopInv /\ ProcInv /\ SyncInv /\ OutInv

-----------------------------------------------------------------------------
(* Steps of the event loop and the lock *)

\* What becomes ready is not the call of the synchronizer.
Quiet ==
  /\ ready' \in Seq(Coroutines) /\ AtMostOnce(ready', sync)
  /\ ~In(ready, sync) => ~In(ready', sync)

LEMMA QuietLemma ==
  ASSUME ready \in Seq(Coroutines), AtMostOnce(ready, sync),
         NEW e \in Seq(Coroutines), ~In(e, sync),
         \/ ready' = ready
         \/ ready # <<>> /\ ready' = Tail(ready)
         \/ ready' = ready \o e
         \/ ready # <<>> /\ ready' = Tail(ready) \o e
  PROVE  Quiet /\ (Runs(sync) /\ ready' \in {Tail(ready), Tail(ready) \o e} => ~In(ready', sync))
<1>1. ASSUME ready # <<>>
      PROVE  /\ Tail(ready) \in Seq(Coroutines) /\ AtMostOnce(Tail(ready), sync)
             /\ ~In(ready, sync) => ~In(Tail(ready), sync)
             /\ Head(ready) = sync => ~In(Tail(ready), sync)
  BY <1>1, Ran
<1>2. ASSUME NEW q \in Seq(Coroutines)
      PROVE  /\ q \o e \in Seq(Coroutines)
             /\ ~In(q, sync) => ~In(q \o e, sync)
             /\ AtMostOnce(q, sync) => AtMostOnce(q \o e, sync)
  BY Continue
<1> QED
  BY <1>1, <1>2 DEF Quiet, Runs

\* The same for one coroutine c that becomes ready.
LEMMA WakeLemma ==
  ASSUME ready \in Seq(Coroutines), AtMostOnce(ready, sync),
         NEW c \in Coroutines \ {sync},
         ready' = Append(ready, c) \/ (ready # <<>> /\ ready' = Append(Tail(ready), c))
  PROVE  Quiet
<1>1. /\ <<c>> \in Seq(Coroutines) /\ ~In(<<c>>, sync)
      /\ \A q \in Seq(Coroutines) : Append(q, c) = q \o <<c>>
  <2>1. <<c>> \in Seq(Coroutines) /\ Len(<<c>>) = 1 /\ <<c>>[1] = c
    OBVIOUS
  <2>2. ~In(<<c>>, sync)
    BY <2>1 DEF In
  <2> QED
    BY <2>1, <2>2
<1>2. ready # <<>> => Tail(ready) \in Seq(Coroutines)
  OBVIOUS
<1>3. ready' = ready \o <<c>> \/ (ready # <<>> /\ ready' = Tail(ready) \o <<c>>)
  BY <1>1, <1>2
<1> QED
  BY <1>1, <1>3, QuietLemma

\* What a step does to the lock and the event loop: it leaves the lock alone, coroutine c
\* asks for it, or its holder c gives it back.
Kept ==
  /\ ready' \in Seq(Coroutines) /\ lockQ' = lockQ /\ lockQ' \in Seq(Locking) /\ LoopInv'
  /\ \A d : In(lockQ', d) <=> In(lockQ, d)
  /\ \A d : Holds(d)' <=> Holds(d)
  /\ ~In(ready, sync) => ~In(ready', sync)

Asked(c) ==
  /\ ready' \in Seq(Coroutines) /\ lockQ' \in Seq(Locking) /\ LoopInv'
  /\ \A d \in Locking : In(lockQ', d) <=> In(lockQ, d) \/ d = c
  /\ \A d \in Locking : Holds(d) => Holds(d)'
  /\ ~In(ready, sync) => ~In(ready', sync)

GivenBack(c) ==
  /\ ready' \in Seq(Coroutines) /\ lockQ' \in Seq(Locking) /\ LoopInv' /\ Holds(c)
  /\ \A d \in Locking : In(lockQ', d) <=> In(lockQ, d) /\ d # c
  /\ ~In(lockQ, sync) /\ ~In(ready, sync) => ~In(ready', sync)

LEMMA LoopTypes ==
  IInv => LoopInv /\ TypeOK /\ ready \in Seq(Coroutines) /\ lockQ \in Seq(Locking)
BY DEF IInv, TypeOK, RollouterTypeOK

\* A coroutine can hold the lock or wait for it only once.
LEMMA OneHolder ==
  ASSUME NEW c, NEW d, Holds(c), Holds(d) PROVE c = d
BY DEF Holds

LEMMA HolderWaits ==
  ASSUME IInv, NEW c \in Locking, Holds(c) PROVE In(lockQ, c)
<1>1. lockQ # <<>> /\ lockQ \in Seq(Locking) /\ Head(lockQ) = c
  BY LoopTypes DEF Holds
<1>2. Len(lockQ) \in Nat /\ Len(lockQ) > 0 /\ lockQ[1] = c
  BY <1>1, EmptySeq, LenProperties
<1> QED
  BY <1>2 DEF In

\* What may become ready beside the next waiter.
LEMMA Others ==
  /\ <<>> \in Seq(Coroutines) /\ ~In(<<>>, sync)
  /\ \A c \in Coroutines \ {sync} : <<c>> \in Seq(Coroutines) /\ ~In(<<c>>, sync)
<1>1. <<>> \in Seq(Coroutines) /\ ~In(<<>>, sync)
  BY DEF In
<1>2. ASSUME NEW c \in Coroutines \ {sync} PROVE <<c>> \in Seq(Coroutines) /\ ~In(<<c>>, sync)
  <2>1. <<c>> \in Seq(Coroutines) /\ Len(<<c>>) = 1 /\ <<c>>[1] = c
    OBVIOUS
  <2> QED
    BY <2>1 DEF In
<1> QED
  BY <1>1, <1>2

\* The lock is left alone.
LEMMA StayLemma ==
  ASSUME LoopInv, lockQ \in Seq(Locking), lockQ' = lockQ, Quiet
  PROVE  Kept
BY DEF Kept, LoopInv, Quiet, In, Holds, Distinct

\* Coroutine c asks for the lock.
LEMMA AcquireLemma ==
  ASSUME LoopInv, ready \in Seq(Coroutines), lockQ \in Seq(Locking),
         NEW c \in Locking, Acquire(c), Runs(c), ~In(lockQ, c)
  PROVE  Asked(c)
<1> SUFFICES /\ ready' \in Seq(Coroutines) /\ lockQ' \in Seq(Locking) /\ LoopInv'
             /\ \A d \in Locking : In(lockQ', d) <=> In(lockQ, d) \/ d = c
             /\ \A d \in Locking : Holds(d) => Holds(d)'
             /\ ~In(ready, sync) => ~In(ready', sync)
  BY DEF Asked
<1>1. /\ lockQ' \in Seq(Locking) /\ lockQ' # <<>> /\ Distinct(lockQ')
      /\ \A d \in Locking : In(lockQ', d) <=> In(lockQ, d) \/ d = c
      /\ Head(lockQ') = IF lockQ = <<>> THEN c ELSE Head(lockQ)
  BY AppendLock DEF Acquire, LoopInv
<1>2. ready # <<>> /\ (ready' = ready \/ ready' = Tail(ready))
  BY DEF Acquire, Runs, Goes, Suspends
<1>3. <<>> \in Seq(Coroutines) /\ ~In(<<>>, sync)
  BY DEF In
<1>4. Quiet /\ (Runs(sync) /\ ready' = Tail(ready) => ~In(ready', sync))
  BY <1>2, <1>3, QuietLemma DEF LoopInv
<1>5. sync \in Locking
  BY Constants
<1>6. CASE c = sync
  <2>1. Holds(sync)' \/ ~In(ready', sync)
    BY <1>1, <1>4, <1>6 DEF Acquire, Holds, Suspends
  <2> QED
    BY <1>1, <1>4, <2>1 DEF LoopInv, Quiet, Holds
<1>7. CASE c # sync
  BY <1>1, <1>4, <1>5, <1>7 DEF LoopInv, Quiet, Holds
<1> QED
  BY <1>6, <1>7

\* The holder of the lock releases it, and wakes the next waiter after those in e.
LEMMA ReleaseLemma ==
  ASSUME LoopInv, ready \in Seq(Coroutines), lockQ \in Seq(Locking),
         NEW c \in Locking, Holds(c),
         NEW e \in Seq(Coroutines), ~In(e, sync), lockQ' = Tail(lockQ),
         NEW b, b = ready \/ (ready # <<>> /\ b = Tail(ready)),
         ready' = b \o e \o NextWaiter
  PROVE  GivenBack(c) /\ (Holds(sync) /\ Runs(sync) /\ b # ready => ~In(ready', sync))
<1> lockQ # <<>> /\ Head(lockQ) = c
  BY DEF Holds
<1> SUFFICES /\ ready' \in Seq(Coroutines) /\ lockQ' \in Seq(Locking) /\ LoopInv'
             /\ \A d \in Locking : In(lockQ', d) <=> In(lockQ, d) /\ d # Head(lockQ)
             /\ ~In(lockQ, sync) /\ ~In(ready, sync) => ~In(ready', sync)
             /\ Holds(sync) /\ Runs(sync) /\ b # ready => ~In(ready', sync)
  BY DEF GivenBack
<1>1. /\ lockQ' \in Seq(Locking) /\ Distinct(lockQ')
      /\ \A d \in Locking : In(lockQ', d) <=> In(lockQ, d) /\ d # Head(lockQ)
      /\ Len(lockQ) > 1 => /\ lockQ[2] \in Locking /\ In(lockQ', lockQ[2])
                           /\ lockQ' # <<>> /\ Head(lockQ') = lockQ[2]
      /\ ~(Len(lockQ) > 1) => \A d \in Locking : ~In(lockQ', d)
  BY TailLock DEF LoopInv
<1>2. /\ b \in Seq(Coroutines) /\ AtMostOnce(b, sync) /\ (~In(ready, sync) => ~In(b, sync))
      /\ Runs(sync) /\ b # ready => ~In(b, sync)
  BY Ran DEF LoopInv, Runs
<1>3. /\ b \o e \in Seq(Coroutines) /\ AtMostOnce(b \o e, sync)
      /\ ~In(b, sync) => ~In(b \o e, sync)
  BY <1>2, Continue
<1>4. sync \in Locking /\ Locking \subseteq Coroutines
  BY Constants
<1>5. CASE ~(Len(lockQ) > 1)
  <2>1. NextWaiter = <<>> /\ ready' = b \o e
    BY <1>3, <1>5 DEF NextWaiter
  <2> QED
    BY <1>1, <1>2, <1>3, <1>4, <1>5, <2>1 DEF LoopInv
<1>6. CASE Len(lockQ) > 1 /\ lockQ[2] # sync
  <2> DEFINE n == <<lockQ[2]>>
  <2>1. NextWaiter = n /\ n \in Seq(Coroutines)
    BY <1>1, <1>4, <1>6 DEF NextWaiter
  <2>2. ~In(n, sync)
    BY <1>6 DEF In
  <2> HIDE DEF n
  <2>3. /\ ready' \in Seq(Coroutines) /\ AtMostOnce(ready', sync)
        /\ ~In(b \o e, sync) => ~In(ready', sync)
    BY <1>3, <2>1, <2>2, Continue
  <2>4. ~In(lockQ', sync) \/ ~In(ready', sync)
    BY <1>1, <1>2, <1>3, <1>4, <2>3 DEF LoopInv, Holds
  <2> QED
    BY <1>1, <1>2, <1>3, <2>3, <2>4 DEF LoopInv
<1>7. CASE Len(lockQ) > 1 /\ lockQ[2] = sync
  <2>1. NextWaiter = <<sync>> /\ ready' = (b \o e) \o <<sync>>
    BY <1>7 DEF NextWaiter
  <2>2. In(lockQ, sync) /\ ~Holds(sync)
    BY <1>1, <1>4, <1>7 DEF Holds
  <2>3. ~In(b \o e, sync)
    BY <1>2, <1>3, <2>2 DEF LoopInv
  <2>4. ready' \in Seq(Coroutines) /\ AtMostOnce(ready', sync)
    BY <1>3, <1>4, <2>1, <2>3, Woken
  <2>5. Holds(sync)'
    BY <1>1, <1>7 DEF Holds
  <2> QED
    BY <1>1, <2>2, <2>4, <2>5 DEF LoopInv
<1> QED
  BY <1>5, <1>6, <1>7

\* The call of the synchronizer, which was asleep, becomes ready.
LEMMA WakeSyncLemma ==
  ASSUME LoopInv, ready \in Seq(Coroutines), ~In(ready, sync),
         In(lockQ, sync) => Holds(sync), Wakes(sync), lockQ' = lockQ
  PROVE  ready' \in Seq(Coroutines) /\ LoopInv' /\ In(ready', sync)
<1>1. sync \in Coroutines
  BY Constants
<1>2. ready' = ready \o <<sync>>
  BY <1>1 DEF Wakes
<1>3. ready' \in Seq(Coroutines) /\ AtMostOnce(ready', sync) /\ In(ready', sync)
  BY <1>1, <1>2, Woken
<1> QED
  BY <1>3 DEF LoopInv, Holds

\* What any step that submits and takes nothing does to the counter's bounds.
Flow ==
  /\ UNCHANGED staleness_samples
  /\ Out' <= Out
  /\ ppc' \in {"get", "getwait"} => ppc \in {"get", "getwait"}
  /\ spc' = "size" => /\ spc = "size" /\ ssum' = ssum
                      /\ Counted' <= Counted /\ InFlight' <= InFlight
                      /\ ~In(ready, sync) => ~In(ready', sync)

LEMMA NumbersNext ==
  TypeOK' => (Out \in Nat /\ Counted \in Nat /\ InFlight \in Nat)'
<1>1. TypeOK => Out \in Nat /\ Counted \in Nat /\ InFlight \in Nat
  BY Numbers
<1> QED
  BY <1>1, PTL

LEMMA FlowLemma == ASSUME TypeOK, TypeOK', OutInv, Flow PROVE OutInv'
<1>1. /\ Out \in Nat /\ Counted \in Nat /\ InFlight \in Nat
      /\ Counted <= InFlight
  BY Numbers
<1>2. Out' \in Nat /\ Counted' \in Nat /\ InFlight' \in Nat
  BY NumbersNext
<1>3. ssum \in Nat /\ staleness_samples \in Nat /\ max_required_samples \in Nat
  BY Constants DEF TypeOK, RollouterTypeOK
<1> QED
  BY <1>1, <1>2, <1>3 DEF Flow, OutInv

LEMMA SameFlow ==
  ASSUME TypeOK, UNCHANGED <<phase, cancel_queue, mq, hand, staleness_samples>>,
         ppc' \in {"get", "getwait"} => ppc \in {"get", "getwait"},
         spc' = "size" => spc = "size" /\ ssum' = ssum /\ (~In(ready, sync) => ~In(ready', sync))
  PROVE  Flow
<1>1. Out \in Nat /\ Counted \in Nat /\ InFlight \in Nat
  BY Numbers
<1>2. Out' = Out /\ Counted' = Counted /\ InFlight' = InFlight
  BY DEF Out, Counted, InFlight, InHand, Tasks
<1> QED
  BY <1>1, <1>2 DEF Flow

-----------------------------------------------------------------------------
(* Initial states *)

LEMMA InitIInv == Init => IInv
<1> SUFFICES ASSUME Init PROVE IInv
  OBVIOUS
<1> USE Constants
<1>1. TypeOK
  <2>1. ready \in Seq(Coroutines) /\ lockQ = <<>> /\ cancel_queue = <<>> /\ mq = <<>> /\ buf = <<>>
    BY DEF Init, RollouterInit, Locking
  <2>2. {fed, taken, hand} \subseteq 0..DONE /\ failures \in 0..MaxFailures
        /\ local_trigger_step \in 1..Trigger
    BY RollouterAssumption DEF Init, RollouterInit, DONE, NoSample
  <2>3. phase \in [Samples -> Live \cup {"idle", "done", "failed"}] /\ used \in [Samples -> Nat]
    BY DEF Init, RollouterInit
  <2>4. /\ lockQ \in Seq(Locking) /\ cancel_queue \in Seq(Samples)
        /\ mq \in Seq(Samples \cup {NoSample}) /\ buf \in Seq(Samples)
    BY <2>1
  <2>5. /\ {paused, running, monitor_loop_trigger, serverPaused} \subseteq BOOLEAN
        /\ failed \in BOOLEAN
    BY DEF Init, RollouterInit
  <2>6. {current_param_version, staleness_samples, sver, ssum, dropped, wver} \subseteq Nat
    BY DEF Init, RollouterInit
  <2>7. RollouterTypeOK
    BY <2>1, <2>2, <2>3, <2>4, <2>5, <2>6 DEF Init, RollouterInit, RollouterTypeOK
  <2> QED
    BY <2>2, <2>4, <2>7 DEF Init, TypeOK
<1>2. LoopInv /\ ProcInv /\ SyncInv
  <2>1. ready = <<feeder, processor>> /\ Len(ready) = 2 /\ ~In(ready, sync)
    BY DEF Init, RollouterInit, In
  <2>2. lockQ = <<>> /\ \A c : ~In(lockQ, c)
    BY DEF Init, RollouterInit, In
  <2> QED
    BY <2>1, <2>2 DEF Init, RollouterInit, LoopInv, ProcInv, SyncInv, Distinct, AtMostOnce, In
<1>3. OutInv
  <2>1. Tasks = {} /\ Filled(mq) = {} /\ Len(cancel_queue) = 0 /\ InHand = 0
    BY DEF Init, RollouterInit, Tasks, Filled, InHand, NoSample
  <2>2. Out = 0
    BY <1>1, <2>1, FS_EmptySet, Numbers DEF Out, Counted
  <2> QED
    BY <2>2 DEF OutInv, Init, RollouterInit
<1> QED
  BY <1>1, <1>2, <1>3 DEF IInv

-----------------------------------------------------------------------------
(* The feeder and the processor *)

LEMMA FeedKeeps == ASSUME IInv, Feed, UNCHANGED <<tpc, trainerVars>> PROVE IInv'
<1>1. Quiet /\ ready' \in Seq(Coroutines)
  <2> DEFINE e == IF ppc = "getwait" /\ Asleep(processor) THEN <<processor>> ELSE <<>>
  <2>1. e \in Seq(Coroutines) /\ ~In(e, sync)
    BY Constants DEF In
  <2>2. ready # <<>> /\ ready' = Tail(ready) \o e
    BY DEF Feed, Runs
  <2> HIDE DEF e
  <2> QED
    BY <2>1, <2>2, QuietLemma DEF IInv, LoopInv, TypeOK, RollouterTypeOK, Quiet
<1>2. Kept
  BY <1>1, StayLemma, LoopTypes DEF Feed
<1>3. TypeOK'
  <2>1. fed' \in 0..DONE
    <3>1. taken \in 0..DONE /\ DONE \in Nat /\ PendingCap \in Nat
      BY Constants, FlatLemma DEF IInv, Flat, DONE
    <3>2. FeedLimit \in 0..DONE
      BY <3>1 DEF FeedLimit
    <3> QED
      BY <3>2 DEF Feed
  <2> QED
    BY <1>1, <2>1, FlatLemma, FlatNext DEF IInv, Flat, Feed, taskVars, flagVars, statVars,
                      syncVars, mqVars, serverVars, trainerVars
<1>4. ProcInv' /\ SyncInv'
  BY <1>2 DEF IInv, ProcInv, SyncInv, Kept, Feed, syncVars
<1>5. Flow
  BY <1>1, SameFlow DEF IInv, Quiet, Feed, taskVars, statVars, mqVars, syncVars
<1> QED
  BY <1>2, <1>3, <1>4, <1>5, FlowLemma DEF IInv, Kept

LEMMA ProcTopKeeps == ASSUME IInv, ProcTop, UNCHANGED <<tpc, trainerVars>> PROVE IInv'
<1> USE DEF ProcRest, taskVars, flagVars, statVars, syncVars, mqVars, serverVars, trainerVars
<1>1. ready \in Seq(Coroutines) /\ lockQ \in Seq(Locking) /\ LoopInv /\ processor \in Locking
  BY Constants DEF IInv, TypeOK, RollouterTypeOK
<1>2. CASE paused \/ _should_pause_generation
  <2>1. Asked(processor)
    <3>1. ~In(lockQ, processor) /\ Acquire(processor) /\ Runs(processor)
      BY <1>2 DEF IInv, ProcInv, ProcTop
    <3> QED
      BY <1>1, <3>1, AcquireLemma
  <2>2. TypeOK'
    BY <1>2, <2>1, FlatLemma, FlatNext DEF Asked, IInv, Flat, ProcTop
  <2>3. ProcInv' /\ SyncInv'
    BY <1>2, <2>1, Constants DEF Asked, IInv, ProcInv, SyncInv, ProcTop
  <2>4. Flow
    BY <1>2, <2>1, SameFlow DEF Asked, IInv, ProcTop
  <2> QED
    BY <2>1, <2>2, <2>3, <2>4, FlowLemma DEF Asked, IInv
<1>3. CASE ~(paused \/ _should_pause_generation)
  <2>1. UNCHANGED <<ready, lockQ>> /\ ppc' = "get"
    BY <1>3 DEF ProcTop, Goes
  <2>2. TypeOK'
    BY <2>1, FlatLemma, FlatNext DEF IInv, Flat, ProcTop
  <2>3. LoopInv' /\ ProcInv' /\ SyncInv'
    BY <2>1 DEF IInv, LoopInv, ProcInv, SyncInv, ProcTop, Holds
  <2>4. OutInv'
    <3>1. ~(staleness_samples >= max_required_samples) /\ staleness_samples \in Nat
          /\ max_required_samples \in Nat /\ Out \in Nat
      BY <1>3, Numbers, Constants DEF _should_pause_generation, IInv, TypeOK, RollouterTypeOK
    <3>2. Out <= max_required_samples
      BY <3>1 DEF IInv, OutInv
    <3>3. Out' = Out /\ Counted' = Counted /\ InFlight' = InFlight
      BY DEF ProcTop, Out, Counted, InFlight, InHand, Tasks
    <3> QED
      BY <2>1, <3>2, <3>3 DEF IInv, OutInv, ProcTop
  <2> QED
    BY <2>2, <2>3, <2>4 DEF IInv
<1> QED
  BY <1>2, <1>3

LEMMA ProcSetPauseKeeps == ASSUME IInv, ProcSetPause, UNCHANGED <<tpc, trainerVars>> PROVE IInv'
<1> USE DEF taskVars, statVars, syncVars, mqVars, serverVars, trainerVars
<1>1. GivenBack(processor)
  <2>1. ready' = ready \o <<>> \o NextWaiter /\ lockQ' = Tail(lockQ) /\ Holds(processor)
    BY DEF ProcSetPause, Release
  <2> QED
    BY <2>1, ReleaseLemma, LoopTypes, Others, Constants
<1>2. TypeOK'
  BY <1>1, FlatLemma, FlatNext DEF GivenBack, IInv, Flat, ProcSetPause
<1>3. ProcInv' /\ SyncInv'
  BY <1>1, OneHolder, Constants DEF GivenBack, IInv, ProcInv, SyncInv, ProcSetPause
<1>4. Flow
  BY <1>1, OneHolder, SameFlow, Constants DEF IInv, SyncInv, ProcSetPause, GivenBack
<1> QED
  BY <1>1, <1>2, <1>3, <1>4, FlowLemma DEF IInv, GivenBack

LEMMA ProcTakeCancelledFlow == ASSUME IInv, ProcTakeCancelled PROVE Flow
<1> USE DEF loopVars, taskVars, statVars, syncVars, mqVars
<1>1. /\ cancel_queue \in Seq(Samples) /\ Len(cancel_queue') = Len(cancel_queue) - 1
      /\ hand' \in Samples
  BY LoopTypes, FlatLemma, HeadTailProperties DEF Flat, ProcTakeCancelled
<1>2. Cardinality(Tasks)' = Cardinality(Tasks) /\ Cardinality(Filled(mq))' = Cardinality(Filled(mq))
  BY DEF ProcTakeCancelled, Tasks
<1>3. InHand' = 1 /\ InHand \in {0, 1}
  BY <1>1 DEF InHand
<1>4. InFlight = Counted + Cardinality(Filled(mq)) /\ InFlight' = Counted' + Cardinality(Filled(mq))'
  BY Numbers, LoopTypes DEF InFlight, Counted, Tasks, Filled
<1>5. /\ Cardinality(Tasks) \in Nat /\ Cardinality(Filled(mq)) \in Nat /\ Len(cancel_queue) \in Nat
      /\ Counted = Cardinality(Tasks) + Len(cancel_queue)
      /\ Counted' = Cardinality(Tasks) + Len(cancel_queue) - 1
  BY <1>1, <1>2, Numbers, LoopTypes DEF Counted
<1>6. Counted' = Counted - 1 /\ InFlight' = InFlight - 1 /\ Counted \in Nat /\ InFlight \in Nat
  <2>1. PICK t \in Nat, f \in Nat, c \in Nat :
          t = Cardinality(Tasks) /\ f = Cardinality(Filled(mq)) /\ c = Len(cancel_queue)
    BY <1>5
  <2>2. Counted = t + c /\ Counted' = t + c - 1
    BY <1>5, <2>1
  <2>3. InFlight = t + c + f /\ InFlight' = t + c - 1 + f
    BY <1>2, <1>4, <2>1, <2>2
  <2> QED
    BY <2>2, <2>3
<1>7. Out' <= Out
  BY <1>3, <1>6 DEF Out
<1> QED
  BY <1>6, <1>7 DEF Flow, ProcTakeCancelled

LEMMA ProcTakeCancelledKeeps ==
  ASSUME IInv, ProcTakeCancelled, UNCHANGED <<tpc, trainerVars>> PROVE IInv'
<1> USE DEF loopVars, taskVars, flagVars, statVars, syncVars, mqVars, serverVars, trainerVars
<1>1. /\ cancel_queue \in Seq(Samples) /\ cancel_queue # <<>>
      /\ cancel_queue' \in Seq(Samples) /\ Len(cancel_queue') = Len(cancel_queue) - 1
      /\ hand' \in Samples
  <2>1. cancel_queue \in Seq(Samples) /\ cancel_queue # <<>>
    BY LoopTypes, FlatLemma DEF Flat, ProcTakeCancelled
  <2>2. /\ Tail(cancel_queue) \in Seq(Samples) /\ Len(Tail(cancel_queue)) = Len(cancel_queue) - 1
        /\ Head(cancel_queue) \in Samples
    BY <2>1, HeadTailProperties
  <2> QED
    BY <2>1, <2>2 DEF ProcTakeCancelled
<1>2. hand' \in 0..DONE
  BY <1>1, Constants DEF Samples, DONE
<1>3. TypeOK'
  BY <1>1, <1>2, FlatLemma, FlatNext DEF IInv, Flat, ProcTakeCancelled
<1>4. LoopInv' /\ ProcInv' /\ SyncInv'
  BY <1>1 DEF IInv, LoopInv, ProcInv, SyncInv, ProcTakeCancelled, Holds
<1>5. Flow
  BY ProcTakeCancelledFlow
<1> QED
  BY <1>3, <1>4, <1>5, FlowLemma DEF IInv

LEMMA ProcTakePendingKeeps ==
  ASSUME IInv, ProcTakePending, UNCHANGED <<tpc, trainerVars>> PROVE IInv'
<1> USE DEF taskVars, flagVars, syncVars, mqVars, serverVars, trainerVars
<1>1. Kept
  <2>1. ready' = ready \/ ready' = Append(ready, feeder)
    BY DEF ProcTakePending, Wakes, Goes
  <2>2. Quiet
    BY <2>1, Others, QuietLemma, WakeLemma, LoopTypes, Constants DEF LoopInv
  <2> QED
    BY <2>2, StayLemma, LoopTypes DEF ProcTakePending
<1>2. /\ hand' \in 1..DONE /\ taken' \in 0..DONE /\ goal' \in {"done", "limit"}
      /\ goal' = "limit" => hand' \in Samples
  <2>1. taken \in 0..DONE /\ fed \in 0..DONE /\ taken < fed /\ DONE = TotalSamples + 1
    BY DEF IInv, TypeOK, RollouterTypeOK, ProcTakePending, DONE
  <2> QED
    BY <2>1, Constants DEF ProcTakePending, Samples
<1>3. TypeOK'
  <2>0. staleness_samples \in Nat
    BY DEF IInv, TypeOK, RollouterTypeOK
  <2>1. staleness_samples' \in Nat
    BY <2>0 DEF ProcTakePending
  <2>2. 1..DONE \subseteq 0..DONE
    BY ONLY Constants DEF DONE
  <2> QED
    BY <1>1, <1>2, <2>1, <2>2, FlatLemma, FlatNext DEF Kept, IInv, Flat, ProcTakePending
<1>4. ProcInv' /\ SyncInv'
  BY <1>1, <1>2 DEF Kept, IInv, ProcInv, SyncInv, ProcTakePending
<1>5. OutInv'
  <2>1. Counted' = Counted /\ InFlight' = InFlight /\ InHand' <= 1
    BY DEF ProcTakePending, Counted, InFlight, Tasks, InHand
  <2>2. Counted \in Nat /\ InFlight \in Nat /\ InHand \in {0, 1} /\ InFlight <= Out
    BY Numbers, LoopTypes DEF Out
  <2>3. Out' <= Out + 1 /\ Out' \in Int
    BY <2>1, <2>2 DEF Out, InHand
  <2>4. Out <= max_required_samples /\ ppc' = "drain" /\ staleness_samples' = staleness_samples + 1
    BY DEF IInv, OutInv, ProcTakePending
  <2>5. staleness_samples \in Nat /\ max_required_samples \in Nat /\ Out \in Nat
    BY Numbers, Constants DEF IInv, TypeOK, RollouterTypeOK
  <2> QED
    BY <1>1, <2>1, <2>3, <2>4, <2>5 DEF IInv, OutInv, Kept, ProcTakePending
<1> QED
  BY <1>1, <1>3, <1>4, <1>5 DEF IInv, Kept

LEMMA ProcGetWaitsKeeps ==
  ASSUME IInv, ProcGetWaits, UNCHANGED <<tpc, trainerVars>> PROVE IInv'
<1> USE DEF ProcRest, taskVars, flagVars, statVars, syncVars, mqVars, serverVars, trainerVars
<1>1. Kept
  <2>1. Quiet
    BY Others, QuietLemma, LoopTypes DEF LoopInv, ProcGetWaits, Runs, Suspends
  <2> QED
    BY <2>1, StayLemma, LoopTypes DEF ProcGetWaits
<1>2. TypeOK'
  BY <1>1, FlatLemma, FlatNext DEF Kept, IInv, Flat, ProcGetWaits
<1>3. ProcInv' /\ SyncInv'
  BY <1>1 DEF Kept, IInv, ProcInv, SyncInv, ProcGetWaits
<1>4. Flow
  BY <1>1, SameFlow DEF IInv, Kept, ProcGetWaits
<1> QED
  BY <1>1, <1>2, <1>3, <1>4, FlowLemma DEF IInv, Kept

LEMMA ProcDrainKeeps == ASSUME IInv, ProcDrain, UNCHANGED <<tpc, trainerVars>> PROVE IInv'
<1> USE DEF ProcRest, taskVars, flagVars, statVars, syncVars, mqVars, serverVars, trainerVars
<1>1. CASE goal = "done" /\ ~MustWait
  <2>1. Kept
    <3>1. Quiet
      BY <1>1, WakeLemma, LoopTypes, Constants DEF LoopInv, ProcDrain, Runs
    <3> QED
      BY <1>1, <3>1, StayLemma, LoopTypes DEF ProcDrain
  <2>2. TypeOK'
    BY <1>1, <2>1, FlatLemma, FlatNext DEF Kept, IInv, Flat, ProcDrain
  <2>3. ProcInv' /\ SyncInv'
    BY <1>1, <2>1 DEF Kept, IInv, ProcInv, SyncInv, ProcDrain
  <2>4. Flow
    BY <1>1, <2>1, SameFlow DEF IInv, Kept, ProcDrain
  <2> QED
    BY <2>1, <2>2, <2>3, <2>4, FlowLemma DEF IInv, Kept
<1>2. CASE ~(goal = "done" /\ ~MustWait)
  <2>1. Asked(processor) /\ ppc' \in {"await", "condlock"}
    <3>1. ~In(lockQ, processor) /\ Acquire(processor) /\ Runs(processor) /\ processor \in Locking
          /\ ppc' \in {"await", "condlock"}
      BY <1>2, Constants DEF IInv, ProcInv, ProcDrain
    <3> QED
      BY <3>1, AcquireLemma, LoopTypes
  <2>2. TypeOK'
    BY <2>1, FlatLemma, FlatNext DEF Asked, IInv, Flat, ProcDrain
  <2>3. ProcInv' /\ SyncInv'
    BY <2>1, Constants DEF Asked, IInv, ProcInv, SyncInv, ProcDrain
  <2>4. Flow
    BY <2>1, SameFlow DEF IInv, Asked, ProcDrain
  <2> QED
    BY <2>1, <2>2, <2>3, <2>4, FlowLemma DEF IInv, Asked
<1> QED
  BY <1>1, <1>2

LEMMA ProcAwaitKeeps == ASSUME IInv, ProcAwait, UNCHANGED <<tpc, trainerVars>> PROVE IInv'
<1> USE DEF ProcRest, taskVars, flagVars, statVars, syncVars, mqVars, serverVars, trainerVars
<1>1. CASE NActive = 0
  <2>1. GivenBack(processor) /\ ppc' \in {"dead", "drain"}
    <3>1. /\ lockQ' = Tail(lockQ) /\ Holds(processor) /\ ready # <<>> /\ ppc' \in {"dead", "drain"}
          /\ \/ ready' = Tail(ready) \o <<main>> \o NextWaiter
             \/ ready' = ready \o <<>> \o NextWaiter
      BY <1>1 DEF ProcAwait, Release, ReleaseAndSuspend, Runs
    <3> QED
      BY <3>1, ReleaseLemma, LoopTypes, Others, Constants
  <2>2. TypeOK'
    BY <1>1, <2>1, FlatLemma, FlatNext DEF GivenBack, IInv, Flat, ProcAwait
  <2>3. ProcInv' /\ SyncInv'
    BY <1>1, <2>1, OneHolder, Constants DEF GivenBack, IInv, ProcInv, SyncInv, ProcAwait
  <2>4. Flow
    BY <1>1, <2>1, OneHolder, SameFlow, Constants DEF IInv, SyncInv, ProcAwait, GivenBack
  <2> QED
    BY <2>1, <2>2, <2>3, <2>4, FlowLemma DEF IInv, GivenBack
<1>2. CASE NActive # 0
  <2>1. Kept /\ ppc' = "waiting"
    <3>1. /\ ready # <<>> /\ lockQ' = lockQ /\ ppc' = "waiting"
          /\ ready' = Tail(ready) \o <<waiter>> \/ ready' = Tail(ready) \o <<>>
      BY <1>2 DEF ProcAwait, Runs
    <3>2. Quiet
      BY <3>1, Others, QuietLemma, LoopTypes, Constants DEF LoopInv
    <3> QED
      BY <3>1, <3>2, StayLemma, LoopTypes
  <2>2. TypeOK'
    BY <2>1, FlatLemma, FlatNext DEF Kept, IInv, Flat, ProcAwait
  <2>3. ProcInv' /\ SyncInv'
    BY <2>1 DEF Kept, IInv, ProcInv, SyncInv, ProcAwait
  <2>4. Flow
    BY <2>1, SameFlow DEF IInv, Kept, ProcAwait
  <2> QED
    BY <2>1, <2>2, <2>3, <2>4, FlowLemma DEF IInv, Kept
<1> QED
  BY <1>1, <1>2

LEMMA WaitReturnsKeeps == ASSUME IInv, WaitReturns, UNCHANGED <<tpc, trainerVars>> PROVE IInv'
<1> USE DEF procVars, ProcRest, taskVars, flagVars, statVars, syncVars, mqVars, serverVars, trainerVars
<1>1. Kept
  <2>1. Quiet
    BY WakeLemma, LoopTypes, Constants DEF LoopInv, WaitReturns, Runs
  <2> QED
    BY <2>1, StayLemma, LoopTypes DEF WaitReturns
<1>2. TypeOK'
  BY <1>1, FlatLemma, FlatNext DEF Kept, IInv, Flat, WaitReturns
<1>3. ProcInv' /\ SyncInv'
  BY <1>1 DEF Kept, IInv, ProcInv, SyncInv, WaitReturns
<1>4. Flow
  BY <1>1, SameFlow DEF IInv, Kept, WaitReturns
<1> QED
  BY <1>1, <1>2, <1>3, <1>4, FlowLemma DEF IInv, Kept

LEMMA ProcCollectKeeps == ASSUME IInv, ProcCollect, UNCHANGED <<tpc, trainerVars>> PROVE IInv'
<1> USE DEF flagVars, statVars, syncVars, mqVars, serverVars, trainerVars
<1>1. GivenBack(processor) /\ ppc' \in {"dead", "drain"}
  <2>1. /\ lockQ' = Tail(lockQ) /\ Holds(processor) /\ ready # <<>> /\ ppc' \in {"dead", "drain"}
        /\ \/ ready' = Tail(ready) \o <<main>> \o NextWaiter
           \/ ready' = ready \o <<>> \o NextWaiter
    BY DEF ProcCollect, Release, ReleaseAndSuspend, IInv, ProcInv, Runs
  <2> QED
    BY <2>1, ReleaseLemma, LoopTypes, Others, Constants
<1>2. TypeOK'
  BY <1>1, FlatLemma, FlatNext DEF GivenBack, IInv, Flat, ProcCollect
<1>3. ProcInv' /\ SyncInv'
  BY <1>1, OneHolder, Constants DEF GivenBack, IInv, ProcInv, SyncInv, ProcCollect
<1>4. Flow
  BY <1>1, OneHolder, SameFlow, Constants DEF IInv, SyncInv, ProcCollect, GivenBack
<1> QED
  BY <1>1, <1>2, <1>3, <1>4, FlowLemma DEF IInv, GivenBack

LEMMA SumsNext ==
  TypeOK' => (/\ Cardinality(Tasks) \in Nat /\ Len(cancel_queue) \in Nat
              /\ Cardinality(Filled(mq)) \in Nat /\ InHand \in {0, 1})'
<1>1. TypeOK => /\ Cardinality(Tasks) \in Nat /\ Len(cancel_queue) \in Nat
                /\ Cardinality(Filled(mq)) \in Nat /\ InHand \in {0, 1}
  BY Numbers
<1> QED
  BY <1>1, PTL

\* Samples move: t in tasks, c interrupted, f in the queue and h in the hand afterwards,
\* named so that they can be compared with the numbers before.
Becomes(t, c, f, h) ==
  /\ t = Cardinality(Tasks)' /\ c = Len(cancel_queue)'
  /\ f = Cardinality(Filled(mq))' /\ h = InHand'

Moves ==
  \E t, c, f, h \in Int :
    /\ Becomes(t, c, f, h)
    /\ t + c + f + h <= Out
    /\ spc' = "size" => t + c <= Counted /\ t + c + f <= InFlight

LEMMA MoveFlow ==
  ASSUME TypeOK, TypeOK', UNCHANGED staleness_samples, Moves,
         ppc' \in {"get", "getwait"} => ppc \in {"get", "getwait"},
         spc' = "size" => spc = "size" /\ ssum' = ssum /\ (~In(ready, sync) => ~In(ready', sync))
  PROVE  Flow
<1>1. PICK t \in Int, c \in Int, f \in Int, h \in Int :
        /\ Becomes(t, c, f, h)
        /\ t + c + f + h <= Out
        /\ spc' = "size" => t + c <= Counted /\ t + c + f <= InFlight
  BY DEF Moves
<1>2. Counted' = t + c
  BY <1>1 DEF Becomes, Counted
<1>3. InFlight' = t + c + f
  BY <1>1 DEF Becomes, InFlight, Tasks, Filled
<1>4. Out' = t + c + f + h
  BY <1>1, <1>3 DEF Becomes, Out
<1> QED
  BY <1>1, <1>2, <1>3, <1>4 DEF Flow

\* The numbers before, of a sample that moves from d to e.
LEMMA Before ==
  ASSUME TypeOK
  PROVE  /\ Cardinality(Tasks) \in Nat /\ Len(cancel_queue) \in Nat
         /\ Cardinality(Filled(mq)) \in Nat /\ InHand \in Nat
         /\ Counted = Cardinality(Tasks) + Len(cancel_queue)
         /\ InFlight = Cardinality(Tasks) + Len(cancel_queue) + Cardinality(Filled(mq))
         /\ Out = Cardinality(Tasks) + Len(cancel_queue) + Cardinality(Filled(mq)) + InHand
<1>1. InFlight = Cardinality(Tasks) + Len(cancel_queue) + Cardinality(Filled(mq))
  BY DEF InFlight, Tasks, Filled
<1> QED
  BY <1>1, Numbers DEF Counted, Out

\* A sample of a task goes to another phase.
InTask == {"new", "gen", "ret", "cut", "put"}

LEMMA PhaseLemma ==
  ASSUME TypeOK, NEW i \in Samples, NEW v, phase' = [phase EXCEPT ![i] = v]
  PROVE  /\ (phase[i] \in InTask <=> v \in InTask) => Cardinality(Tasks)' = Cardinality(Tasks)
         /\ phase[i] \in InTask /\ v \notin InTask => Cardinality(Tasks)' = Cardinality(Tasks) - 1
         /\ phase[i] \notin InTask /\ v \in InTask => Cardinality(Tasks)' = Cardinality(Tasks) + 1
<1>1. IsFiniteSet(Tasks) /\ Cardinality(Tasks) \in Nat
  BY Numbers
<1>2. phase' = [j \in Samples |-> IF j = i THEN v ELSE phase[j]]
  BY FlatLemma DEF Flat
<1>3. ASSUME phase[i] \in InTask <=> v \in InTask PROVE Tasks' = Tasks
  BY <1>2, <1>3 DEF Tasks, InTask
<1>4. ASSUME phase[i] \in InTask, v \notin InTask
      PROVE  Cardinality(Tasks)' = Cardinality(Tasks) - 1
  <2>1. Tasks' = Tasks \ {i} /\ i \in Tasks
    BY <1>2, <1>4 DEF Tasks, InTask
  <2>2. Cardinality(Tasks \ {i}) = Cardinality(Tasks) - 1
    BY <1>1, <2>1, FS_RemoveElement, Zenon
  <2> QED
    BY <2>1, <2>2
<1>5. ASSUME phase[i] \notin InTask, v \in InTask
      PROVE  Cardinality(Tasks)' = Cardinality(Tasks) + 1
  <2>1. Tasks' = Tasks \cup {i} /\ i \notin Tasks
    BY <1>2, <1>5 DEF Tasks, InTask
  <2>2. Cardinality(Tasks \cup {i}) = Cardinality(Tasks) + 1
    BY <1>1, <2>1, FS_AddElement, Zenon
  <2> QED
    BY <2>1, <2>2
<1> QED
  BY <1>1, <1>3, <1>4, <1>5

LEMMA ProcConditionFlow == ASSUME IInv, TypeOK', ProcCondition PROVE Flow
<1> USE DEF statVars, syncVars, mqVars
<1>1. spc # "size"
  BY OneHolder, Constants DEF IInv, SyncInv, ProcCondition
<1>2. CASE StaysPaused \/ goal # "limit"
  <2>1. UNCHANGED <<phase, hand>> /\ ppc' \in {"cwait", "top"}
    BY <1>2 DEF ProcCondition
  <2> QED
    BY <1>1, <2>1, SameFlow DEF IInv, ProcCondition
<1>3. CASE ~StaysPaused /\ goal = "limit"
  <2>1. /\ hand \in Samples /\ phase' = [phase EXCEPT ![hand] = "new"]
        /\ hand' = NoSample /\ ppc' = "top"
    BY <1>3 DEF IInv, ProcInv, ProcCondition
  <2>2. Cardinality(Tasks)' \in {Cardinality(Tasks) - 1, Cardinality(Tasks), Cardinality(Tasks) + 1}
    BY <2>1, PhaseLemma, LoopTypes
  <2>3. InHand = 1 /\ InHand' = 0
    BY <2>1, Constants DEF InHand, NoSample
  <2>4. PICK t \in Int : t = Cardinality(Tasks)'
    BY SumsNext
  <2>5. t <= Cardinality(Tasks) + 1
    BY <2>2, <2>4, Before, LoopTypes
  <2>6. t + Len(cancel_queue) + Cardinality(Filled(mq)) + 0 <= Out
    BY <2>3, <2>5, Before, LoopTypes
  <2>7. Becomes(t, Len(cancel_queue), Cardinality(Filled(mq)), 0)
    BY <2>3, <2>4 DEF ProcCondition, Becomes
  <2>8. Moves
    BY <1>1, <2>6, <2>7, Before, LoopTypes DEF Moves, ProcCondition
  <2> QED
    BY <1>1, <2>1, <2>8, MoveFlow, LoopTypes DEF ProcCondition
<1> QED
  BY <1>2, <1>3

LEMMA ProcConditionKeeps == ASSUME IInv, ProcCondition, UNCHANGED <<tpc, trainerVars>> PROVE IInv'
<1> USE DEF flagVars, statVars, syncVars, mqVars, serverVars, trainerVars
<1>1. Holds(processor) /\ processor \in Locking /\ ready # <<>>
  BY Constants DEF ProcCondition, Runs
<1>2. CASE StaysPaused \/ goal # "limit"
  <2>1. GivenBack(processor) /\ UNCHANGED <<phase, hand>> /\ ppc' \in {"cwait", "top"}
    <3>1. /\ lockQ' = Tail(lockQ) /\ UNCHANGED <<phase, hand>> /\ ppc' \in {"cwait", "top"}
          /\ \/ ready' = Tail(ready) \o <<>> \o NextWaiter
             \/ ready' = ready \o <<>> \o NextWaiter
      BY <1>2 DEF ProcCondition, Release, ReleaseAndSuspend
    <3> QED
      BY <1>1, <3>1, ReleaseLemma, LoopTypes, Others
  <2>2. TypeOK'
    BY <2>1, FlatLemma, FlatNext DEF GivenBack, IInv, Flat, ProcCondition
  <2>3. ProcInv' /\ SyncInv'
    BY <2>1, OneHolder, Constants DEF GivenBack, IInv, ProcInv, SyncInv, ProcCondition
  <2>4. Flow
    BY <2>2, ProcConditionFlow
  <2> QED
    BY <2>1, <2>2, <2>3, <2>4, FlowLemma DEF IInv, GivenBack
<1>3. CASE ~StaysPaused /\ goal = "limit"
  <2>1. hand \in Samples /\ hand # sync /\ hand \in Coroutines
    BY <1>3, Constants DEF IInv, ProcInv, ProcCondition
  <2>2. /\ lockQ' = Tail(lockQ) /\ ready' = ready \o <<hand>> \o NextWaiter
        /\ phase' = [phase EXCEPT ![hand] = "new"] /\ hand' = NoSample /\ ppc' = "top"
    BY <1>3 DEF ProcCondition, Release
  <2>3. GivenBack(processor)
    BY <1>1, <2>1, <2>2, ReleaseLemma, LoopTypes, Others
  <2>4. TypeOK'
    <3>1. phase' \in [Samples -> Live \cup {"idle", "done", "failed"}] /\ hand' \in 0..DONE
      BY <2>1, <2>2, LoopTypes, FlatLemma, Constants DEF Flat, Live, NoSample, DONE
    <3> QED
      BY <2>2, <2>3, <3>1, FlatLemma, FlatNext DEF GivenBack, IInv, Flat, ProcCondition
  <2>5. ProcInv' /\ SyncInv'
    BY <2>2, <2>3, OneHolder, Constants DEF GivenBack, IInv, ProcInv, SyncInv, ProcCondition
  <2>6. Flow
    BY <2>4, ProcConditionFlow
  <2> QED
    BY <2>3, <2>4, <2>5, <2>6, FlowLemma DEF IInv, GivenBack
<1> QED
  BY <1>2, <1>3

LEMMA ProcWokenKeeps == ASSUME IInv, ProcWoken, UNCHANGED <<tpc, trainerVars>> PROVE IInv'
<1> USE DEF ProcRest, taskVars, flagVars, statVars, syncVars, mqVars, serverVars, trainerVars
<1>1. Asked(processor)
  <2>1. ~In(lockQ, processor) /\ Acquire(processor) /\ Runs(processor) /\ processor \in Locking
    BY Constants DEF IInv, ProcInv, ProcWoken
  <2> QED
    BY <2>1, AcquireLemma, LoopTypes
<1>2. TypeOK'
  BY <1>1, FlatLemma, FlatNext DEF Asked, IInv, Flat, ProcWoken
<1>3. ProcInv' /\ SyncInv'
  <2>1. goal = "limit" => hand \in Samples
    BY DEF IInv, ProcInv, ProcWoken
  <2> QED
    BY <1>1, <2>1, Constants DEF Asked, IInv, ProcInv, SyncInv, ProcWoken
<1>4. Flow
  BY <1>1, SameFlow DEF IInv, Asked, ProcWoken
<1> QED
  BY <1>1, <1>2, <1>3, <1>4, FlowLemma DEF IInv, Asked

-----------------------------------------------------------------------------
(* The tasks, and their answers from servers and queue *)

\* Who holds and waits stays as it is when only samples move.
LEMMA FrameLemma ==
  ASSUME IInv, Kept, UNCHANGED <<ppc, goal, hand, mpc, epc, spc>>,
         tpc' = tpc \/ tpc' # "weights"
  PROVE  ProcInv' /\ SyncInv'
BY DEF Kept, IInv, ProcInv, SyncInv

\* A step that moves samples and leaves the rest alone.
LEMMA SamplesMove ==
  ASSUME IInv, Kept, TypeOK', Moves,
         UNCHANGED <<staleness_samples, hand, ppc, goal, mpc, epc, spc, ssum, tpc>>
  PROVE  IInv'
<1>1. ProcInv' /\ SyncInv'
  BY FrameLemma
<1>2. Flow
  BY MoveFlow, LoopTypes DEF Kept
<1> QED
  BY <1>1, <1>2, FlowLemma DEF IInv, Kept

\* A sample's phase changes within its task, or its task is done with it.
LEMMA PhaseMoves ==
  ASSUME TypeOK, TypeOK', UNCHANGED <<cancel_queue, mq, hand>>,
         NEW i \in Samples, NEW v, phase' = [phase EXCEPT ![i] = v],
         v \in InTask => phase[i] \in InTask
  PROVE  Moves
<1>1. PICK t \in Int : t = Cardinality(Tasks)'
  BY SumsNext
<1>2. t <= Cardinality(Tasks)
  <2>1. Cardinality(Tasks)' \in {Cardinality(Tasks), Cardinality(Tasks) - 1}
    BY PhaseLemma
  <2> QED
    BY <1>1, <2>1, Before
<1>3. /\ t + Len(cancel_queue) + Cardinality(Filled(mq)) + InHand <= Out
      /\ t + Len(cancel_queue) <= Counted
      /\ t + Len(cancel_queue) + Cardinality(Filled(mq)) <= InFlight
  BY <1>1, <1>2, Before
<1>4. Becomes(t, Len(cancel_queue), Cardinality(Filled(mq)), InHand)
  BY <1>1 DEF Becomes, InHand
<1> QED
  BY <1>1, <1>3, <1>4, Before DEF Moves

\* The event loop when a stretch ends, or something outside makes a coroutine ready.
LEMMA LoopLemma ==
  ASSUME IInv, lockQ' = lockQ,
         \/ ready' = ready
         \/ \E c \in Coroutines \ {sync} : ready' = ready \o <<c>>
         \/ ready # <<>> /\ ready' = Tail(ready)
         \/ ready # <<>> /\ \E c \in Coroutines \ {sync} : ready' = Tail(ready) \o <<c>>
  PROVE  Kept
<1>1. Quiet
  <2>1. CASE ready' = ready \/ (ready # <<>> /\ ready' = Tail(ready))
    BY <2>1, Others, QuietLemma, LoopTypes DEF LoopInv
  <2>2. CASE \E c \in Coroutines \ {sync} : ready' = ready \o <<c>>
    BY <2>2, Others, QuietLemma, LoopTypes DEF LoopInv
  <2>3. CASE ready # <<>> /\ \E c \in Coroutines \ {sync} : ready' = Tail(ready) \o <<c>>
    BY <2>3, Others, QuietLemma, LoopTypes DEF LoopInv
  <2> QED
    BY <2>1, <2>2, <2>3
<1> QED
  BY <1>1, StayLemma, LoopTypes

LEMMA TaskMoves == ASSUME IInv, TypeOK', NEW i \in Samples, Task(i) PROVE Moves
<1> USE DEF TaskRest, procVars, syncVars, mqVars
<1>1. CASE TaskStart(i)
  <2>1. /\ phase[i] \in InTask
        /\ phase' = [phase EXCEPT ![i] = "cut"] \/ phase' = [phase EXCEPT ![i] = "gen"]
    BY <1>1 DEF TaskStart, InTask
  <2> QED
    BY <1>1, <2>1, PhaseMoves, LoopTypes DEF TaskStart
<1>2. CASE TaskPuts(i)
  <2>1. phase[i] \in InTask /\ phase' = [phase EXCEPT ![i] = "put"]
    BY <1>2 DEF TaskPuts, InTask
  <2> QED
    BY <1>2, <2>1, PhaseMoves, LoopTypes DEF TaskPuts
<1>3. CASE TaskEnds(i) \/ TaskFails(i)
  <2>1. \/ phase' = [phase EXCEPT ![i] = "done"]
        \/ phase' = [phase EXCEPT ![i] = "failed"]
    BY <1>3 DEF TaskEnds, TaskFails
  <2> QED
    BY <1>3, <2>1, PhaseMoves, LoopTypes DEF TaskEnds, TaskFails, InTask
<1>4. CASE TaskRequeues(i)
  <2>1. phase' = [phase EXCEPT ![i] = "idle"] /\ phase[i] \in InTask
    BY <1>4 DEF TaskRequeues, InTask
  <2>2. Len(cancel_queue') = Len(cancel_queue) + 1
    BY <1>4, AppendProperties, LoopTypes, FlatLemma DEF TaskRequeues, KeepCancelled, Flat
  <2>3. PICK t \in Int : t = Cardinality(Tasks)'
    BY SumsNext
  <2>4. PICK c \in Int : c = Len(cancel_queue)'
    BY SumsNext
  <2>5. t = Cardinality(Tasks) - 1 /\ c = Len(cancel_queue) + 1
    <3>1. PICK v : v = "idle" /\ v \notin InTask
      BY DEF InTask
    <3>2. phase' = [phase EXCEPT ![i] = v] /\ phase[i] \in InTask /\ v \notin InTask
      BY <2>1, <3>1
    <3>3. Cardinality(Tasks)' = Cardinality(Tasks) - 1
      BY <3>2, PhaseLemma, LoopTypes
    <3> QED
      BY <2>2, <2>3, <2>4, <3>3
  <2>6. /\ t + c + Cardinality(Filled(mq)) + InHand <= Out
        /\ t + c <= Counted
        /\ t + c + Cardinality(Filled(mq)) <= InFlight
    BY <2>5, Before, LoopTypes
  <2>7. Becomes(t, c, Cardinality(Filled(mq)), InHand)
    BY <1>4, <2>3, <2>4 DEF Becomes, InHand, TaskRequeues
  <2> QED
    BY <2>6, <2>7, Before, LoopTypes DEF Moves
<1> QED
  BY <1>1, <1>2, <1>3, <1>4 DEF Task

LEMMA TaskKeeps ==
  ASSUME IInv, NEW i \in Samples, Task(i), UNCHANGED <<tpc, trainerVars>>
  PROVE  IInv'
<1> USE DEF TaskRest, procVars, flagVars, statVars, syncVars, mqVars, serverVars, trainerVars
<1>0. /\ i \in Coroutines \ {sync} /\ waiter \in Coroutines \ {sync} /\ ready \in Seq(Coroutines)
      /\ phase \in [Samples -> Live \cup {"idle", "done", "failed"}] /\ finished \in Nat
  BY Constants, LoopTypes, FlatLemma DEF Flat
<1>1. CASE TaskStart(i)
  <2>1. Kept
    <3>1. /\ lockQ' = lockQ /\ ready # <<>>
          /\ ready' = Tail(ready) \/ ready' = Tail(ready) \o <<i>>
      <4>1. ready # <<>> /\ lockQ' = lockQ /\ ready' \in {Tail(ready), Append(Tail(ready), i)}
        BY <1>1 DEF TaskStart, Runs, Suspends
      <4>2. Tail(ready) \in Seq(Coroutines)
        BY <1>0, <4>1
      <4>3. Append(Tail(ready), i) = Tail(ready) \o <<i>>
        BY <1>0, <4>2
      <4> QED
        BY <4>1, <4>3
    <3> QED
      BY <1>0, <3>1, LoopLemma
  <2>2. /\ phase[i] \in InTask
        /\ phase' = [phase EXCEPT ![i] = "cut"] \/ phase' = [phase EXCEPT ![i] = "gen"]
        /\ used' \in [Samples -> Nat]
    BY <1>1, LoopTypes, FlatLemma DEF TaskStart, InTask, Flat
  <2>3. phase' \in [Samples -> Live \cup {"idle", "done", "failed"}]
    BY <1>0, <2>2 DEF Live
  <2>4. TypeOK'
    BY <1>1, <2>1, <2>2, <2>3, FlatLemma, FlatNext DEF Kept, IInv, Flat, TaskStart
  <2>5. Moves
    BY <1>1, <2>4, TaskMoves DEF Task
  <2> QED
    BY <1>1, <2>1, <2>4, <2>5, SamplesMove DEF TaskStart
<1>2. CASE TaskPuts(i)
  <2>1. Kept
    BY <1>0, <1>2, LoopLemma DEF TaskPuts, Runs, Suspends
  <2>2. /\ phase[i] \in InTask /\ phase' = [phase EXCEPT ![i] = "put"]
    BY <1>2 DEF TaskPuts, InTask
  <2>3. phase' \in [Samples -> Live \cup {"idle", "done", "failed"}]
    BY <1>0, <2>2 DEF Live
  <2>4. TypeOK'
    BY <1>2, <2>1, <2>3, FlatLemma, FlatNext DEF Kept, IInv, Flat, TaskPuts
  <2>5. Moves
    BY <1>2, <2>4, TaskMoves DEF Task
  <2> QED
    BY <1>2, <2>1, <2>4, <2>5, SamplesMove DEF TaskPuts
<1>3. CASE TaskEnds(i) \/ TaskFails(i)
  <2>1. Kept
    <3>1. /\ lockQ' = lockQ /\ ready # <<>>
          /\ ready' = Tail(ready) \o <<>> \/ ready' = Tail(ready) \o <<waiter>>
      <4>1. CASE TaskEnds(i)
        BY <4>1 DEF TaskEnds, Runs, Ends
      <4>2. CASE TaskFails(i)
        BY <4>2 DEF TaskFails, Runs, Ends
      <4> QED
        BY <1>3, <4>1, <4>2
    <3> QED
      BY <1>0, <3>1, LoopLemma
  <2>2. \/ phase' = [phase EXCEPT ![i] = "done"]
        \/ phase' = [phase EXCEPT ![i] = "failed"]
    BY <1>3 DEF TaskEnds, TaskFails
  <2>3. phase' \in [Samples -> Live \cup {"idle", "done", "failed"}]
    BY <1>0, <2>2 DEF Live
  <2>4. finished' \in Nat /\ failures' \in 0..MaxFailures /\ failed' \in BOOLEAN
    <3>1. finished' \in Nat
      <4>1. finished' = finished + 1
        BY <1>3 DEF TaskEnds, TaskFails, Ends
      <4> QED
        BY <1>0, <4>1
    <3>2. failures \in 0..MaxFailures /\ failed \in BOOLEAN /\ MaxFailures \in Nat
      BY LoopTypes, FlatLemma, RollouterAssumption DEF Flat
    <3>3. CASE TaskEnds(i)
      BY <3>1, <3>2, <3>3 DEF TaskEnds
    <3>4. CASE TaskFails(i)
      BY <3>1, <3>2, <3>4 DEF TaskFails
    <3> QED
      BY <1>3, <3>3, <3>4
  <2>5. TypeOK'
    BY <1>3, <2>1, <2>3, <2>4, FlatLemma, FlatNext DEF Kept, IInv, Flat, TaskEnds, TaskFails
  <2>6. Moves
    BY <1>3, <2>5, TaskMoves DEF Task
  <2> QED
    BY <1>3, <2>1, <2>5, <2>6, SamplesMove DEF TaskEnds, TaskFails
<1>4. CASE TaskRequeues(i)
  <2>1. Kept
    <3>1. /\ lockQ' = lockQ /\ ready # <<>>
          /\ ready' = Tail(ready) \o <<>> \/ ready' = Tail(ready) \o <<waiter>>
      BY <1>0, <1>4 DEF TaskRequeues, Runs, Ends
    <3> QED
      BY <1>0, <3>1, LoopLemma
  <2>2. phase' = [phase EXCEPT ![i] = "idle"] /\ phase[i] \in InTask
    BY <1>4 DEF TaskRequeues, InTask
  <2>3. phase' \in [Samples -> Live \cup {"idle", "done", "failed"}] /\ finished' \in Nat
    BY <1>0, <1>4, <2>2 DEF Live, TaskRequeues, Ends
  <2>4. cancel_queue' \in Seq(Samples) /\ Len(cancel_queue') = Len(cancel_queue) + 1
    BY <1>4, AppendProperties, LoopTypes, FlatLemma DEF TaskRequeues, KeepCancelled, Flat
  <2>5. TypeOK'
    BY <1>4, <2>1, <2>3, <2>4, FlatLemma, FlatNext DEF Kept, IInv, Flat, TaskRequeues
  <2>6. Moves
    BY <2>5, TaskMoves DEF Task
  <2> QED
    BY <1>4, <2>1, <2>5, <2>6, SamplesMove DEF TaskRequeues
<1> QED
  BY <1>1, <1>2, <1>3, <1>4 DEF Task

\* What a put of x does to the queue.
LEMMA PutLemma ==
  ASSUME IInv, NEW x \in Samples \cup {NoSample}, mq' = Enqueue(mq, x, max_required_samples),
         dropped' = dropped + IF IsFull(mq, max_required_samples) THEN 1 ELSE 0
  PROVE  /\ mq' \in Seq(Samples \cup {NoSample}) /\ dropped' \in Nat
         /\ Cardinality(Filled(mq')) <= Cardinality(Filled(mq)) + (IF x = NoSample THEN 0 ELSE 1)
<1>1. /\ mq \in Seq(Samples \cup {NoSample}) /\ dropped \in Nat
      /\ max_required_samples \in Nat \ {0}
  BY Constants, LoopTypes, FlatLemma DEF Flat
<1>2. dropped' \in Nat
  BY <1>1
<1>3. PICK q : q = Enqueue(mq, x, max_required_samples)
  OBVIOUS
<1>4. /\ q \in Seq(Samples \cup {NoSample})
      /\ Cardinality(Filled(q)) <= Cardinality(Filled(mq)) + (IF x = NoSample THEN 0 ELSE 1)
  BY <1>1, <1>3, EnqueueLemma
<1>5. mq' = q
  BY <1>3
<1> QED
  BY <1>2, <1>4, <1>5

LEMMA TaskEventMoves == ASSUME IInv, TypeOK', NEW i \in Samples, TaskEvent(i) PROVE Moves
<1> USE DEF TaskRest, procVars, syncVars, mqVars
<1>1. CASE ServerAnswers(i) \/ QueueAnswers(i)
  <2>1. PICK v \in {"ret", "cut", "ack"} :
          phase' = [phase EXCEPT ![i] = v] /\ (v \in InTask => phase[i] \in InTask)
    BY <1>1 DEF ServerAnswers, QueueAnswers, InTask
  <2> QED
    BY <1>1, <2>1, PhaseMoves, LoopTypes DEF ServerAnswers, QueueAnswers
<1>2. CASE QueuePuts(i)
  <2>1. phase' = [phase EXCEPT ![i] = "stored"] /\ phase[i] \in InTask
    BY <1>2 DEF QueuePuts, InTask
  <2>2. Cardinality(Filled(mq')) <= Cardinality(Filled(mq)) + 1
    <3>1. i # NoSample
      BY Constants DEF NoSample
    <3> QED
      BY <1>2, <3>1, PutLemma DEF QueuePuts
  <2>3. PICK t \in Int : t = Cardinality(Tasks)'
    BY SumsNext
  <2>4. PICK f \in Int : f = Cardinality(Filled(mq))'
    BY SumsNext
  <2>5. t = Cardinality(Tasks) - 1 /\ f <= Cardinality(Filled(mq)) + 1
    <3>1. PICK v : v = "stored" /\ v \notin InTask
      BY DEF InTask
    <3>2. phase' = [phase EXCEPT ![i] = v] /\ phase[i] \in InTask /\ v \notin InTask
      BY <2>1, <3>1
    <3>3. Cardinality(Tasks)' = Cardinality(Tasks) - 1
      BY <3>2, PhaseLemma, LoopTypes
    <3> QED
      BY <2>2, <2>3, <2>4, <3>3
  <2>6. /\ t + Len(cancel_queue) + f + InHand <= Out
        /\ t + Len(cancel_queue) <= Counted
        /\ t + Len(cancel_queue) + f <= InFlight
    BY <2>5, Before, LoopTypes
  <2>7. Becomes(t, Len(cancel_queue), f, InHand)
    BY <1>2, <2>3, <2>4 DEF Becomes, InHand, QueuePuts
  <2> QED
    BY <2>6, <2>7, Before, LoopTypes DEF Moves
<1> QED
  BY <1>1, <1>2 DEF TaskEvent

LEMMA TaskEventKeeps ==
  ASSUME IInv, NEW i \in Samples, TaskEvent(i), UNCHANGED <<tpc, trainerVars>>
  PROVE  IInv'
<1> USE DEF TaskRest, procVars, flagVars, statVars, syncVars, mqVars, serverVars, trainerVars
<1>0. /\ i \in Coroutines \ {sync} /\ ready \in Seq(Coroutines)
      /\ phase \in [Samples -> Live \cup {"idle", "done", "failed"}]
  BY Constants, LoopTypes, FlatLemma DEF Flat
<1>1. CASE ServerAnswers(i) \/ QueueAnswers(i)
  <2>1. Kept
    <3>1. lockQ' = lockQ /\ ready' = Append(ready, i)
      BY <1>1 DEF ServerAnswers, QueueAnswers, Wakes
    <3>2. Append(ready, i) = ready \o <<i>>
      BY <1>0
    <3> QED
      BY <1>0, <3>1, <3>2, LoopLemma
  <2>2. PICK v \in {"ret", "cut", "ack"} :
          phase' = [phase EXCEPT ![i] = v] /\ (v \in InTask => phase[i] \in InTask)
    BY <1>1 DEF ServerAnswers, QueueAnswers, InTask
  <2>3. phase' \in [Samples -> Live \cup {"idle", "done", "failed"}]
    BY <1>0, <2>2 DEF Live
  <2>4. TypeOK'
    BY <1>1, <2>1, <2>3, FlatLemma, FlatNext DEF Kept, IInv, Flat, ServerAnswers, QueueAnswers
  <2>5. Moves
    BY <1>1, <2>4, TaskEventMoves DEF TaskEvent
  <2> QED
    BY <1>1, <2>1, <2>4, <2>5, SamplesMove DEF ServerAnswers, QueueAnswers
<1>2. CASE QueuePuts(i)
  <2>1. Kept
    BY <1>2, LoopLemma DEF QueuePuts
  <2>2. phase' = [phase EXCEPT ![i] = "stored"] /\ phase[i] \in InTask
    BY <1>2 DEF QueuePuts, InTask
  <2>3. phase' \in [Samples -> Live \cup {"idle", "done", "failed"}]
    BY <1>0, <2>2 DEF Live
  <2>4. mq' \in Seq(Samples \cup {NoSample}) /\ dropped' \in Nat
    BY <1>2, PutLemma DEF QueuePuts
  <2>5. TypeOK'
    BY <1>2, <2>1, <2>3, <2>4, FlatLemma, FlatNext DEF Kept, IInv, Flat, QueuePuts
  <2>6. Moves
    BY <1>2, <2>5, TaskEventMoves DEF TaskEvent
  <2> QED
    BY <1>2, <2>1, <2>5, <2>6, SamplesMove DEF QueuePuts
<1> QED
  BY <1>1, <1>2 DEF TaskEvent

-----------------------------------------------------------------------------
(* The calls of the synchronizer *)

\* The call of the synchronizer has run up to its next await.
LEMMA SyncRan ==
  ASSUME IInv, Runs(sync), ready' = Tail(ready), lockQ' = lockQ
  PROVE  Kept /\ ~In(ready', sync)
<1>1. ready # <<>> /\ Head(ready) = sync /\ AtMostOnce(ready, sync) /\ ready \in Seq(Coroutines)
  BY LoopTypes DEF Runs, LoopInv
<1>2. ~In(Tail(ready), sync)
  BY <1>1, Ran
<1> QED
  BY <1>1, <1>2, LoopLemma

LEMMA SyncReleased ==
  ASSUME IInv, Runs(sync), Holds(sync), NEW e \in Seq(Coroutines), ~In(e, sync),
         ReleaseAndSuspend(e)
  PROVE  GivenBack(sync) /\ ~In(ready', sync)
<1>1. ready # <<>> /\ ready \in Seq(Coroutines) /\ sync \in Locking
  BY LoopTypes, Constants DEF Runs
<1>2. PICK b : b = Tail(ready) /\ b # ready
  <2>1. PICK n \in Nat : n = Len(ready)
    BY <1>1, LenProperties
  <2>2. Len(Tail(ready)) = n - 1
    BY <1>1, <2>1, HeadTailProperties
  <2>3. ASSUME Tail(ready) = ready PROVE FALSE
    <3>1. n = n - 1
      BY <2>1, <2>2, <2>3, Zenon
    <3> QED
      BY <3>1
  <2> QED
    BY <2>3
<1>3. ready' = b \o e \o NextWaiter /\ lockQ' = Tail(lockQ)
  BY <1>2 DEF ReleaseAndSuspend
<1>4. /\ LoopInv /\ lockQ \in Seq(Locking)
      /\ b = ready \/ (ready # <<>> /\ b = Tail(ready))
  BY <1>1, <1>2, LoopTypes
<1>5. GivenBack(sync) /\ (Holds(sync) /\ Runs(sync) /\ b # ready => ~In(ready', sync))
  BY <1>1, <1>3, <1>4, ReleaseLemma
<1> QED
  BY <1>2, <1>5

LEMMA SyncEntersKeeps == ASSUME IInv, SyncEnters, UNCHANGED <<tpc, trainerVars>> PROVE IInv'
<1> USE DEF SyncRest, SyncSame, procVars, flagVars, statVars, mqVars, serverVars, trainerVars
<1>1. Asked(sync)
  <2>1. ~In(lockQ, sync) /\ Acquire(sync) /\ Runs(sync) /\ sync \in Locking
    BY Constants DEF IInv, SyncInv, SyncEnters
  <2> QED
    BY <2>1, AcquireLemma, LoopTypes
<1>2. TypeOK'
  BY <1>1, FlatLemma, FlatNext DEF Asked, IInv, Flat, SyncEnters
<1>3. ProcInv' /\ SyncInv'
  BY <1>1, Constants DEF Asked, IInv, ProcInv, SyncInv, SyncEnters
<1>4. Flow
  BY <1>1, SameFlow DEF IInv, SyncEnters
<1> QED
  BY <1>1, <1>2, <1>3, <1>4, FlowLemma DEF IInv, Asked

LEMMA PauseLockedKeeps == ASSUME IInv, PauseLocked, UNCHANGED <<tpc, trainerVars>> PROVE IInv'
<1> USE DEF SyncRest, procVars, statVars, mqVars, serverVars, trainerVars
<1>1. Kept
  BY SyncRan DEF PauseLocked, Suspends
<1>2. TypeOK'
  BY <1>1, FlatLemma, FlatNext DEF Kept, IInv, Flat, PauseLocked
<1>3. ProcInv' /\ SyncInv'
  BY <1>1 DEF Kept, IInv, ProcInv, SyncInv, PauseLocked
<1>4. Flow
  BY <1>1, SameFlow DEF IInv, PauseLocked
<1> QED
  BY <1>1, <1>2, <1>3, <1>4, FlowLemma DEF IInv, Kept

LEMMA PauseGatheredKeeps ==
  ASSUME IInv, PauseGathered, UNCHANGED <<tpc, trainerVars>> PROVE IInv'
<1> USE DEF SyncRest, loopVars, procVars, statVars, mqVars, serverVars, trainerVars
<1>1. Kept
  BY LoopLemma DEF PauseGathered
<1>2. TypeOK'
  BY <1>1, FlatLemma, FlatNext DEF Kept, IInv, Flat, PauseGathered
<1>3. ProcInv' /\ SyncInv'
  BY <1>1 DEF Kept, IInv, ProcInv, SyncInv, PauseGathered
<1>4. Flow
  BY <1>1, SameFlow DEF IInv, PauseGathered
<1> QED
  BY <1>1, <1>2, <1>3, <1>4, FlowLemma DEF IInv, Kept

LEMMA PauseReturnsKeeps == ASSUME IInv, PauseReturns, UNCHANGED <<tpc, trainerVars>> PROVE IInv'
<1> USE DEF SyncRest, procVars, statVars, mqVars, serverVars, trainerVars
<1>1. GivenBack(sync) /\ ~In(ready', sync)
  BY SyncReleased, Others DEF IInv, SyncInv, PauseReturns
<1>2. TypeOK'
  BY <1>1, FlatLemma, FlatNext DEF GivenBack, IInv, Flat, PauseReturns
<1>3. ProcInv' /\ SyncInv'
  BY <1>1, OneHolder, Constants DEF GivenBack, IInv, ProcInv, SyncInv, PauseReturns
<1>4. Flow
  BY <1>1, SameFlow DEF IInv, PauseReturns
<1> QED
  BY <1>1, <1>2, <1>3, <1>4, FlowLemma DEF IInv, GivenBack

\* The partial sum bounds what is in tasks and what was interrupted.
LEMMA OutstandingLemma ==
  ASSUME TypeOK PROVE Outstanding \in Nat /\ Counted <= Outstanding
<1>1. IsFiniteSet(Unfinished) /\ Tasks \subseteq Unfinished
  BY Constants, FS_Subset DEF Unfinished, Tasks, Live
<1>2. Cardinality(Unfinished) \in Nat /\ Cardinality(Tasks) <= Cardinality(Unfinished)
  BY <1>1, FS_Subset, FS_CardinalityType
<1>3. finished \in Nat
  BY FlatLemma DEF Flat
<1> QED
  BY <1>2, <1>3, Before DEF Outstanding, NActive

LEMMA UpdateLockedKeeps == ASSUME IInv, UpdateLocked, UNCHANGED <<tpc, trainerVars>> PROVE IInv'
<1> USE DEF SyncRest, procVars, mqVars, serverVars, trainerVars
<1>1. Kept /\ ~In(ready', sync)
  BY SyncRan DEF UpdateLocked, Suspends
<1>2. ssum' = Outstanding /\ Outstanding \in Nat /\ Counted <= Outstanding
  BY OutstandingLemma, LoopTypes DEF UpdateLocked
<1>3. TypeOK'
  BY <1>1, <1>2, FlatLemma, FlatNext DEF Kept, IInv, Flat, UpdateLocked
<1>4. ProcInv' /\ SyncInv'
  BY <1>1 DEF Kept, IInv, ProcInv, SyncInv, UpdateLocked
<1>5. OutInv'
  <2>1. Out' = Out /\ Counted' = Counted /\ InFlight' = InFlight
    BY DEF UpdateLocked, Out, Counted, InFlight, InHand, Tasks
  <2> QED
    BY <1>1, <1>2, <2>1 DEF IInv, OutInv, UpdateLocked
<1> QED
  BY <1>1, <1>3, <1>4, <1>5 DEF IInv, Kept

\* The reset: whatever happened while the queue's size was awaited, the sum bounds what is
\* out, but for the sample in the processor's hand.
LEMMA UpdateCountedKeeps ==
  ASSUME IInv, UpdateCounted, UNCHANGED <<tpc, trainerVars>> PROVE IInv'
<1> USE DEF SyncRest, procVars, mqVars, serverVars, trainerVars
<1>1. Kept
  BY SyncRan DEF UpdateCounted, Suspends
<1>2. TypeOK'
  BY <1>1, FlatLemma, FlatNext DEF Kept, IInv, Flat, UpdateCounted, Reset
<1>3. ProcInv' /\ SyncInv'
  BY <1>1 DEF Kept, IInv, ProcInv, SyncInv, UpdateCounted
<1>4. OutInv'
  <2>1. Out' = Out /\ staleness_samples' = ssum /\ spc' = "report"
    BY DEF UpdateCounted, Reset, Out, InFlight, InHand
  <2>2. In(ready, sync)
    <3>1. ready # <<>> /\ ready \in Seq(Coroutines) /\ Head(ready) = sync
      BY LoopTypes DEF UpdateCounted, Runs
    <3>2. 1 \in 1..Len(ready) /\ ready[1] = sync
      BY <3>1, EmptySeq, LenProperties
    <3> QED
      BY <3>2 DEF In
  <2>3. InFlight <= ssum /\ ssum \in Nat
    BY <2>2, LoopTypes, FlatLemma DEF IInv, OutInv, Flat, UpdateCounted
  <2>4. Out <= ssum + 1
    BY <2>3, Numbers, LoopTypes DEF Out
  <2> QED
    BY <2>1, <2>4 DEF IInv, OutInv, UpdateCounted
<1> QED
  BY <1>1, <1>2, <1>3, <1>4 DEF IInv, Kept

LEMMA UpdateReturnsKeeps ==
  ASSUME IInv, UpdateReturns, UNCHANGED <<tpc, trainerVars>> PROVE IInv'
<1> USE DEF SyncRest, SyncSame, procVars, statVars, mqVars, serverVars, trainerVars
<1>1. GivenBack(sync)
  BY SyncReleased, Others DEF IInv, SyncInv, UpdateReturns
<1>2. TypeOK'
  BY <1>1, FlatLemma, FlatNext DEF GivenBack, IInv, Flat, UpdateReturns
<1>3. ProcInv' /\ SyncInv'
  BY <1>1, OneHolder, Constants DEF GivenBack, IInv, ProcInv, SyncInv, UpdateReturns
<1>4. Flow
  BY <1>1, SameFlow DEF IInv, UpdateReturns
<1> QED
  BY <1>1, <1>2, <1>3, <1>4, FlowLemma DEF IInv, GivenBack

LEMMA ResumeLockedKeeps ==
  ASSUME IInv, ResumeLocked, UNCHANGED <<tpc, trainerVars>> PROVE IInv'
<1> USE DEF SyncRest, SyncSame, procVars, statVars, mqVars, serverVars, trainerVars
<1>1. Kept
  BY LoopLemma DEF ResumeLocked, Suspends, Goes, Runs
<1>2. TypeOK'
  BY <1>1, FlatLemma, FlatNext DEF Kept, IInv, Flat, ResumeLocked
<1>3. ProcInv' /\ SyncInv'
  BY <1>1 DEF Kept, IInv, ProcInv, SyncInv, ResumeLocked
<1>4. Flow
  BY <1>1, SameFlow DEF IInv, ResumeLocked
<1> QED
  BY <1>1, <1>2, <1>3, <1>4, FlowLemma DEF IInv, Kept

\* notify_all wakes nobody but the processor.
LEMMA NotifiedLemma == Notified \in Seq(Coroutines) /\ ~In(Notified, sync)
<1>1. Notified \in {<<>>, <<processor>>} /\ processor \in Coroutines \ {sync}
  BY Constants DEF Notified
<1> QED
  BY <1>1, Others

LEMMA ResumeReturnsKeeps ==
  ASSUME IInv, ResumeReturns, UNCHANGED <<tpc, trainerVars>> PROVE IInv'
<1> USE DEF SyncRest, procVars, statVars, mqVars, serverVars, trainerVars
<1>1. GivenBack(sync) /\ ~In(ready', sync)
  BY SyncReleased, NotifiedLemma DEF ResumeReturns, ResumeNotifies
<1>2. TypeOK'
  BY <1>1, FlatLemma, FlatNext DEF GivenBack, IInv, Flat, ResumeReturns
<1>3. ProcInv' /\ SyncInv'
  BY <1>1, OneHolder, Constants DEF GivenBack, IInv, ProcInv, SyncInv, ResumeReturns
<1>4. Flow
  BY <1>1, SameFlow DEF IInv, ResumeReturns
<1> QED
  BY <1>1, <1>2, <1>3, <1>4, FlowLemma DEF IInv, GivenBack

LEMMA SyncAnswerKeeps == ASSUME IInv, SyncAnswer, UNCHANGED <<tpc, trainerVars>> PROVE IInv'
<1> USE DEF SyncRest, procVars, statVars, mqVars, trainerVars
<1>1. ~In(ready, sync) /\ lockQ' = lockQ
  BY DEF SyncAnswer, Asleep, In
<1>2. /\ ready' \in Seq(Coroutines) /\ LoopInv'
      /\ \A d : (In(lockQ', d) <=> In(lockQ, d)) /\ (Holds(d)' <=> Holds(d))
  <2>1. CASE spc = "cancel"
    <3>1. Kept
      BY <1>1, <2>1, LoopLemma DEF SyncAnswer
    <3> QED
      BY <3>1 DEF Kept
  <2>2. CASE spc # "cancel"
    <3>1. Wakes(sync) /\ (In(lockQ, sync) => Holds(sync))
      BY <2>2 DEF SyncAnswer, IInv, SyncInv
    <3> QED
      BY <1>1, <3>1, WakeSyncLemma, LoopTypes DEF Holds
  <2> QED
    BY <2>1, <2>2
<1>3. ssum' \in Nat /\ serverPaused' \in BOOLEAN /\ Len(mq) \in Nat
  <2>1. ssum \in Nat /\ serverPaused \in BOOLEAN /\ Len(mq) \in Nat
    BY LoopTypes, FlatLemma, Numbers DEF Flat
  <2>2. ssum' \in Nat
    BY <2>1 DEF SyncAnswer, QueueSize
  <2>3. serverPaused' \in {TRUE, FALSE, serverPaused}
    BY DEF SyncAnswer
  <2> QED
    BY <2>1, <2>2, <2>3
<1>4. TypeOK'
  BY <1>1, <1>2, <1>3, FlatLemma, FlatNext DEF IInv, Flat, SyncAnswer
<1>5. ProcInv' /\ SyncInv'
  <2>1. /\ spc \in {"cancel", "kv", "size", "report", "resume", "server"}
        /\ spc' = IF spc = "cancel" THEN "gather" ELSE spc
    BY DEF SyncAnswer
  <2>2. UNCHANGED <<ppc, goal, hand, mpc, epc, tpc>>
    BY DEF SyncAnswer
  <2> QED
    BY <1>1, <1>2, <2>1, <2>2 DEF IInv, ProcInv, SyncInv
<1>6. OutInv'
  <2>1. Out' = Out /\ Counted' = Counted /\ InFlight' = InFlight
    BY DEF SyncAnswer, Out, Counted, InFlight, InHand, Tasks
  <2>2. spc' = "size" => Counted <= ssum' /\ InFlight <= ssum'
    <3>1. spc' = "size" => spc = "size" /\ ssum' = ssum + Len(mq)
      BY DEF SyncAnswer, QueueSize
    <3>2. InFlight <= Counted + Len(mq) /\ Counted \in Nat /\ InFlight \in Nat /\ ssum \in Nat
      <4>1. /\ InFlight = Counted + Cardinality(Filled(mq)) /\ Counted \in Nat /\ Len(mq) \in Nat
            /\ Cardinality(Filled(mq)) <= Len(mq) /\ Cardinality(Filled(mq)) \in Nat
        BY Numbers, LoopTypes
      <4>2. ssum \in Nat
        BY LoopTypes, FlatLemma DEF Flat
      <4> QED
        BY <4>1, <4>2
    <3>3. spc = "size" => Counted <= ssum
      BY DEF IInv, OutInv
    <3> QED
      BY <1>3, <3>1, <3>2, <3>3
  <2> QED
    BY <2>1, <2>2 DEF IInv, OutInv, SyncAnswer
<1> QED
  BY <1>2, <1>4, <1>5, <1>6 DEF IInv

-----------------------------------------------------------------------------
(* The monitor and the end of the rollouter *)

LEMMA MonitorTimerKeeps ==
  ASSUME IInv, MonitorTimer, UNCHANGED <<tpc, trainerVars>> PROVE IInv'
<1> USE DEF MonitorRest, procVars, taskVars, statVars, syncVars, mqVars, serverVars, trainerVars
<1>1. Kept
  <2>1. /\ monitor \in Coroutines \ {sync} /\ ready \in Seq(Coroutines)
        /\ lockQ' = lockQ /\ ready' = Append(ready, monitor)
    BY Constants, LoopTypes DEF MonitorTimer, Wakes
  <2>2. ready' = ready \o <<monitor>>
    BY <2>1
  <2> QED
    BY <2>1, <2>2, LoopLemma
<1>2. TypeOK'
  BY <1>1, FlatLemma, FlatNext DEF Kept, IInv, Flat, MonitorTimer
<1>3. ProcInv' /\ SyncInv'
  BY <1>1 DEF Kept, IInv, ProcInv, SyncInv, MonitorTimer
<1>4. Flow
  BY <1>1, SameFlow DEF Kept, IInv, MonitorTimer
<1> QED
  BY <1>1, <1>2, <1>3, <1>4, FlowLemma DEF IInv, Kept

LEMMA MonitorChecksKeeps ==
  ASSUME IInv, MonitorChecks, UNCHANGED <<tpc, trainerVars>> PROVE IInv'
<1> USE DEF MonitorRest, procVars, taskVars, statVars, syncVars, mqVars, serverVars, trainerVars
<1>1. CASE mpc' = "unpause" /\ Acquire(monitor)
  <2>1. Asked(monitor)
    <3>1. ~In(lockQ, monitor) /\ Runs(monitor) /\ monitor \in Locking
      BY Constants DEF IInv, ProcInv, MonitorChecks
    <3> QED
      BY <1>1, <3>1, AcquireLemma, LoopTypes
  <2>2. TypeOK'
    BY <1>1, <2>1, FlatLemma, FlatNext DEF Asked, IInv, Flat, MonitorChecks
  <2>3. ProcInv' /\ SyncInv'
    BY <1>1, <2>1, Constants DEF Asked, IInv, ProcInv, SyncInv, MonitorChecks
  <2>4. Flow
    BY <2>1, SameFlow DEF Asked, IInv, MonitorChecks
  <2> QED
    BY <2>1, <2>2, <2>3, <2>4, FlowLemma DEF IInv, Asked
<1>2. CASE Suspends /\ UNCHANGED <<mpc, lockQ>>
  <2>1. Kept
    BY <1>2, LoopLemma DEF MonitorChecks, Suspends, Runs
  <2>2. TypeOK'
    BY <1>2, <2>1, FlatLemma, FlatNext DEF Kept, IInv, Flat, MonitorChecks
  <2>3. ProcInv' /\ SyncInv'
    BY <1>2, <2>1 DEF Kept, IInv, ProcInv, SyncInv, MonitorChecks
  <2>4. Flow
    BY <2>1, SameFlow DEF Kept, IInv, MonitorChecks
  <2> QED
    BY <2>1, <2>2, <2>3, <2>4, FlowLemma DEF IInv, Kept
<1> QED
  BY <1>1, <1>2 DEF MonitorChecks

LEMMA MonitorUnpausesKeeps ==
  ASSUME IInv, MonitorUnpauses, UNCHANGED <<tpc, trainerVars>> PROVE IInv'
<1> USE DEF MonitorRest, procVars, taskVars, statVars, syncVars, mqVars, serverVars, trainerVars
<1>1. GivenBack(monitor)
  <2>1. /\ lockQ' = Tail(lockQ) /\ Holds(monitor) /\ ready # <<>> /\ monitor \in Locking
        /\ ready' = Tail(ready) \o Notified \o NextWaiter
    BY Constants DEF MonitorUnpauses, ReleaseAndSuspend, Runs
  <2> QED
    BY <2>1, ReleaseLemma, NotifiedLemma, LoopTypes
<1>2. TypeOK'
  BY <1>1, FlatLemma, FlatNext DEF GivenBack, IInv, Flat, MonitorUnpauses
<1>3. ProcInv' /\ SyncInv'
  BY <1>1, OneHolder, Constants DEF GivenBack, IInv, ProcInv, SyncInv, MonitorUnpauses
<1>4. Flow
  BY <1>1, OneHolder, SameFlow, Constants DEF GivenBack, IInv, SyncInv, MonitorUnpauses
<1> QED
  BY <1>1, <1>2, <1>3, <1>4, FlowLemma DEF IInv, GivenBack

LEMMA MainCallsKeeps == ASSUME IInv, MainCalls, UNCHANGED <<tpc, trainerVars>> PROVE IInv'
<1> USE DEF MainRest, procVars, taskVars, statVars, syncVars, mqVars, serverVars, trainerVars
<1>1. Kept
  BY LoopLemma DEF MainCalls, Suspends, Runs
<1>2. TypeOK'
  BY <1>1, FlatLemma, FlatNext DEF Kept, IInv, Flat, MainCalls
<1>3. ProcInv' /\ SyncInv'
  BY <1>1 DEF Kept, IInv, ProcInv, SyncInv, MainCalls
<1>4. Flow
  BY <1>1, SameFlow DEF Kept, IInv, MainCalls
<1> QED
  BY <1>1, <1>2, <1>3, <1>4, FlowLemma DEF IInv, Kept

LEMMA NoneMoves == ASSUME IInv, TypeOK', MainNonePut PROVE Moves
<1> USE DEF MainRest, procVars, taskVars, syncVars
<1>1. PICK f \in Int : f = Cardinality(Filled(mq))'
  BY SumsNext
<1>2. f <= Cardinality(Filled(mq))
  BY <1>1, PutLemma, Before, LoopTypes DEF MainNonePut
<1>3. /\ Cardinality(Tasks) + Len(cancel_queue) + f + InHand <= Out
      /\ Cardinality(Tasks) + Len(cancel_queue) <= Counted
      /\ Cardinality(Tasks) + Len(cancel_queue) + f <= InFlight
  BY <1>2, Before, LoopTypes
<1>4. Becomes(Cardinality(Tasks), Len(cancel_queue), f, InHand)
  BY <1>1 DEF Becomes, InHand, Tasks, MainNonePut
<1> QED
  BY <1>3, <1>4, Before, LoopTypes DEF Moves

LEMMA MainNonePutKeeps == ASSUME IInv, MainNonePut, UNCHANGED <<tpc, trainerVars>> PROVE IInv'
<1> USE DEF MainRest, procVars, taskVars, statVars, syncVars, serverVars, trainerVars
<1>1. Kept
  <2>1. /\ main \in Coroutines \ {sync} /\ ready \in Seq(Coroutines)
        /\ lockQ' = lockQ /\ ready' = Append(ready, main)
    BY Constants, LoopTypes DEF MainNonePut, Wakes
  <2>2. ready' = ready \o <<main>>
    BY <2>1
  <2> QED
    BY <2>1, <2>2, LoopLemma
<1>2. mq' \in Seq(Samples \cup {NoSample}) /\ dropped' \in Nat
  BY PutLemma DEF MainNonePut
<1>3. TypeOK'
  BY <1>1, <1>2, FlatLemma, FlatNext DEF Kept, IInv, Flat, MainNonePut
<1>4. ProcInv' /\ SyncInv'
  BY <1>1 DEF Kept, IInv, ProcInv, SyncInv, MainNonePut
<1>5. Flow
  BY <1>1, <1>3, NoneMoves, MoveFlow, LoopTypes DEF Kept, MainNonePut
<1> QED
  BY <1>1, <1>3, <1>4, <1>5, FlowLemma DEF IInv, Kept

LEMMA MainAsksLockKeeps ==
  ASSUME IInv, MainAsksLock, UNCHANGED <<tpc, trainerVars>> PROVE IInv'
<1> USE DEF MainRest, procVars, taskVars, statVars, syncVars, mqVars, serverVars, trainerVars
<1>1. Asked(main)
  <2>1. ~In(lockQ, main) /\ Acquire(main) /\ Runs(main) /\ main \in Locking
    BY Constants DEF IInv, ProcInv, MainAsksLock
  <2> QED
    BY <2>1, AcquireLemma, LoopTypes
<1>2. TypeOK'
  BY <1>1, FlatLemma, FlatNext DEF Asked, IInv, Flat, MainAsksLock
<1>3. ProcInv' /\ SyncInv'
  BY <1>1, Constants DEF Asked, IInv, ProcInv, SyncInv, MainAsksLock
<1>4. Flow
  BY <1>1, SameFlow DEF Asked, IInv, MainAsksLock
<1> QED
  BY <1>1, <1>2, <1>3, <1>4, FlowLemma DEF IInv, Asked

LEMMA MainStopsKeeps == ASSUME IInv, MainStops, UNCHANGED <<tpc, trainerVars>> PROVE IInv'
<1> USE DEF MainRest, procVars, taskVars, statVars, syncVars, mqVars, serverVars, trainerVars
<1>1. GivenBack(main)
  <2>1. /\ lockQ' = Tail(lockQ) /\ Holds(main) /\ ready # <<>> /\ main \in Locking
        /\ ready' = Tail(ready) \o <<>> \o NextWaiter
    BY Constants DEF MainStops, ReleaseAndSuspend, Runs
  <2> QED
    BY <2>1, ReleaseLemma, Others, LoopTypes
<1>2. TypeOK'
  BY <1>1, FlatLemma, FlatNext DEF GivenBack, IInv, Flat, MainStops
<1>3. ProcInv' /\ SyncInv'
  BY <1>1, OneHolder, Constants DEF GivenBack, IInv, ProcInv, SyncInv, MainStops
<1>4. Flow
  BY <1>1, OneHolder, SameFlow, Constants DEF GivenBack, IInv, SyncInv, MainStops
<1> QED
  BY <1>1, <1>2, <1>3, <1>4, FlowLemma DEF IInv, GivenBack

-----------------------------------------------------------------------------
(* The trainer *)

LEMMA CollectMoves == ASSUME IInv, TypeOK', Collect PROVE Moves
<1> USE DEF RollouterRest, procVars, taskVars, statVars
<1>1. PICK f \in Int : f = Cardinality(Filled(mq))'
  BY SumsNext
<1>2. f <= Cardinality(Filled(mq))
  <2>1. mq \in Seq(Samples \cup {NoSample}) /\ mq # <<>> /\ mq' = Tail(mq)
    BY LoopTypes, FlatLemma DEF Flat, Collect
  <2> QED
    BY <1>1, <2>1, FilledTail
<1>3. /\ Cardinality(Tasks) + Len(cancel_queue) + f + InHand <= Out
      /\ Cardinality(Tasks) + Len(cancel_queue) <= Counted
      /\ Cardinality(Tasks) + Len(cancel_queue) + f <= InFlight
  BY <1>2, Before, LoopTypes
<1>4. Becomes(Cardinality(Tasks), Len(cancel_queue), f, InHand)
  BY <1>1 DEF Becomes, InHand, Tasks, Collect
<1> QED
  BY <1>3, <1>4, Before, LoopTypes DEF Moves

\* What the trainer chain leaves alone in the rollouter is what the invariant speaks of.
LEMMA CollectKeeps == ASSUME IInv, Collect PROVE IInv'
<1> USE DEF RollouterRest, procVars, taskVars, flagVars, statVars, serverVars
<1>1. Kept
  BY LoopLemma DEF Collect
<1>2. /\ mq' \in Seq(Samples \cup {NoSample}) /\ buf' \in Seq(Samples)
      /\ Cardinality(Filled(mq')) <= Cardinality(Filled(mq))
  <2>1. mq \in Seq(Samples \cup {NoSample}) /\ mq # <<>> /\ buf \in Seq(Samples)
    BY LoopTypes, FlatLemma DEF Flat, Collect
  <2>2. /\ Tail(mq) \in Seq(Samples \cup {NoSample})
        /\ Cardinality(Filled(Tail(mq))) <= Cardinality(Filled(mq))
    BY <2>1, FilledTail
  <2>3. Head(mq) # NoSample => Head(mq) \in Samples
    BY <2>1, HeadTailProperties
  <2>4. mq' = Tail(mq) /\ buf' \in Seq(Samples)
    <3>1. CASE Head(mq) = NoSample
      BY <2>1, <3>1 DEF Collect
    <3>2. CASE Head(mq) # NoSample
      <4>1. Append(buf, Head(mq)) \in Seq(Samples)
        BY <2>1, <2>3, <3>2, AppendProperties
      <4> QED
        BY <3>2, <4>1 DEF Collect
    <3> QED
      BY <3>1, <3>2
  <2> QED
    BY <2>2, <2>4
<1>3. TypeOK'
  BY <1>1, <1>2, FlatLemma, FlatNext DEF Kept, IInv, Flat, Collect
<1>4. ProcInv' /\ SyncInv'
  BY <1>1 DEF Kept, IInv, ProcInv, SyncInv, Collect
<1>5. Flow
  BY <1>1, <1>3, CollectMoves, MoveFlow, LoopTypes DEF Kept, Collect
<1> QED
  BY <1>1, <1>3, <1>4, <1>5, FlowLemma DEF IInv, Kept

\* A step of the trainer that leaves the rollouter alone.
LEMMA TrainerAlone ==
  ASSUME IInv, TypeOK', UNCHANGED rollouterVars, tpc' # "weights" \/ spc = "paused"
  PROVE  IInv'
<1> USE DEF rollouterVars, loopVars, procVars, taskVars, flagVars, statVars, syncVars, mqVars,
            serverVars
<1>1. Kept
  BY LoopLemma
<1>2. ProcInv' /\ SyncInv'
  BY <1>1 DEF Kept, IInv, ProcInv, SyncInv
<1>3. Flow
  BY <1>1, SameFlow DEF Kept, IInv
<1> QED
  BY <1>1, <1>2, <1>3, FlowLemma DEF IInv, Kept

LEMMA TrainKeeps == ASSUME IInv, Train PROVE IInv'
<1> USE DEF rollouterVars, loopVars, procVars, taskVars, flagVars, statVars, syncVars, mqVars,
            serverVars
<1>1. /\ buf' \in Seq(Samples) /\ trained' \in SUBSET Samples /\ tver' \in Nat
      /\ local_trigger_step' \in 1..Trigger /\ tpc' \in {"wait", "collect"}
  <2>1. /\ buf \in Seq(Samples) /\ trained \in SUBSET Samples /\ tver \in Nat
        /\ local_trigger_step \in 1..Trigger /\ Trigger \in Nat \ {0}
    BY LoopTypes, FlatLemma, RollouterAssumption DEF Flat
  <2>2. \A k \in 1..Len(buf) : buf[k] \in Samples
    BY <2>1, ElementOfSeq
  <2>3. buf' \in Seq(Samples) /\ trained' \in SUBSET Samples
    BY <2>1, <2>2 DEF Train
  <2>4. CASE SyncDue
    BY <2>1, <2>3, <2>4 DEF Train
  <2>5. CASE ~SyncDue
    <3>1. local_trigger_step + 1 \in 1..Trigger
      BY <2>1, <2>5 DEF SyncDue
    <3> QED
      BY <2>1, <2>3, <2>5, <3>1 DEF Train
  <2> QED
    BY <2>4, <2>5
<1>2. TypeOK'
  BY <1>1, FlatLemma, FlatNext DEF IInv, Flat, Train
<1> QED
  BY <1>1, <1>2, TrainerAlone DEF Train

LEMMA TransferBeginsKeeps == ASSUME IInv, TransferBegins PROVE IInv'
<1> USE DEF rollouterVars, loopVars, procVars, taskVars, flagVars, statVars, syncVars, mqVars,
            serverVars, trainerVars
<1>1. TypeOK'
  BY FlatLemma, FlatNext DEF IInv, Flat, TransferBegins
<1> QED
  BY <1>1, TrainerAlone DEF TransferBegins

LEMMA LastBatchDoneKeeps == ASSUME IInv, LastBatchDone PROVE IInv'
<1> USE DEF rollouterVars, loopVars, procVars, taskVars, flagVars, statVars, syncVars, mqVars,
            serverVars
<1>1. /\ tver' \in Nat /\ local_trigger_step' \in 1..Trigger /\ final' \in BOOLEAN
      /\ tpc' \in {"wait", "done"}
  <2>1. /\ tver \in Nat /\ final \in BOOLEAN
        /\ local_trigger_step \in 1..Trigger /\ Trigger \in Nat \ {0}
    BY LoopTypes, FlatLemma, RollouterAssumption DEF Flat
  <2>2. \/ tver' = tver + 1 /\ local_trigger_step' = 1 /\ final' = TRUE /\ tpc' = "wait"
        \/ tpc' = "done" /\ UNCHANGED <<local_trigger_step, tver, final>>
    BY DEF LastBatchDone
  <2>3. tver + 1 \in Nat /\ 1 \in 1..Trigger
    BY <2>1
  <2>4. CASE tver' = tver + 1 /\ local_trigger_step' = 1 /\ final' = TRUE /\ tpc' = "wait"
    BY <2>3, <2>4
  <2>5. CASE tpc' = "done" /\ UNCHANGED <<local_trigger_step, tver, final>>
    BY <2>1, <2>5
  <2> QED
    BY <2>2, <2>4, <2>5
<1>2. TypeOK'
  BY <1>1, FlatLemma, FlatNext DEF IInv, Flat, LastBatchDone
<1> QED
  BY <1>1, <1>2, TrainerAlone DEF LastBatchDone

LEMMA FitEndsKeeps == ASSUME IInv, FitEnds PROVE IInv'
<1> USE DEF rollouterVars, loopVars, procVars, taskVars, flagVars, statVars, syncVars, mqVars,
            serverVars, trainerVars
<1>1. TypeOK'
  BY FlatLemma, FlatNext DEF IInv, Flat, FitEnds
<1> QED
  BY <1>1, TrainerAlone DEF FitEnds

\* The two steps that call the rollouter: no call of the synchronizer is left over.
LEMMA SyncWeightsKeeps == ASSUME IInv, SyncWeights PROVE IInv'
<1> USE DEF RollouterRest, procVars, taskVars, flagVars, statVars, serverVars, trainerVars
<1>1. ~In(ready, sync) /\ ~In(lockQ, sync) /\ spc' = "pause" /\ tpc' = "pause"
  BY DEF IInv, SyncInv, SyncWeights, LastSyncDone
<1>2. /\ ready' \in Seq(Coroutines) /\ LoopInv'
      /\ \A d : (In(lockQ', d) <=> In(lockQ, d)) /\ (Holds(d)' <=> Holds(d))
  BY <1>1, WakeSyncLemma, LoopTypes DEF SyncWeights, Holds
<1>3. TypeOK'
  BY <1>2, FlatLemma, FlatNext DEF IInv, Flat, SyncWeights
<1>4. ProcInv' /\ SyncInv'
  BY <1>1, <1>2 DEF IInv, ProcInv, SyncInv, SyncWeights
<1>5. Flow
  BY <1>1, SameFlow DEF IInv, SyncWeights
<1> QED
  BY <1>2, <1>3, <1>4, <1>5, FlowLemma DEF IInv

LEMMA TransferEndsKeeps == ASSUME IInv, TransferEnds PROVE IInv'
<1> USE DEF RollouterRest, procVars, taskVars, flagVars, statVars, trainerVars
<1>1. ~In(ready, sync) /\ ~In(lockQ, sync) /\ spc' = "update" /\ tpc' \in {"finwait", "collect"}
  BY DEF IInv, SyncInv, TransferEnds
<1>2. /\ ready' \in Seq(Coroutines) /\ LoopInv'
      /\ \A d : (In(lockQ', d) <=> In(lockQ, d)) /\ (Holds(d)' <=> Holds(d))
  BY <1>1, WakeSyncLemma, LoopTypes DEF TransferEnds, Holds
<1>3. TypeOK'
  BY <1>1, <1>2, FlatLemma, FlatNext DEF IInv, Flat, TransferEnds, Loaded
<1>4. ProcInv' /\ SyncInv'
  BY <1>1, <1>2 DEF IInv, ProcInv, SyncInv, TransferEnds
<1>5. Flow
  BY <1>1, SameFlow DEF IInv, TransferEnds
<1> QED
  BY <1>2, <1>3, <1>4, <1>5, FlowLemma DEF IInv

-----------------------------------------------------------------------------
(* Every step *)

LEMMA LoopStepKeeps == ASSUME IInv, LoopStep, UNCHANGED <<tpc, trainerVars>> PROVE IInv'
<1>1. CASE Feed
  BY <1>1, FeedKeeps
<1>2. CASE Processor
  BY <1>2, ProcTopKeeps, ProcSetPauseKeeps, ProcTakeCancelledKeeps, ProcTakePendingKeeps,
     ProcGetWaitsKeeps, ProcDrainKeeps, ProcAwaitKeeps, WaitReturnsKeeps, ProcCollectKeeps,
     ProcConditionKeeps, ProcWokenKeeps DEF Processor
<1>3. CASE Sync
  BY <1>3, SyncEntersKeeps, PauseLockedKeeps, PauseReturnsKeeps, UpdateLockedKeeps,
     UpdateCountedKeeps, UpdateReturnsKeeps, ResumeLockedKeeps, ResumeReturnsKeeps DEF Sync
<1>4. CASE MonitorChecks \/ MonitorUnpauses
  BY <1>4, MonitorChecksKeeps, MonitorUnpausesKeeps
<1>5. CASE MainCalls \/ MainAsksLock \/ MainStops
  BY <1>5, MainCallsKeeps, MainAsksLockKeeps, MainStopsKeeps
<1>6. CASE \E i \in Samples : Task(i)
  BY <1>6, TaskKeeps
<1> QED
  BY <1>1, <1>2, <1>3, <1>4, <1>5, <1>6 DEF LoopStep

LEMMA NextKeeps == IInv /\ [Next]_vars => IInv'
<1> SUFFICES ASSUME IInv, [Next]_vars PROVE IInv'
  OBVIOUS
<1>1. CASE LoopStep /\ UNCHANGED <<tpc, trainerVars>>
  BY <1>1, LoopStepKeeps
<1>2. CASE Event /\ UNCHANGED <<tpc, trainerVars>>
  BY <1>2, PauseGatheredKeeps, SyncAnswerKeeps, MonitorTimerKeeps, MainNonePutKeeps,
     TaskEventKeeps DEF Event
<1>3. CASE TrainerNext
  BY <1>3, CollectKeeps, TrainKeeps, SyncWeightsKeeps, TransferBeginsKeeps, TransferEndsKeeps,
     LastBatchDoneKeeps, FitEndsKeeps DEF TrainerNext
<1>4. CASE UNCHANGED vars
  <2>0. Flat
    BY FlatLemma DEF IInv
  <2>1. TypeOK' /\ UNCHANGED rollouterVars /\ UNCHANGED tpc
    BY ONLY <1>4, <2>0, FlatNext
       DEF Flat, vars, rollouterVars, loopVars, procVars, taskVars, flagVars, statVars,
           syncVars, mqVars, serverVars, trainerVars
  <2> QED
    BY <2>1, TrainerAlone DEF IInv, SyncInv
<1> QED
  BY <1>1, <1>2, <1>3, <1>4 DEF Next

THEOREM Invariance == Spec => []IInv
<1>1. Init => IInv
  BY InitIInv
<1>2. IInv /\ [Next]_vars => IInv'
  BY NextKeeps
<1> QED
  BY <1>1, <1>2, PTL DEF Spec

\* Every variable keeps its type, in every mode and for every size.
THEOREM TypeCorrect == Spec => []TypeOK
<1>1. IInv => TypeOK
  BY DEF IInv
<1> QED
  BY <1>1, Invariance, PTL

\* The freshness control: whatever the order of the coroutines, of the answers and of the
\* calls of the synchronizer, never more than one sample over the limit is out.
THEOREM FreshnessHolds == Spec => []FreshnessControl
<1>1. IInv => FreshnessControl
  BY DEF IInv, OutInv, FreshnessControl, Out, InHand
<1> QED
  BY <1>1, Invariance, PTL

-----------------------------------------------------------------------------
(* Where the samples are *)

Elems(q) == {q[k] : k \in 1..Len(q)}

\* Samples that were put: in the queue, in a batch or trained, unless the queue dropped them.
Settled == {"stored", "ack", "done"}
Lost == {i \in Samples :
           phase[i] \in Settled /\ i \notin Elems(mq) \cup Elems(buf) \cup trained}

\* The processor has a sample in hand only between taking and submitting it, or for ever
\* when it dies in between.
HandInv ==
  hand \in Samples =>
    goal = "limit" /\ ppc \in {"drain", "await", "waiting", "condlock", "cwait", "dead"}

\* A sample has no task when it has not been taken, is in hand or is interrupted, and one
\* that is in the queue, in the batch or trained has been put; nothing is there twice; what
\* was put and is nowhere is as much as the queue counted, until the final None is put.
PlaceInv ==
  /\ Distinct(cancel_queue) /\ Distinct(mq) /\ Distinct(buf)
  /\ hand \notin Elems(cancel_queue) /\ (epc \in {"run", "put"} => NoSample \notin Elems(mq))
  /\ Elems(mq) \cap Elems(buf) = {} /\ (Elems(mq) \cup Elems(buf)) \cap trained = {}
  /\ \A i \in Samples :
       phase[i] = "idle" <=> i > taken \/ hand = i \/ i \in Elems(cancel_queue)
  /\ \A i \in Samples : hand = i \/ i \in Elems(cancel_queue) => i <= taken
  /\ \A i \in Samples : i \in Elems(mq) \cup Elems(buf) \cup trained => phase[i] \in Settled
  /\ epc = "run" => Cardinality(Lost) = dropped
  /\ Len(mq) <= max_required_samples

LEMMA ElemsLemma ==
  ASSUME NEW S, NEW q \in Seq(S)
  PROVE  /\ Elems(q) \subseteq S /\ Elems(<<>>) = {} /\ Distinct(<<>>)
         /\ \A x \in Elems(q) : \E k \in 1..Len(q) : q[k] = x
BY ElementOfSeq DEF Elems, Distinct

\* Putting at the end and taking from the front, where nothing is twice.
LEMMA ElemsAppend ==
  ASSUME NEW S, NEW q \in Seq(S), NEW c \in S, Distinct(q), c \notin Elems(q)
  PROVE  Elems(Append(q, c)) = Elems(q) \cup {c} /\ Distinct(Append(q, c))
<1>1. /\ Len(Append(q, c)) = Len(q) + 1 /\ Len(q) \in Nat
      /\ \A k \in 1..Len(q) : Append(q, c)[k] = q[k]
      /\ Append(q, c)[Len(q) + 1] = c
  BY AppendProperties, LenProperties
<1>2. Distinct(Append(q, c))
  BY AppendLock DEF In, Elems
<1>3. Elems(Append(q, c)) = Elems(q) \cup {c}
  BY <1>1 DEF Elems
<1> QED
  BY <1>2, <1>3

LEMMA ElemsTail ==
  ASSUME NEW S, NEW q \in Seq(S), q # <<>>, Distinct(q)
  PROVE  /\ Tail(q) \in Seq(S) /\ Head(q) \in S /\ Head(q) \in Elems(q)
         /\ Elems(Tail(q)) = Elems(q) \ {Head(q)} /\ Distinct(Tail(q))
<1>1. /\ Tail(q) \in Seq(S) /\ Len(Tail(q)) = Len(q) - 1 /\ Head(q) \in S
      /\ \A k \in 1..Len(Tail(q)) : Tail(q)[k] = q[k + 1]
  BY HeadTailProperties
<1>2. Len(q) \in Nat /\ Len(q) > 0 /\ Head(q) = q[1]
  BY EmptySeq, LenProperties
<1>3. Distinct(Tail(q))
  BY TailLock
<1>4. Head(q) \in Elems(q)
  BY <1>2 DEF Elems
<1>5. ASSUME NEW x \in Elems(Tail(q)) PROVE x \in Elems(q) /\ x # Head(q)
  <2>1. PICK k \in 1..Len(Tail(q)) : Tail(q)[k] = x
    BY <1>5 DEF Elems
  <2>2. k + 1 \in 1..Len(q) /\ q[k + 1] = x /\ 1 \in 1..Len(q) /\ k + 1 # 1
    BY <2>1, <1>1, <1>2
  <2> QED
    BY <2>2, <1>2 DEF Elems, Distinct
<1>6. ASSUME NEW x \in Elems(q), x # Head(q) PROVE x \in Elems(Tail(q))
  <2>1. PICK k \in 1..Len(q) : q[k] = x
    BY <1>6 DEF Elems
  <2>2. k - 1 \in 1..Len(Tail(q)) /\ Tail(q)[k - 1] = x
    BY <2>1, <1>1, <1>2, <1>6
  <2> QED
    BY <2>2 DEF Elems
<1> QED
  BY <1>1, <1>3, <1>4, <1>5, <1>6

LEMMA LostLemma == IsFiniteSet(Lost) /\ Cardinality(Lost) \in Nat
<1>1. Lost \in SUBSET Samples /\ IsFiniteSet(Samples)
  BY Constants DEF Lost
<1> QED
  BY <1>1, FS_Subset, FS_CardinalityType

LEMMA PlaceInit == Init => HandInv /\ PlaceInv
<1> SUFFICES ASSUME Init PROVE HandInv /\ PlaceInv
  OBVIOUS
<1>1. /\ cancel_queue = <<>> /\ mq = <<>> /\ buf = <<>> /\ hand = NoSample /\ trained = {}
      /\ taken = 0 /\ dropped = 0 /\ \A i \in Samples : phase[i] = "idle"
  BY DEF Init, RollouterInit
<1>2. NoSample \notin Samples /\ \A i \in Samples : i > 0
  BY Constants DEF NoSample
<1>3. Elems(<<>>) = {} /\ Distinct(<<>>)
  BY DEF Elems, Distinct
<1>4. Lost = {}
  BY <1>1 DEF Lost, Settled
<1>5. Cardinality(Lost) = 0
  BY <1>4, FS_EmptySet
<1>6. Len(mq) <= max_required_samples
  BY <1>1, Constants
<1> QED
  BY <1>1, <1>2, <1>3, <1>5, <1>6 DEF HandInv, PlaceInv

\* A step that moves no sample.
LEMMA NothingMoves ==
  ASSUME PlaceInv, UNCHANGED <<cancel_queue, mq, buf, hand, trained, taken, dropped, phase>>,
         epc' = "run" => epc = "run", epc' = "put" => epc \in {"run", "put"}
  PROVE  PlaceInv'
<1>1. Lost' = Lost
  BY DEF Lost
<1> QED
  BY <1>1 DEF PlaceInv

\* What the invariants say where they apply.
LEMMA Placed ==
  ASSUME IInv
  PROVE  /\ cancel_queue \in Seq(Samples) /\ mq \in Seq(Samples \cup {NoSample})
         /\ buf \in Seq(Samples) /\ trained \subseteq Samples /\ taken \in 0..DONE /\ hand \in 0..DONE
         /\ DOMAIN phase = Samples
         /\ phase \in [Samples -> Live \cup {"idle", "done", "failed"}]
         /\ dropped \in Nat /\ NoSample \notin Samples /\ DONE \notin Samples /\ DONE \in Nat
         /\ Samples \subseteq Nat \ {0}
<1>1. Flat
  BY FlatLemma DEF IInv
<1>2. NoSample \notin Samples /\ Samples \subseteq Nat \ {0} /\ TotalSamples \in Nat \ {0}
  BY Constants DEF NoSample
<1>3. DONE \notin Samples /\ DONE \in Nat
  BY <1>2 DEF DONE, Samples
<1> QED
  BY <1>1, <1>2, <1>3 DEF Flat

-----------------------------------------------------------------------------
(* Steps that move samples *)

\* The task of sample i goes from one phase to another and moves nothing.
Turns(i, from, to) ==
  /\ phase[i] = from /\ phase' = [phase EXCEPT ![i] = to]
  /\ UNCHANGED <<cancel_queue, mq, buf, hand, trained, taken, dropped, epc>>

LEMMA TurnsPlaces ==
  ASSUME IInv, PlaceInv, NEW i \in Samples, NEW from, NEW to, Turns(i, from, to),
         \/ from \in {"new", "gen", "ret"} /\ to \in {"gen", "ret", "cut", "put", "failed"}
         \/ from \in {"stored", "ack"} /\ to \in {"ack", "done"}
  PROVE  PlaceInv'
<1>1. \A j \in Samples : phase'[j] = IF j = i THEN to ELSE phase[j]
  BY Placed DEF Turns
<1>2. phase[i] # "idle" /\ to # "idle" /\ (phase[i] \in Settled <=> to \in Settled)
  BY DEF Turns, Settled
<1>3. Lost' = Lost
  BY <1>1, <1>2 DEF Lost, Turns
<1>4. \A j \in Samples : j \in Elems(mq) \cup Elems(buf) \cup trained => phase'[j] \in Settled
  BY <1>1, <1>2 DEF PlaceInv
<1>5. \A j \in Samples : phase'[j] = "idle" <=>
        j > taken \/ hand = j \/ j \in Elems(cancel_queue)
  BY <1>1, <1>2 DEF PlaceInv
<1> QED
  BY <1>3, <1>4, <1>5 DEF PlaceInv, Turns

LEMMA TakeCancelledPlaces ==
  ASSUME IInv, HandInv, PlaceInv, ProcTakeCancelled, UNCHANGED <<tpc, trainerVars>>
  PROVE  PlaceInv'
<1> USE DEF taskVars, mqVars, trainerVars
<1>1. /\ hand' = Head(cancel_queue) /\ cancel_queue' = Tail(cancel_queue) /\ cancel_queue # <<>>
      /\ UNCHANGED <<mq, buf, trained, taken, dropped, phase, epc>>
      /\ hand \notin Samples
  BY DEF ProcTakeCancelled, HandInv
<1>2. /\ Distinct(Tail(cancel_queue)) /\ Head(cancel_queue) \in Elems(cancel_queue)
      /\ Elems(Tail(cancel_queue)) = Elems(cancel_queue) \ {Head(cancel_queue)}
  BY <1>1, Placed, ElemsTail DEF PlaceInv
<1>3. Lost' = Lost
  BY <1>1 DEF Lost
<1> QED
  BY <1>1, <1>2, <1>3 DEF PlaceInv

LEMMA TakePendingPlaces ==
  ASSUME IInv, HandInv, PlaceInv, ProcTakePending, UNCHANGED <<tpc, trainerVars>>
  PROVE  PlaceInv'
<1> USE DEF taskVars, mqVars, trainerVars
<1>1. /\ hand' = taken + 1 /\ taken' = taken + 1
      /\ UNCHANGED <<cancel_queue, mq, buf, trained, dropped, phase, epc>>
      /\ hand \notin Samples
  BY DEF ProcTakePending, HandInv
<1>2. taken \in Nat /\ Samples \subseteq Nat /\ Elems(cancel_queue) \subseteq Samples
  BY Placed, ElemsLemma
<1>3. Lost' = Lost
  BY <1>1 DEF Lost
<1>4. \A i \in Samples : i \in Elems(cancel_queue) => i <= taken
  BY DEF PlaceInv
<1>5. hand' \notin Elems(cancel_queue)
  BY <1>1, <1>2, <1>4
<1>6. \A i \in Samples : phase'[i] = "idle" <=> i > taken' \/ hand' = i \/ i \in Elems(cancel_queue)
  <2>1. \A i \in Samples : phase[i] = "idle" <=> i > taken \/ i \in Elems(cancel_queue)
    BY <1>1 DEF PlaceInv
  <2>2. \A i \in Samples : i > taken <=> i > taken + 1 \/ taken + 1 = i
    BY <1>2
  <2> QED
    BY <1>1, <2>1, <2>2
<1>7. \A i \in Samples : hand' = i \/ i \in Elems(cancel_queue) => i <= taken'
  BY <1>1, <1>2, <1>4
<1> QED
  BY <1>1, <1>3, <1>5, <1>6, <1>7 DEF PlaceInv

LEMMA ConditionPlaces ==
  ASSUME IInv, HandInv, PlaceInv, ProcCondition, UNCHANGED <<tpc, trainerVars>>
  PROVE  PlaceInv'
<1> USE DEF mqVars, trainerVars
<1>0. /\ UNCHANGED <<cancel_queue, mq, buf, trained, taken, dropped, epc>>
      /\ UNCHANGED <<phase, hand>> \/
         (goal = "limit" /\ phase' = [phase EXCEPT ![hand] = "new"] /\ hand' = NoSample)
  BY DEF ProcCondition
<1>1. CASE UNCHANGED <<phase, hand>>
  BY <1>0, <1>1, NothingMoves
<1>2. CASE goal = "limit" /\ phase' = [phase EXCEPT ![hand] = "new"] /\ hand' = NoSample
  <2>2. hand \in Samples
    BY <1>2 DEF IInv, ProcInv, ProcCondition
  <2>3. /\ \A j \in Samples : phase'[j] = IF j = hand THEN "new" ELSE phase[j]
        /\ NoSample \notin Samples /\ taken \in Nat /\ hand \in Nat
        /\ Elems(cancel_queue) \subseteq Samples
    BY <1>2, <2>2, Placed, ElemsLemma
  <2>4. phase[hand] = "idle" /\ hand <= taken /\ hand \notin Elems(cancel_queue)
    BY <2>2 DEF PlaceInv
  <2>5. Lost' = Lost
    BY <1>0, <2>2, <2>3, <2>4 DEF Lost, Settled
  <2>6. \A i \in Samples : phase'[i] = "idle" <=>
          i > taken' \/ hand' = i \/ i \in Elems(cancel_queue)
    <3> TAKE i \in Samples
    <3>1. phase[i] = "idle" <=> i > taken \/ hand = i \/ i \in Elems(cancel_queue)
      BY DEF PlaceInv
    <3>2. ~(hand > taken)
      BY <2>3, <2>4
    <3> QED
      BY <1>0, <1>2, <2>3, <2>4, <3>1, <3>2
  <2>7. \A i \in Samples : i \in Elems(mq) \cup Elems(buf) \cup trained => phase'[i] \in Settled
    BY <2>3, <2>4 DEF Settled, PlaceInv
  <2>8. NoSample \notin Elems(cancel_queue)
    BY <2>3
  <2> QED
    BY <1>0, <1>2, <2>3, <2>5, <2>6, <2>7, <2>8 DEF PlaceInv
<1> QED
  BY <1>0, <1>1, <1>2

LEMMA RequeuesPlaces ==
  ASSUME IInv, HandInv, PlaceInv, NEW i \in Samples, TaskRequeues(i),
         UNCHANGED <<tpc, trainerVars>>
  PROVE  PlaceInv'
<1> USE DEF TaskRest, procVars, mqVars, trainerVars
<1>1. /\ cancel_queue' = Append(cancel_queue, i) /\ phase' = [phase EXCEPT ![i] = "idle"]
      /\ phase[i] = "cut" /\ UNCHANGED <<hand, mq, buf, trained, taken, dropped, epc>>
  BY DEF TaskRequeues, KeepCancelled
<1>2. /\ \A j \in Samples : phase'[j] = IF j = i THEN "idle" ELSE phase[j]
      /\ taken \in Nat /\ i \in Nat
      /\ Elems(cancel_queue) \subseteq Samples
  BY <1>1, Placed, ElemsLemma
<1>3. i \notin Elems(cancel_queue) /\ hand # i /\ ~(i > taken)
  BY <1>1 DEF PlaceInv
<1>4. /\ Distinct(Append(cancel_queue, i))
      /\ Elems(Append(cancel_queue, i)) = Elems(cancel_queue) \cup {i}
  BY <1>3, Placed, ElemsAppend DEF PlaceInv
<1>5. Lost' = Lost
  BY <1>1, <1>2 DEF Lost, Settled
<1>6. \A j \in Samples : j \in Elems(mq) \cup Elems(buf) \cup trained => phase'[j] \in Settled
  BY <1>1, <1>2 DEF Settled, PlaceInv
<1>7. \A j \in Samples : phase'[j] = "idle" <=>
        j > taken \/ hand = j \/ j \in Elems(cancel_queue) \cup {i}
  BY <1>2 DEF PlaceInv
<1>8. \A j \in Samples : hand = j \/ j \in Elems(cancel_queue) \cup {i} => j <= taken
  <2> TAKE j \in Samples
  <2>1. hand = j \/ j \in Elems(cancel_queue) => j <= taken
    BY DEF PlaceInv
  <2> QED
    BY <1>2, <1>3, <2>1
<1>9. hand \notin Elems(cancel_queue) \cup {i}
  BY <1>3 DEF PlaceInv
<1> QED
  BY <1>1, <1>4, <1>5, <1>6, <1>7, <1>8, <1>9 DEF PlaceInv

\* What a put drops from a full queue is its oldest element.
Room == MakeRoom(mq, max_required_samples)
Gone == IF IsFull(mq, max_required_samples) THEN {Head(mq)} ELSE {}

LEMMA RoomLemma ==
  ASSUME IInv, PlaceInv
  PROVE  /\ Room \in Seq(Samples \cup {NoSample}) /\ Distinct(Room)
         /\ Elems(Room) = Elems(mq) \ Gone /\ Gone \subseteq Elems(mq) /\ IsFiniteSet(Gone)
         /\ Cardinality(Gone) = IF IsFull(mq, max_required_samples) THEN 1 ELSE 0
<1>1. mq \in Seq(Samples \cup {NoSample}) /\ Distinct(mq)
  BY Placed DEF PlaceInv
<1>2. CASE IsFull(mq, max_required_samples)
  <2>1. mq # <<>>
    BY <1>1, <1>2, Constants, LenProperties DEF IsFull
  <2>2. /\ Tail(mq) \in Seq(Samples \cup {NoSample}) /\ Head(mq) \in Elems(mq)
        /\ Elems(Tail(mq)) = Elems(mq) \ {Head(mq)} /\ Distinct(Tail(mq))
    BY <1>1, <2>1, ElemsTail
  <2>3. IsFiniteSet({Head(mq)}) /\ Cardinality({Head(mq)}) = 1
    BY FS_Singleton
  <2> QED
    BY <1>2, <2>2, <2>3 DEF MakeRoom, Room, Gone
<1>3. CASE ~IsFull(mq, max_required_samples)
  <2>1. IsFiniteSet({}) /\ Cardinality({}) = 0
    BY FS_EmptySet
  <2> QED
    BY <1>1, <1>3, <2>1 DEF MakeRoom, Room, Gone
<1> QED
  BY <1>2, <1>3

\* With room made, one more fits.
LEMMA RoomLength ==
  ASSUME IInv, PlaceInv
  PROVE  /\ Room \in Seq(Samples \cup {NoSample}) /\ Len(Room) \in Nat
         /\ Len(Room) + 1 <= max_required_samples
         /\ \A x \in Samples \cup {NoSample} : Len(Append(Room, x)) = Len(Room) + 1
<1>1. mq \in Seq(Samples \cup {NoSample}) /\ Len(mq) \in Nat /\ max_required_samples \in Nat \ {0}
      /\ Len(mq) <= max_required_samples
  BY Placed, Constants, LenProperties DEF PlaceInv
<1>2. ASSUME IsFull(mq, max_required_samples)
      PROVE  Room \in Seq(Samples \cup {NoSample}) /\ Len(Room) + 1 <= max_required_samples
  <2>1. mq # <<>> /\ Room = Tail(mq)
    BY <1>1, <1>2, EmptySeq DEF IsFull, Room, MakeRoom
  <2>2. Tail(mq) \in Seq(Samples \cup {NoSample}) /\ Len(Tail(mq)) = Len(mq) - 1 /\ Len(mq) > 0
    BY <1>1, <2>1, HeadTailProperties, EmptySeq
  <2>3. Len(Room) + 1 <= max_required_samples
    BY ONLY <1>1, <2>1, <2>2
  <2> QED
    BY <2>1, <2>2, <2>3
<1>3. ASSUME ~IsFull(mq, max_required_samples)
      PROVE  Room \in Seq(Samples \cup {NoSample}) /\ Len(Room) + 1 <= max_required_samples
  <2>1. Room = mq /\ Len(mq) < max_required_samples
    BY <1>1, <1>3 DEF IsFull, Room, MakeRoom
  <2>2. Len(Room) + 1 <= max_required_samples
    BY ONLY <1>1, <2>1
  <2> QED
    BY <1>1, <2>1, <2>2
<1>4. Room \in Seq(Samples \cup {NoSample}) /\ Len(Room) + 1 <= max_required_samples
  BY <1>2, <1>3
<1>5. \A x \in Samples \cup {NoSample} : Len(Append(Room, x)) = Len(Room) + 1
  BY <1>4, AppendProperties
<1> QED
  BY <1>4, <1>5, LenProperties

\* The queue never holds more than its deque does: after room is made, a put appends.
LEMMA PutAppends ==
  ASSUME IInv, PlaceInv, NEW x \in Samples \cup {NoSample}
  PROVE  /\ Enqueue(mq, x, max_required_samples) = Append(Room, x)
         /\ Len(Append(Room, x)) <= max_required_samples
<1>1. Len(Append(Room, x)) <= max_required_samples /\ max_required_samples \in Nat
      /\ Len(Append(Room, x)) \in Nat
  BY RoomLength, Constants
<1>2. Within(Append(Room, x), max_required_samples) = Append(Room, x)
  BY <1>1 DEF Within
<1> QED
  BY <1>1, <1>2 DEF Enqueue, Room

\* The put of sample i, and what it drops.
LEMMA PutPlaces ==
  ASSUME IInv, HandInv, PlaceInv, NEW i \in Samples, QueuePuts(i), UNCHANGED <<tpc, trainerVars>>
  PROVE  PlaceInv'
<1> USE DEF TaskRest, procVars, trainerVars
<1>1. /\ mq' = Append(Room, i)
      /\ phase' = [phase EXCEPT ![i] = "stored"] /\ phase[i] = "put"
      /\ dropped' = dropped + IF IsFull(mq, max_required_samples) THEN 1 ELSE 0
      /\ UNCHANGED <<cancel_queue, hand, buf, trained, taken, epc>>
  BY PutAppends DEF QueuePuts
<1>2. /\ \A j \in Samples : phase'[j] = IF j = i THEN "stored" ELSE phase[j]
      /\ Elems(mq) \subseteq Samples \cup {NoSample} /\ NoSample \notin Samples /\ dropped \in Nat
  BY <1>1, Placed, ElemsLemma
<1>3. i \notin Elems(mq) /\ i \notin Elems(buf) /\ i \notin trained
  BY <1>1 DEF PlaceInv, Settled
<1>4. /\ Room \in Seq(Samples \cup {NoSample}) /\ Distinct(Room)
      /\ Elems(Room) = Elems(mq) \ Gone /\ Gone \subseteq Elems(mq)
      /\ IsFiniteSet(Gone) /\ dropped' = dropped + Cardinality(Gone)
  BY <1>1, RoomLemma
<1> HIDE DEF Room, Gone
<1>5. /\ Distinct(mq') /\ Elems(mq') = (Elems(mq) \ Gone) \cup {i}
  BY <1>1, <1>3, <1>4, ElemsAppend
<1>6. \A j \in Samples : j \in Elems(mq) \cup Elems(buf) \cup trained => phase[j] \in Settled /\ j # i
  BY <1>3 DEF PlaceInv
<1>7. NoSample \notin Elems(mq) => Lost' = Lost \cup Gone /\ Lost \cap Gone = {}
  <2> HAVE NoSample \notin Elems(mq)
  <2>1. \A j \in Gone : phase[j] \in Settled /\ j \in Samples /\ j # i
                        /\ j \notin Elems(buf) /\ j \notin trained
    BY <1>2, <1>4, <1>6 DEF PlaceInv
  <2>2. \A j \in Samples : j \in Lost' <=> j \in Lost \cup Gone
    <3> TAKE j \in Samples
    <3>1. j \in Lost' <=> /\ phase'[j] \in Settled /\ j \notin (Elems(mq) \ Gone) \cup {i}
                          /\ j \notin Elems(buf) /\ j \notin trained
      BY <1>1, <1>5 DEF Lost
    <3>2. j \in Lost <=> /\ phase[j] \in Settled /\ j \notin Elems(mq)
                         /\ j \notin Elems(buf) /\ j \notin trained
      BY DEF Lost
    <3>3. i \notin Lost /\ i \notin Gone
      BY <1>1, <2>1 DEF Lost, Settled
    <3> QED
      BY <1>2, <2>1, <3>1, <3>2, <3>3
  <2>3. Lost' \subseteq Samples /\ Lost \subseteq Samples
    BY DEF Lost
  <2>4. Lost \cap Gone = {}
    BY <1>4 DEF Lost
  <2> QED
    BY <2>1, <2>2, <2>3, <2>4
<1>8. epc = "run" => Cardinality(Lost') = dropped'
  <2> HAVE epc = "run"
  <2>0. NoSample \notin Elems(mq) /\ Cardinality(Lost) = dropped
    BY DEF PlaceInv
  <2>1. Cardinality(Lost \cup Gone) = Cardinality(Lost) + Cardinality(Gone)
    <3>1. PICK l : l = Lost
      OBVIOUS
    <3>2. /\ IsFiniteSet(l) /\ IsFiniteSet(Gone) /\ l \cap Gone = {}
          /\ Cardinality(l) \in Nat /\ Cardinality(Gone) \in Nat
      BY <1>4, <1>7, <2>0, <3>1, LostLemma, FS_CardinalityType
    <3>3. Cardinality(l \cup Gone) = Cardinality(l) + Cardinality(Gone) - Cardinality(l \cap Gone)
      BY ONLY <3>2, FS_Union
    <3>4. Cardinality(l \cap Gone) = 0
      BY <3>2, FS_EmptySet
    <3> QED
      BY <3>1, <3>2, <3>3, <3>4
  <2> QED
    BY <1>4, <1>7, <2>0, <2>1
<1>9. \A j \in Samples : phase'[j] = "idle" <=>
         j > taken \/ hand = j \/ j \in Elems(cancel_queue)
  BY <1>1, <1>2 DEF PlaceInv
<1>10. \A j \in Samples : j \in Elems(mq') \cup Elems(buf) \cup trained => phase'[j] \in Settled
  BY <1>2, <1>5, <1>6 DEF Settled
<1>11. /\ Elems(mq') \cap Elems(buf) = {} /\ (Elems(mq') \cup Elems(buf)) \cap trained = {}
       /\ epc \in {"run", "put"} => NoSample \notin Elems(mq')
  BY <1>2, <1>3, <1>5 DEF PlaceInv
<1>12. Len(mq') <= max_required_samples
  BY <1>1, PutAppends
<1> QED
  BY <1>1, <1>5, <1>8, <1>9, <1>10, <1>11, <1>12 DEF PlaceInv

\* The put of the final None, which may drop a sample.
LEMMA NonePlaces ==
  ASSUME IInv, PlaceInv, MainNonePut, UNCHANGED <<tpc, trainerVars>> PROVE PlaceInv'
<1> USE DEF MainRest, procVars, taskVars, trainerVars
<1>1. /\ mq' = Append(Room, NoSample) /\ epc = "put" /\ epc' = "sent"
      /\ UNCHANGED <<cancel_queue, hand, buf, trained, taken, phase>>
  BY PutAppends DEF MainNonePut
<1>2. /\ Room \in Seq(Samples \cup {NoSample}) /\ Distinct(Room)
      /\ Elems(Room) = Elems(mq) \ Gone /\ NoSample \notin Elems(mq)
  BY <1>1, RoomLemma DEF PlaceInv
<1> HIDE DEF Room, Gone
<1>3. Distinct(mq') /\ Elems(mq') = (Elems(mq) \ Gone) \cup {NoSample}
  BY <1>1, <1>2, ElemsAppend
<1>4. NoSample \notin Samples /\ Elems(buf) \subseteq Samples /\ trained \subseteq Samples
  BY Placed, ElemsLemma
<1>5. Len(mq') <= max_required_samples
  BY <1>1, PutAppends
<1> QED
  BY <1>1, <1>3, <1>4, <1>5 DEF PlaceInv

LEMMA CollectPlaces == ASSUME IInv, PlaceInv, Collect PROVE PlaceInv'
<1> USE DEF RollouterRest, procVars, taskVars
<1>1. /\ mq # <<>> /\ mq' = Tail(mq)
      /\ UNCHANGED <<cancel_queue, hand, trained, taken, dropped, phase, epc>>
      /\ buf' = IF Head(mq) = NoSample THEN <<>> ELSE Append(buf, Head(mq))
  BY DEF Collect
<1>2. /\ Distinct(Tail(mq)) /\ Head(mq) \in Elems(mq) /\ Head(mq) \in Samples \cup {NoSample}
      /\ Elems(Tail(mq)) = Elems(mq) \ {Head(mq)}
  BY <1>1, Placed, ElemsTail DEF PlaceInv
<1>5. Len(mq') <= max_required_samples
  <2>1. /\ mq \in Seq(Samples \cup {NoSample}) /\ Len(mq) <= max_required_samples
        /\ Len(mq) \in Nat /\ max_required_samples \in Nat
    BY Placed, Constants, LenProperties DEF PlaceInv
  <2>2. Len(Tail(mq)) = Len(mq) - 1
    BY <1>1, <2>1, HeadTailProperties
  <2> QED
    BY <1>1, <2>1, <2>2
<1>3. CASE Head(mq) = NoSample
  <2>1. Elems(buf') = {} /\ Distinct(buf')
    BY <1>1, <1>3, ElemsLemma, Placed
  <2>2. epc \notin {"run", "put"}
    BY <1>2, <1>3 DEF PlaceInv
  <2> QED
    BY <1>1, <1>2, <1>5, <2>1, <2>2 DEF PlaceInv
<1>4. CASE Head(mq) # NoSample
  <2>1. Head(mq) \in Samples /\ Head(mq) \notin Elems(buf)
    BY <1>2, <1>4 DEF PlaceInv
  <2>2. Distinct(buf') /\ Elems(buf') = Elems(buf) \cup {Head(mq)}
    BY <1>1, <1>4, <2>1, Placed, ElemsAppend DEF PlaceInv
  <2>3. Lost' = Lost
    BY <1>1, <1>2, <2>2 DEF Lost
  <2> QED
    BY <1>1, <1>2, <1>5, <2>2, <2>3 DEF PlaceInv
<1> QED
  BY <1>3, <1>4

LEMMA TrainPlaces == ASSUME IInv, PlaceInv, Train PROVE PlaceInv'
<1> USE DEF rollouterVars, procVars, taskVars, mqVars
<1>1. /\ trained' = trained \cup Elems(buf) /\ buf' = <<>>
      /\ UNCHANGED <<mq, cancel_queue, hand, taken, dropped, phase, epc>>
  BY DEF Train, Elems
<1>2. Elems(<<>>) = {} /\ Distinct(<<>>)
  BY DEF Elems, Distinct
<1>3. Lost' = Lost
  BY <1>1, <1>2 DEF Lost
<1> QED
  BY <1>1, <1>2, <1>3 DEF PlaceInv

-----------------------------------------------------------------------------
(* Every sample is accounted for *)

LEMMA HandKeeps == IInv /\ HandInv /\ [Next]_vars => HandInv'
<1> SUFFICES ASSUME IInv, HandInv, [Next]_vars PROVE HandInv'
  OBVIOUS
<1> USE DEF HandInv
<1>n. NoSample \notin Samples /\ DONE \notin Samples
  BY Placed
<1>1. CASE Processor
  <2>1. CASE ProcTop \/ ProcSetPause \/ ProcGetWaits
    BY <2>1 DEF ProcTop, ProcSetPause, ProcGetWaits
  <2>2. CASE ProcTakeCancelled
    BY <2>2 DEF ProcTakeCancelled
  <2>3. CASE ProcTakePending
    BY <1>n, <2>3 DEF ProcTakePending
  <2>4. CASE ProcDrain \/ ProcAwait
    BY <2>4 DEF ProcDrain, ProcAwait
  <2>5. CASE WaitReturns
    BY <2>5 DEF WaitReturns, procVars
  <2>6. CASE ProcCollect
    BY <2>6 DEF ProcCollect
  <2>7. CASE ProcCondition
    BY <1>n, <2>7 DEF ProcCondition
  <2>8. CASE ProcWoken
    BY <2>8 DEF ProcWoken
  <2> QED
    BY <1>1, <2>1, <2>2, <2>3, <2>4, <2>5, <2>6, <2>7, <2>8 DEF Processor
<1>2. CASE Feed
  BY <1>2 DEF Feed
<1>3. CASE Sync
  BY <1>3 DEF Sync, SyncEnters, PauseLocked, PauseReturns, UpdateLocked, UpdateCounted,
              UpdateReturns, ResumeLocked, ResumeReturns, SyncRest, procVars
<1>4. CASE MonitorChecks \/ MonitorUnpauses \/ MonitorTimer
  BY <1>4 DEF MonitorChecks, MonitorUnpauses, MonitorTimer, MonitorRest, procVars
<1>5. CASE MainCalls \/ MainNonePut \/ MainAsksLock \/ MainStops
  BY <1>5 DEF MainCalls, MainNonePut, MainAsksLock, MainStops, MainRest, procVars
<1>6. CASE \E i \in Samples : Task(i)
  BY <1>6 DEF Task, TaskStart, TaskPuts, TaskEnds, TaskRequeues, TaskFails, TaskRest, procVars
<1>7. CASE \E i \in Samples : TaskEvent(i)
  BY <1>7 DEF TaskEvent, ServerAnswers, QueuePuts, QueueAnswers, TaskRest, procVars
<1>8. CASE PauseGathered \/ SyncAnswer
  BY <1>8 DEF PauseGathered, SyncAnswer, SyncRest, procVars
<1>9. CASE TrainerNext
  BY <1>9 DEF TrainerNext, Collect, Train, SyncWeights, TransferBegins, TransferEnds,
              LastBatchDone, FitEnds, RollouterRest, rollouterVars, procVars
<1>10. CASE UNCHANGED vars
  BY <1>10 DEF vars, rollouterVars, procVars
<1> QED
  BY <1>1, <1>2, <1>3, <1>4, <1>5, <1>6, <1>7, <1>8, <1>9, <1>10 DEF Next, LoopStep, Event

LEMMA TaskPlaces ==
  ASSUME IInv, HandInv, PlaceInv, NEW i \in Samples, Task(i) \/ TaskEvent(i),
         UNCHANGED <<tpc, trainerVars>>
  PROVE  PlaceInv'
<1> USE DEF TaskRest, procVars, mqVars, trainerVars
<1>1. CASE TaskStart(i)
  <2>1. Turns(i, "new", "cut") \/ Turns(i, "new", "gen")
    BY <1>1 DEF TaskStart, Turns
  <2> QED
    BY <2>1, TurnsPlaces
<1>2. CASE TaskPuts(i)
  <2>1. Turns(i, "ret", "put")
    BY <1>2 DEF TaskPuts, Turns
  <2> QED
    BY <2>1, TurnsPlaces
<1>3. CASE TaskEnds(i)
  <2>1. Turns(i, "ack", "done")
    BY <1>3 DEF TaskEnds, Turns
  <2> QED
    BY <2>1, TurnsPlaces
<1>4. CASE TaskFails(i)
  <2>1. Turns(i, "ret", "failed")
    BY <1>4 DEF TaskFails, Turns
  <2> QED
    BY <2>1, TurnsPlaces
<1>5. CASE ServerAnswers(i)
  <2>1. Turns(i, "gen", "ret") \/ Turns(i, "gen", "cut")
    BY <1>5 DEF ServerAnswers, Turns
  <2> QED
    BY <2>1, TurnsPlaces
<1>6. CASE QueueAnswers(i)
  <2>1. Turns(i, "stored", "ack")
    BY <1>6 DEF QueueAnswers, Turns
  <2> QED
    BY <2>1, TurnsPlaces
<1>7. CASE TaskRequeues(i)
  BY <1>7, RequeuesPlaces
<1>8. CASE QueuePuts(i)
  BY <1>8, PutPlaces
<1> QED
  BY <1>1, <1>2, <1>3, <1>4, <1>5, <1>6, <1>7, <1>8 DEF Task, TaskEvent

LEMMA PlaceKeeps == IInv /\ HandInv /\ PlaceInv /\ [Next]_vars => PlaceInv'
<1> SUFFICES ASSUME IInv, HandInv, PlaceInv, [Next]_vars PROVE PlaceInv'
  OBVIOUS
<1> DEFINE Still == /\ UNCHANGED <<cancel_queue, mq, buf, hand, trained, taken, dropped, phase>>
                    /\ epc' = "run" => epc = "run"
                    /\ epc' = "put" => epc \in {"run", "put"}
<1>1. ASSUME Processor, UNCHANGED <<tpc, trainerVars>> PROVE PlaceInv'
  <2>1. CASE ProcTop \/ ProcSetPause \/ ProcGetWaits \/ ProcDrain \/ ProcAwait \/ WaitReturns
               \/ ProcCollect \/ ProcWoken
    <3>1. Still
      BY <1>1, <2>1 DEF ProcTop, ProcSetPause, ProcGetWaits, ProcDrain, ProcAwait, WaitReturns,
                        ProcCollect, ProcWoken, ProcRest, procVars, taskVars, mqVars, trainerVars
    <3> QED
      BY <3>1, NothingMoves
  <2> QED
    BY <1>1, <2>1, TakeCancelledPlaces, TakePendingPlaces, ConditionPlaces DEF Processor
<1>2. ASSUME Feed \/ Sync \/ PauseGathered \/ SyncAnswer, UNCHANGED <<tpc, trainerVars>>
      PROVE  Still
  <2>1. CASE Feed
    BY <1>2, <2>1 DEF Feed, taskVars, mqVars, trainerVars
  <2>2. CASE Sync
    BY <1>2, <2>2 DEF Sync, SyncEnters, PauseLocked, PauseReturns, UpdateLocked, UpdateCounted,
       UpdateReturns, ResumeLocked, ResumeReturns, SyncRest, procVars, mqVars, trainerVars
  <2>3. CASE PauseGathered \/ SyncAnswer
    BY <1>2, <2>3 DEF PauseGathered, SyncAnswer, SyncRest, procVars, mqVars, trainerVars
  <2> QED
    BY <1>2, <2>1, <2>2, <2>3
<1>3. ASSUME MonitorChecks \/ MonitorUnpauses \/ MonitorTimer, UNCHANGED <<tpc, trainerVars>>
      PROVE  Still
  BY <1>3 DEF MonitorChecks, MonitorUnpauses, MonitorTimer, MonitorRest, procVars, taskVars,
              mqVars, trainerVars
<1>4. ASSUME MainCalls \/ MainAsksLock \/ MainStops, UNCHANGED <<tpc, trainerVars>>
      PROVE  Still
  BY <1>4 DEF MainCalls, MainAsksLock, MainStops, MainRest, procVars, taskVars, mqVars, trainerVars
<1>5. ASSUME MainNonePut, UNCHANGED <<tpc, trainerVars>> PROVE PlaceInv'
  BY <1>5, NonePlaces
<1>6. ASSUME TrainerNext PROVE PlaceInv'
  <2>1. CASE SyncWeights \/ TransferBegins \/ TransferEnds \/ LastBatchDone \/ FitEnds
    <3>1. Still
      BY <2>1 DEF SyncWeights, TransferBegins, TransferEnds, LastBatchDone, FitEnds,
                  RollouterRest, rollouterVars, procVars, taskVars, mqVars, trainerVars
    <3> QED
      BY <3>1, NothingMoves
  <2> QED
    BY <1>6, <2>1, CollectPlaces, TrainPlaces DEF TrainerNext
<1>7. ASSUME UNCHANGED vars PROVE Still
  BY <1>7 DEF vars, rollouterVars, procVars, taskVars, mqVars, trainerVars
<1>8. Still => PlaceInv'
  BY NothingMoves
<1> QED
  BY <1>1, <1>2, <1>3, <1>4, <1>5, <1>6, <1>7, <1>8, TaskPlaces DEF Next, LoopStep, Event

\* How often something is in a sequence.
Often(q, x) ==
  Cardinality({k \in 1..Len(q) : q[k] = x}) = IF x \in Elems(q) THEN 1 ELSE 0

LEMMA Occurs ==
  ASSUME NEW S, NEW q \in Seq(S), Distinct(q), NEW x
  PROVE  Often(q, x)
<1>1. CASE x \in Elems(q)
  <2>1. PICK k \in 1..Len(q) : q[k] = x
    BY <1>1 DEF Elems
  <2>2. {j \in 1..Len(q) : q[j] = x} = {k}
    BY <2>1 DEF Distinct
  <2> QED
    BY <1>1, <2>2, FS_Singleton DEF Often
<1>2. CASE x \notin Elems(q)
  <2>1. {j \in 1..Len(q) : q[j] = x} = {}
    BY <1>2 DEF Elems
  <2> QED
    BY <1>2, <2>1, FS_EmptySet DEF Often
<1> QED
  BY <1>1, <1>2

\* Which of the other places sample i is in.
Own(i) == {p \in {"hand", "task", "trained"} :
             \/ p = "hand" /\ hand = i
             \/ p = "task" /\ phase[i] \in {"new", "gen", "ret", "cut", "put"}
             \/ p = "trained" /\ i \in trained}

LEMMA OwnLemma ==
  ASSUME NEW i,
         ~(hand = i /\ phase[i] \in {"new", "gen", "ret", "cut", "put"}),
         ~(hand = i /\ i \in trained),
         ~(phase[i] \in {"new", "gen", "ret", "cut", "put"} /\ i \in trained)
  PROVE  Cardinality(Own(i)) =
           IF hand = i \/ phase[i] \in {"new", "gen", "ret", "cut", "put"} \/ i \in trained
           THEN 1 ELSE 0
<1>1. CASE hand = i
  <2>1. Own(i) = {"hand"}
    BY <1>1 DEF Own
  <2> QED
    BY <1>1, <2>1, FS_Singleton
<1>2. CASE phase[i] \in {"new", "gen", "ret", "cut", "put"}
  <2>1. Own(i) = {"task"}
    BY <1>2 DEF Own
  <2> QED
    BY <1>2, <2>1, FS_Singleton
<1>3. CASE i \in trained
  <2>1. Own(i) = {"trained"}
    BY <1>3 DEF Own
  <2> QED
    BY <1>3, <2>1, FS_Singleton
<1>4. CASE ~(hand = i \/ phase[i] \in {"new", "gen", "ret", "cut", "put"} \/ i \in trained)
  <2>1. Own(i) = {}
    BY <1>4 DEF Own
  <2> QED
    BY <1>4, <2>1, FS_EmptySet
<1> QED
  BY <1>1, <1>2, <1>3, <1>4

LEMMA PlacesLemma ==
  ASSUME IInv, PlaceInv, epc = "run", NEW i \in Samples
  PROVE  /\ Places(i) \in {0, 1}
         /\ Places(i) = 0 <=> \/ phase[i] = "idle" /\ i > taken
                              \/ phase[i] = "failed"
                              \/ i \in Lost
<1>1. /\ Places(i) = Cardinality({k \in 1..Len(cancel_queue) : cancel_queue[k] = i})
                     + Cardinality({k \in 1..Len(mq) : mq[k] = i})
                     + Cardinality({k \in 1..Len(buf) : buf[k] = i}) + Cardinality(Own(i))
  BY DEF Places, Own
<1>2. /\ Cardinality({k \in 1..Len(cancel_queue) : cancel_queue[k] = i})
           = IF i \in Elems(cancel_queue) THEN 1 ELSE 0
      /\ Cardinality({k \in 1..Len(mq) : mq[k] = i}) = IF i \in Elems(mq) THEN 1 ELSE 0
      /\ Cardinality({k \in 1..Len(buf) : buf[k] = i}) = IF i \in Elems(buf) THEN 1 ELSE 0
  <2>1. Distinct(cancel_queue) /\ Distinct(mq) /\ Distinct(buf)
    BY DEF PlaceInv
  <2>2. PICK c, m, b : c = cancel_queue /\ m = mq /\ b = buf
    OBVIOUS
  <2>3. /\ c \in Seq(Samples) /\ m \in Seq(Samples \cup {NoSample}) /\ b \in Seq(Samples)
        /\ Distinct(c) /\ Distinct(m) /\ Distinct(b)
    BY <2>1, <2>2, Placed
  <2>4. Often(c, i) /\ Often(m, i) /\ Often(b, i)
    BY ONLY <2>3, Occurs
  <2> QED
    BY <2>2, <2>4 DEF Often
<1>3. /\ phase[i] = "idle" <=> i > taken \/ hand = i \/ i \in Elems(cancel_queue)
      /\ hand = i \/ i \in Elems(cancel_queue) => i <= taken
      /\ i \in Elems(mq) \cup Elems(buf) \cup trained => phase[i] \in Settled
      /\ ~(hand = i /\ i \in Elems(cancel_queue))
      /\ ~(i \in Elems(mq) /\ i \in Elems(buf))
      /\ ~(i \in trained /\ (i \in Elems(mq) \/ i \in Elems(buf)))
  BY DEF PlaceInv
<1>4. i \in Lost <=> /\ phase[i] \in Settled /\ i \notin Elems(mq)
                     /\ i \notin Elems(buf) /\ i \notin trained
  BY DEF Lost
<1>5. phase[i] \in Live \cup {"idle", "done", "failed"} /\ i \in Nat /\ taken \in Nat
  BY Placed
<1>6. Cardinality(Own(i)) =
        IF hand = i \/ phase[i] \in {"new", "gen", "ret", "cut", "put"} \/ i \in trained
        THEN 1 ELSE 0
  BY <1>3, OwnLemma DEF Settled
<1> HIDE DEF Places, Own
<1>7. CASE phase[i] = "idle"
  BY <1>1, <1>2, <1>3, <1>4, <1>5, <1>6, <1>7 DEF Settled
<1>8. CASE phase[i] \in {"new", "gen", "ret", "cut", "put"}
  BY <1>1, <1>2, <1>3, <1>4, <1>6, <1>8 DEF Settled
<1>9. CASE phase[i] \in Settled
  BY <1>1, <1>2, <1>3, <1>4, <1>6, <1>9 DEF Settled
<1>10. CASE phase[i] = "failed"
  BY <1>1, <1>2, <1>3, <1>4, <1>6, <1>10 DEF Settled
<1> QED
  BY <1>5, <1>7, <1>8, <1>9, <1>10 DEF Live, Settled

\* While the rollouter works, no sample is lost or doubled unnoticed, through the lock, the
\* pauses, the interruptions, the requeueing and the queue: whatever it took is in exactly
\* one place, has failed, or is one of as many as dropped_samples says.
THEOREM SamplesAccounted == Spec => []Accounted
<1>1. Init => HandInv /\ PlaceInv
  BY PlaceInit
<1>2. IInv /\ HandInv /\ PlaceInv /\ [Next]_vars => HandInv' /\ PlaceInv'
  BY HandKeeps, PlaceKeeps
<1>3. IInv /\ PlaceInv => Accounted
  <2> SUFFICES ASSUME IInv, PlaceInv, epc = "run"
               PROVE  /\ \A i \in Samples : Places(i) <= 1
                      /\ Cardinality({i \in Samples : i <= taken /\ phase[i] # "failed"
                                                      /\ Places(i) = 0}) = dropped
    BY DEF Accounted
  <2>1. \A i \in Samples : Places(i) <= 1
    BY PlacesLemma
  <2>2. {i \in Samples : i <= taken /\ phase[i] # "failed" /\ Places(i) = 0} = Lost
    <3>1. ASSUME NEW i \in Samples
          PROVE  i <= taken /\ phase[i] # "failed" /\ Places(i) = 0 <=> i \in Lost
      <4>1. Places(i) = 0 <=> \/ phase[i] = "idle" /\ i > taken
                              \/ phase[i] = "failed"
                              \/ i \in Lost
        BY PlacesLemma
      <4>2. i \in Lost => phase[i] # "idle" /\ phase[i] # "failed"
        BY DEF Lost, Settled
      <4>3. phase[i] # "idle" => ~(i > taken)
        BY DEF PlaceInv
      <4>4. i \in Nat /\ taken \in Nat
        BY Placed
      <4> QED
        BY <4>1, <4>2, <4>3, <4>4
    <3>2. Lost \subseteq Samples
      BY DEF Lost
    <3> QED
      BY <3>1, <3>2
  <2> QED
    BY <2>1, <2>2 DEF PlaceInv
<1> QED
  BY <1>1, <1>2, <1>3, Invariance, PTL DEF Spec

-----------------------------------------------------------------------------
(* The end of the rollouter *)

\* The processor has ended; only then is main woken, the final None put, and training ended.
Over == ppc \in {"exit", "dead"}

EndInv ==
  /\ epc = "run" /\ In(ready, main) => Over
  /\ epc # "run" => Over
  /\ final \/ tpc \in {"endwait", "finwait", "done"} => epc # "run"

\* A step of another coroutine makes e and perhaps a waiter for the lock ready.
Adds(e) ==
  \E b \in {ready, Tail(ready)} :
    (b # ready => ready # <<>>) /\ (ready' = b \/ ready' = b \o e \/ ready' = b \o e \o NextWaiter)

LEMMA MainSleeps ==
  ASSUME IInv, epc = "run", NEW e \in Seq(Coroutines), ~In(e, main), Adds(e), ~In(ready, main)
  PROVE  ~In(ready', main)
<1>1. ready \in Seq(Coroutines) /\ lockQ \in Seq(Locking) /\ Locking \subseteq Coroutines
  BY LoopTypes, Constants
<1>2. PICK b \in {ready, Tail(ready)} :
        /\ b # ready => ready # <<>>
        /\ ready' = b \/ ready' = b \o e \/ ready' = b \o e \o NextWaiter
  BY DEF Adds
<1>3. b \in Seq(Coroutines) /\ ~In(b, main)
  <2>1. AtMostOnce(ready, main)
    BY DEF In, AtMostOnce
  <2>2. ready # <<>> => Tail(ready) \in Seq(Coroutines) /\ ~In(Tail(ready), main)
    BY <1>1, <2>1, Ran
  <2> QED
    BY <1>1, <1>2, <2>2
<1>4. b \o e \in Seq(Coroutines) /\ ~In(b \o e, main)
  BY <1>3, Continue
<1>5. NextWaiter \in Seq(Coroutines) /\ ~In(NextWaiter, main)
  <2>1. CASE Len(lockQ) > 1
    <3>1. 2 \in 1..Len(lockQ) /\ lockQ[2] \in Locking
      BY <1>1, <2>1, LenProperties, ElementOfSeq
    <3>2. ~In(lockQ, main)
      BY DEF IInv, ProcInv
    <3>3. lockQ[2] \in Coroutines /\ lockQ[2] # main
      BY <1>1, <3>1, <3>2 DEF In
    <3>4. NextWaiter = <<lockQ[2]>>
      BY <2>1 DEF NextWaiter
    <3>5. PICK c \in Coroutines : c = lockQ[2]
      BY <3>3
    <3>6. <<c>> \in Seq(Coroutines) /\ ~In(<<c>>, main)
      BY <3>3, <3>5 DEF In
    <3> QED
      BY <3>4, <3>5, <3>6
  <2>2. CASE ~(Len(lockQ) > 1)
    BY <2>2, Others DEF NextWaiter, In
  <2> QED
    BY <2>1, <2>2
<1>6. (b \o e) \o NextWaiter \in Seq(Coroutines) /\ ~In((b \o e) \o NextWaiter, main)
  BY <1>4, <1>5, Continue
<1> QED
  BY <1>2, <1>3, <1>4, <1>6

\* Whom the steps of the others make ready.
LEMMA NotMain ==
  /\ <<>> \in Seq(Coroutines) /\ ~In(<<>>, main)
  /\ \A c \in Coroutines \ {main} : <<c>> \in Seq(Coroutines) /\ ~In(<<c>>, main)
  /\ Notified \in Seq(Coroutines) /\ ~In(Notified, main)
<1>1. <<>> \in Seq(Coroutines) /\ ~In(<<>>, main)
  BY DEF In
<1>2. ASSUME NEW c \in Coroutines \ {main} PROVE <<c>> \in Seq(Coroutines) /\ ~In(<<c>>, main)
  <2>1. <<c>> \in Seq(Coroutines) /\ Len(<<c>>) = 1 /\ <<c>>[1] = c
    OBVIOUS
  <2> QED
    BY <2>1 DEF In
<1>3. Notified \in {<<>>, <<processor>>} /\ processor \in Coroutines \ {main}
  BY Constants DEF Notified
<1> QED
  BY <1>1, <1>2, <1>3

\* A step that leaves main alone.
LEMMA EndStays ==
  ASSUME IInv, EndInv, Over => Over', epc' = epc,
         final' = final, tpc' \in {"endwait", "finwait", "done"} =>
           final \/ tpc \in {"endwait", "finwait", "done"},
         Over' \/ \E e \in Seq(Coroutines) : ~In(e, main) /\ Adds(e)
  PROVE  EndInv'
<1>1. CASE Over'
  BY <1>1 DEF EndInv
<1>2. CASE ~Over'
  <2>1. PICK e \in Seq(Coroutines) : ~In(e, main) /\ Adds(e)
    BY <1>2
  <2>2. epc = "run" /\ ~In(ready, main)
    BY <1>2 DEF EndInv
  <2>3. ~In(ready', main)
    BY <2>1, <2>2, MainSleeps
  <2> QED
    BY <2>2, <2>3 DEF EndInv
<1> QED
  BY <1>1, <1>2

\* Every step makes the same few additions to the event loop.
LEMMA AddsLemma ==
  ASSUME IInv
  PROVE  /\ \A c \in Coroutines :
              (Wakes(c) => Adds(<<c>>)) /\ (Runs(c) => (ready' = Append(Tail(ready), c) => Adds(<<c>>)))
         /\ \A c, d \in Coroutines :
              ready # <<>> /\ ready' = Append(Tail(ready), d) => Adds(<<d>>)
         /\ Goes => Adds(<<>>)
         /\ ready # <<>> => /\ Suspends => Adds(<<>>)
                            /\ \A c : Acquire(c) => Adds(<<>>)
                            /\ \A e : ready' = Tail(ready) \o e => Adds(e)
                            /\ \A e : ReleaseAndSuspend(e) => Adds(e)
         /\ \A e : Release(e) => Adds(e)
<1>1. ready \in Seq(Coroutines) /\ (ready # <<>> => Tail(ready) \in Seq(Coroutines))
  BY LoopTypes
<1>2. \A q \in Seq(Coroutines) : \A c \in Coroutines : Append(q, c) = q \o <<c>>
  OBVIOUS
<1> QED
  BY <1>1, <1>2 DEF Adds, Wakes, Goes, Suspends, Acquire, Release, ReleaseAndSuspend, Runs

LEMMA ProcessorEnds ==
  ASSUME IInv, EndInv, Processor, UNCHANGED <<tpc, trainerVars>> PROVE EndInv'
<1> USE DEF Over, ProcRest, procVars, trainerVars
<1> USE AddsLemma, NotMain, EndStays
<1>0. /\ {processor, feeder, waiter} \subseteq Coroutines \ {main}
      /\ \A i \in Samples : i \in Coroutines \ {main}
  BY Constants DEF processor, feeder, waiter, main
<1>1. CASE ProcTop
  <2>1. ready # <<>> /\ (Goes \/ Acquire(processor))
    BY <1>1 DEF ProcTop, Runs
  <2> QED
    BY <1>1, <2>1 DEF ProcTop
<1>2. CASE ProcSetPause
  BY <1>2 DEF ProcSetPause
<1>3. CASE ProcTakeCancelled
  BY <1>3 DEF ProcTakeCancelled, loopVars, Goes
<1>4. CASE ProcTakePending
  BY <1>0, <1>4 DEF ProcTakePending
<1>5. CASE ProcGetWaits
  BY <1>5 DEF ProcGetWaits, Runs
<1>6. CASE ProcDrain
  BY <1>6 DEF ProcDrain, Runs
<1>7. CASE ProcAwait
  <2>1. CASE ppc' = "dead"
    BY <1>7, <2>1 DEF ProcAwait
  <2>2. CASE ppc' # "dead"
    <3>1. \/ Release(<<>>)
          \/ ready # <<>> /\ (ready' = Tail(ready) \o <<>> \/ ready' = Tail(ready) \o <<waiter>>)
      BY <1>7, <2>2 DEF ProcAwait, Runs
    <3> QED
      BY <1>0, <1>7, <3>1 DEF ProcAwait
  <2> QED
    BY <2>1, <2>2
<1>8. CASE WaitReturns
  BY <1>0, <1>8 DEF WaitReturns, Runs
<1>9. CASE ProcCollect
  BY <1>9 DEF ProcCollect
<1>10. CASE ProcCondition
  <2>1. \/ ReleaseAndSuspend(<<>>) \/ Release(<<>>)
        \/ goal = "limit" /\ Release(<<hand>>)
    BY <1>10 DEF ProcCondition
  <2>2. ready # <<>> /\ (goal = "limit" => hand \in Samples)
    BY <1>10 DEF ProcCondition, Runs, IInv, ProcInv
  <2>3. \E e \in Seq(Coroutines) : ~In(e, main) /\ Adds(e)
    BY <1>0, <2>1, <2>2
  <2> QED
    BY <1>10, <2>3 DEF ProcCondition
<1>11. CASE ProcWoken
  BY <1>11 DEF ProcWoken, Runs
<1> QED
  BY <1>1, <1>2, <1>3, <1>4, <1>5, <1>6, <1>7, <1>8, <1>9, <1>10, <1>11 DEF Processor

LEMMA SyncEnds ==
  ASSUME IInv, EndInv, Sync \/ PauseGathered \/ SyncAnswer, UNCHANGED <<tpc, trainerVars>>
  PROVE  EndInv'
<1> USE DEF Over, SyncRest, procVars, trainerVars
<1>1. UNCHANGED <<ppc, epc, tpc, final>>
  BY DEF Sync, SyncEnters, PauseLocked, PauseReturns, UpdateLocked, UpdateCounted,
         UpdateReturns, ResumeLocked, ResumeReturns, PauseGathered, SyncAnswer
<1>2. \E e \in {<<>>, Notified, <<sync>>} : Adds(e)
  <2> USE AddsLemma
  <2>1. CASE SyncEnters
    BY <2>1 DEF SyncEnters, Runs
  <2>2. CASE PauseLocked \/ UpdateLocked \/ UpdateCounted \/ ResumeLocked
    BY <2>2 DEF PauseLocked, UpdateLocked, UpdateCounted, ResumeLocked, Runs
  <2>3. CASE PauseReturns \/ UpdateReturns \/ ResumeReturns
    BY <2>3 DEF PauseReturns, UpdateReturns, ResumeReturns, ResumeNotifies, Runs
  <2>4. CASE PauseGathered
    BY <2>4 DEF PauseGathered, loopVars, Goes
  <2>5. CASE SyncAnswer
    BY <2>5, Constants DEF SyncAnswer, Goes
  <2> QED
    BY <2>1, <2>2, <2>3, <2>4, <2>5 DEF Sync
<1>3. sync \in Coroutines \ {main}
  BY Constants
<1>4. \E e \in Seq(Coroutines) : ~In(e, main) /\ Adds(e)
  BY <1>2, <1>3, NotMain
<1> QED
  BY <1>1, <1>4, EndStays

LEMMA TasksEnd ==
  ASSUME IInv, EndInv, NEW i \in Samples, Task(i) \/ TaskEvent(i), UNCHANGED <<tpc, trainerVars>>
  PROVE  EndInv'
<1> USE DEF Over, TaskRest, procVars, trainerVars
<1>1. UNCHANGED <<ppc, epc, tpc, final>>
  BY DEF Task, TaskEvent, TaskStart, TaskPuts, TaskEnds, TaskRequeues, TaskFails, ServerAnswers,
         QueuePuts, QueueAnswers
<1>2. i \in Coroutines \ {main} /\ waiter \in Coroutines \ {main}
  BY Constants DEF main, waiter
<1>3. \E e \in {<<>>, <<i>>, <<waiter>>} : Adds(e)
  <2> USE AddsLemma
  <2>1. CASE TaskStart(i) \/ TaskPuts(i)
    BY <1>2, <2>1 DEF TaskStart, TaskPuts, Runs
  <2>2. CASE TaskEnds(i) \/ TaskRequeues(i) \/ TaskFails(i)
    BY <2>2 DEF TaskEnds, TaskRequeues, TaskFails, Runs, Ends
  <2>3. CASE ServerAnswers(i) \/ QueueAnswers(i)
    BY <1>2, <2>3 DEF ServerAnswers, QueueAnswers
  <2>4. CASE QueuePuts(i)
    BY <2>4 DEF QueuePuts, Goes
  <2> QED
    BY <2>1, <2>2, <2>3, <2>4 DEF Task, TaskEvent
<1>4. \E e \in Seq(Coroutines) : ~In(e, main) /\ Adds(e)
  BY <1>2, <1>3, NotMain
<1> QED
  BY <1>1, <1>4, EndStays

LEMMA OthersEnd ==
  ASSUME IInv, EndInv, Feed \/ MonitorTimer \/ MonitorChecks \/ MonitorUnpauses,
         UNCHANGED <<tpc, trainerVars>>
  PROVE  EndInv'
<1> USE DEF Over, MonitorRest, procVars, trainerVars
<1>1. UNCHANGED <<ppc, epc, tpc, final>>
  BY DEF Feed, MonitorTimer, MonitorChecks, MonitorUnpauses
<1>2. {processor, monitor} \subseteq Coroutines \ {main}
  BY Constants
<1>3. \E e \in {<<>>, <<processor>>, <<monitor>>, Notified} : Adds(e)
  <2> USE AddsLemma
  <2>1. CASE Feed
    BY <2>1 DEF Feed, Runs
  <2>2. CASE MonitorTimer
    BY <1>2, <2>2 DEF MonitorTimer
  <2>3. CASE MonitorChecks \/ MonitorUnpauses
    BY <2>3 DEF MonitorChecks, MonitorUnpauses, Runs
  <2> QED
    BY <2>1, <2>2, <2>3
<1>4. \E e \in Seq(Coroutines) : ~In(e, main) /\ Adds(e)
  BY <1>2, <1>3, NotMain
<1> QED
  BY <1>1, <1>4, EndStays

\* main itself runs only when the processor has ended.
LEMMA MainEnds ==
  ASSUME IInv, EndInv, MainCalls \/ MainNonePut \/ MainAsksLock \/ MainStops,
         UNCHANGED <<tpc, trainerVars>>
  PROVE  EndInv'
<1> USE DEF Over, MainRest, procVars, trainerVars
<1>1. UNCHANGED <<ppc, tpc, final>> /\ epc' # "run"
  BY DEF MainCalls, MainNonePut, MainAsksLock, MainStops
<1>2. epc # "run" \/ In(ready, main)
  <2>1. ASSUME MainCalls PROVE In(ready, main)
    <3>1. ready # <<>> /\ ready \in Seq(Coroutines) /\ Head(ready) = main
      BY <2>1, LoopTypes DEF MainCalls, Runs
    <3>2. 1 \in 1..Len(ready) /\ ready[1] = main
      BY <3>1, EmptySeq, LenProperties
    <3> QED
      BY <3>2 DEF In
  <2> QED
    BY <2>1 DEF MainNonePut, MainAsksLock, MainStops
<1> QED
  BY <1>1, <1>2 DEF EndInv

LEMMA TrainerEnds == ASSUME IInv, PlaceInv, EndInv, TrainerNext PROVE EndInv'
<1> USE DEF Over, RollouterRest, rollouterVars, loopVars, procVars, trainerVars
<1>1. CASE Collect
  <2>1. tpc' = "endwait" => epc # "run"
    <3>1. ASSUME Head(mq) = NoSample PROVE epc # "run"
      <4>1. mq \in Seq(Samples \cup {NoSample}) /\ mq # <<>>
        BY <1>1, Placed DEF Collect
      <4>2. 1 \in 1..Len(mq) /\ mq[1] = NoSample
        BY <3>1, <4>1, EmptySeq, LenProperties
      <4> QED
        BY <4>2 DEF PlaceInv, Elems
    <3> QED
      BY <1>1, <3>1 DEF Collect
  <2> QED
    BY <1>1, <2>1 DEF EndInv, Collect
<1>2. CASE Train \/ TransferBegins \/ LastBatchDone \/ FitEnds
  BY <1>2 DEF EndInv, Train, TransferBegins, LastBatchDone, FitEnds
<1>3. CASE SyncWeights \/ TransferEnds
  <2>1. /\ UNCHANGED <<ppc, epc, final>>
        /\ tpc' \in {"endwait", "finwait", "done"} => final
    BY <1>3 DEF SyncWeights, TransferEnds
  <2>2. Adds(<<sync>>) /\ sync \in Coroutines \ {main}
    BY <1>3, AddsLemma, Constants DEF SyncWeights, TransferEnds
  <2> QED
    BY <2>1, <2>2, NotMain, EndStays
<1> QED
  BY <1>1, <1>2, <1>3 DEF TrainerNext

LEMMA EndKeeps == IInv /\ PlaceInv /\ EndInv /\ [Next]_vars => EndInv'
<1> SUFFICES ASSUME IInv, PlaceInv, EndInv, [Next]_vars PROVE EndInv'
  OBVIOUS
<1>1. CASE UNCHANGED vars
  BY <1>1 DEF vars, rollouterVars, loopVars, procVars, trainerVars, EndInv, Over
<1> QED
  BY <1>1, ProcessorEnds, SyncEnds, TasksEnd, OthersEnd, MainEnds, TrainerEnds
     DEF Next, LoopStep, Event

LEMMA EndInit == Init => EndInv
<1> SUFFICES ASSUME Init PROVE EndInv
  OBVIOUS
<1>1. ready = <<feeder, processor>> /\ epc = "run" /\ final = FALSE /\ tpc = "collect"
  BY DEF Init, RollouterInit
<1>2. ~In(ready, main)
  BY <1>1 DEF In, feeder, processor, main
<1> QED
  BY <1>1, <1>2 DEF EndInv

-----------------------------------------------------------------------------
(* The trainer's chain: batches, versions and the synchronizer's calls *)

Syncing == tpc \in {"wait", "pause", "weights"}

\* A batch is complete when it is trained on; a synchronisation begins with none and sends
\* the version of the trainer, which is ahead of the servers' only until they have it.
ChainInv ==
  /\ spc \in {"pause", "pauseL", "cancel", "gather", "kv", "paused"} => tpc \in {"pause", "weights"}
  /\ Syncing => local_trigger_step = 1
  /\ final => local_trigger_step = 1 /\ tpc \in {"wait", "pause", "weights", "finwait", "done"}
  /\ tpc = "finwait" => final
  /\ tpc = "train" => Len(buf) = required_samples
  /\ tpc = "collect" => Len(buf) < required_samples
  /\ tpc \notin {"collect", "train"} => buf = <<>>
  /\ tver = wver + (IF Syncing THEN 1 ELSE 0)
  /\ tpc \in {"pause", "weights"} => sver = tver

\* How the calls of the synchronizer follow one another.
LEMMA SyncSteps ==
  ASSUME Sync \/ PauseGathered \/ SyncAnswer, UNCHANGED <<tpc, trainerVars>>
  PROVE  /\ UNCHANGED <<tpc, trainerVars, epc, ppc>>
         /\ \/ spc' = spc
            \/ spc = "pause" /\ spc' = "pauseL"
            \/ spc = "pauseL" /\ spc' \in {"cancel", "gather"}
            \/ spc = "cancel" /\ spc' = "gather"
            \/ spc = "gather" /\ spc' = "kv" /\ Unfinished' = {} /\ finished' = 0
            \/ spc = "kv" /\ spc' = "paused"
            \/ spc = "update" /\ spc' = "updL"
            \/ spc = "updL" /\ spc' = "size"
            \/ spc = "size" /\ spc' = "report"
            \/ spc = "report" /\ spc' = "resume"
            \/ spc = "resume" /\ spc' = "resL"
            \/ spc = "resL" /\ spc' = "server"
            \/ spc = "server" /\ spc' = "idle"
<1> USE DEF SyncRest, procVars
<1>1. CASE Sync
  BY <1>1 DEF Sync, SyncEnters, PauseLocked, PauseReturns, UpdateLocked, UpdateCounted,
              UpdateReturns, ResumeLocked, ResumeReturns
<1>2. CASE PauseGathered
  BY <1>2 DEF PauseGathered, Gathered, Unfinished
<1>3. CASE SyncAnswer
  BY <1>3 DEF SyncAnswer
<1> QED
  BY <1>1, <1>2, <1>3

\* Every other step of the rollouter leaves the calls of the synchronizer and the trainer.
LEMMA SideSteps ==
  ASSUME [Next]_vars, ~TrainerNext, ~(Sync \/ PauseGathered \/ SyncAnswer)
  PROVE  UNCHANGED <<tpc, trainerVars, spc, ssum>>
<1> USE DEF rollouterVars, syncVars
<1>1. ASSUME Processor \/ Feed PROVE UNCHANGED <<spc, ssum>>
  BY <1>1 DEF Processor, Feed, ProcTop, ProcSetPause, ProcTakeCancelled, ProcTakePending,
     ProcGetWaits, ProcDrain, ProcAwait, WaitReturns, ProcCollect, ProcCondition, ProcWoken, ProcRest
<1>2. ASSUME \/ MonitorChecks \/ MonitorUnpauses \/ MonitorTimer
             \/ MainCalls \/ MainNonePut \/ MainAsksLock \/ MainStops
      PROVE  UNCHANGED <<spc, ssum>>
  BY <1>2 DEF MonitorChecks, MonitorUnpauses, MonitorTimer, MonitorRest, MainCalls,
              MainNonePut, MainAsksLock, MainStops, MainRest
<1>3. ASSUME NEW i \in Samples, Task(i) \/ TaskEvent(i) PROVE UNCHANGED <<spc, ssum>>
  BY <1>3 DEF Task, TaskEvent, TaskStart, TaskPuts, TaskEnds, TaskRequeues, TaskFails,
              ServerAnswers, QueuePuts, QueueAnswers, TaskRest
<1>4. ASSUME UNCHANGED vars PROVE UNCHANGED <<tpc, trainerVars, spc, ssum>>
  BY <1>4 DEF vars
<1> QED
  BY <1>1, <1>2, <1>3, <1>4 DEF Next, LoopStep, Event

LEMMA ChainTypes ==
  ASSUME IInv
  PROVE  /\ tver \in Nat /\ wver \in Nat /\ sver \in Nat /\ Len(buf) \in Nat /\ Len(mq) \in Nat
         /\ local_trigger_step \in 1..Trigger /\ used \in [Samples -> Nat]
         /\ buf \in Seq(Samples) /\ mq \in Seq(Samples \cup {NoSample})
         /\ required_samples \in Nat \ {0} /\ Trigger \in Nat \ {0} /\ max_required_samples \in Nat \ {0}
         /\ Len(<<>>) = 0 /\ NoSample \notin Samples
BY FlatLemma, LenProperties, Constants, RollouterAssumption DEF Flat, IInv, NoSample

LEMMA SideChain ==
  ASSUME ChainInv, UNCHANGED <<tpc, trainerVars, wver, sver>>,
         spc' = spc \/ spc' \notin {"pause", "pauseL", "cancel", "gather", "kv", "paused"}
                    \/ spc \in {"pause", "pauseL", "cancel", "gather", "kv", "paused"}
  PROVE  ChainInv'
BY DEF ChainInv, Syncing, trainerVars

\* Outside the trainer nobody changes versions.
LEMMA VersionsStay == ASSUME [Next]_vars, ~TrainerNext PROVE UNCHANGED <<wver, sver>>
<1> USE DEF rollouterVars, syncVars, serverVars
<1>1. ASSUME Processor \/ Feed PROVE UNCHANGED <<wver, sver>>
  BY <1>1 DEF Processor, Feed, ProcTop, ProcSetPause, ProcTakeCancelled, ProcTakePending,
     ProcGetWaits, ProcDrain, ProcAwait, WaitReturns, ProcCollect, ProcCondition, ProcWoken, ProcRest
<1>2. ASSUME \/ MonitorChecks \/ MonitorUnpauses \/ MonitorTimer
             \/ MainCalls \/ MainNonePut \/ MainAsksLock \/ MainStops
      PROVE  UNCHANGED <<wver, sver>>
  BY <1>2 DEF MonitorChecks, MonitorUnpauses, MonitorTimer, MonitorRest, MainCalls,
              MainNonePut, MainAsksLock, MainStops, MainRest
<1>3. ASSUME NEW i \in Samples, Task(i) \/ TaskEvent(i) PROVE UNCHANGED <<wver, sver>>
  BY <1>3 DEF Task, TaskEvent, TaskStart, TaskPuts, TaskEnds, TaskRequeues, TaskFails,
              ServerAnswers, QueuePuts, QueueAnswers, TaskRest
<1>4. ASSUME Sync \/ PauseGathered \/ SyncAnswer PROVE UNCHANGED <<wver, sver>>
  BY <1>4 DEF Sync, SyncEnters, PauseLocked, PauseReturns, UpdateLocked, UpdateCounted,
     UpdateReturns, ResumeLocked, ResumeReturns, PauseGathered, SyncAnswer, SyncRest, SyncSame
<1>5. ASSUME UNCHANGED vars PROVE UNCHANGED <<wver, sver>>
  BY <1>5 DEF vars
<1> QED
  BY <1>1, <1>2, <1>3, <1>4, <1>5 DEF Next, LoopStep, Event

\* What the trainer takes from the queue.
LEMMA CollectTakes ==
  ASSUME IInv, ChainInv, Collect
  PROVE  /\ mq \in Seq(Samples \cup {NoSample}) /\ mq # <<>> /\ mq' = Tail(mq)
         /\ UNCHANGED <<spc, sver, wver, tver, local_trigger_step, final, trained, phase, used>>
         /\ tpc = "collect" /\ ~final
         /\ \/ Head(mq) = NoSample /\ tpc' = "endwait" /\ buf' = <<>>
            \/ /\ Head(mq) \in Samples /\ buf' = Append(buf, Head(mq))
               /\ Len(buf') = Len(buf) + 1
               /\ tpc' = IF Len(buf') = required_samples THEN "train" ELSE "collect"
<1>1. mq \in Seq(Samples \cup {NoSample}) /\ mq # <<>>
  BY ChainTypes DEF Collect
<1>2. Head(mq) \in Samples \cup {NoSample}
  BY <1>1, HeadTailProperties
<1>3. tpc = "collect" /\ ~final
  BY DEF Collect, ChainInv
<1>4. ASSUME Head(mq) \in Samples PROVE Len(Append(buf, Head(mq))) = Len(buf) + 1
  BY <1>4, ChainTypes, AppendProperties
<1>5. /\ UNCHANGED <<spc, sver, wver, tver, local_trigger_step, final, trained, phase, used>>
      /\ mq' = Tail(mq)
  BY DEF Collect, RollouterRest, serverVars, taskVars
<1>6. Head(mq) = NoSample => tpc' = "endwait" /\ buf' = <<>>
  BY DEF Collect
<1>7. Head(mq) # NoSample =>
        buf' = Append(buf, Head(mq)) /\ tpc' = IF Len(buf') = required_samples THEN "train" ELSE "collect"
  BY DEF Collect
<1> QED
  BY <1>1, <1>2, <1>3, <1>4, <1>5, <1>6, <1>7, ChainTypes

LEMMA TrainerChain == ASSUME IInv, ChainInv, TrainerNext PROVE ChainInv'
<1> USE DEF rollouterVars, syncVars, serverVars, trainerVars, Syncing
<1>0. /\ tver \in Nat /\ wver \in Nat /\ Len(buf) \in Nat /\ Len(<<>>) = 0
      /\ required_samples \in Nat \ {0}
  BY ChainTypes
<1>1. CASE Collect
  <2>1. /\ UNCHANGED <<spc, sver, wver, tver, local_trigger_step, final>> /\ tpc = "collect" /\ ~final
        /\ \/ tpc' = "endwait" /\ buf' = <<>>
           \/ /\ Len(buf') = Len(buf) + 1
              /\ tpc' = IF Len(buf') = required_samples THEN "train" ELSE "collect"
    BY <1>1, CollectTakes
  <2>2. Len(buf) < required_samples
    BY <2>1 DEF ChainInv
  <2> QED
    BY <1>0, <2>1, <2>2 DEF ChainInv
<1>2. CASE Train
  <2>1. /\ tpc = "train" /\ UNCHANGED <<spc, sver, wver, final>> /\ buf' = <<>> /\ ~final
        /\ tver = wver
    BY <1>0, <1>2 DEF Train, ChainInv
  <2>2. \/ tpc' = "collect" /\ tver' = tver
        \/ tpc' = "wait" /\ local_trigger_step' = 1 /\ tver' = tver + 1
    BY <1>2 DEF Train
  <2>3. spc \notin {"pause", "pauseL", "cancel", "gather", "kv", "paused"}
    BY <2>1 DEF ChainInv
  <2> QED
    BY <1>0, <2>1, <2>2, <2>3 DEF ChainInv
<1>3. CASE SyncWeights
  BY <1>3 DEF SyncWeights, ChainInv, RollouterRest
<1>4. CASE TransferBegins
  BY <1>4 DEF TransferBegins, ChainInv
<1>5. CASE TransferEnds
  BY <1>0, <1>5 DEF TransferEnds, ChainInv, Loaded
<1>6. CASE LastBatchDone
  BY <1>0, <1>6 DEF LastBatchDone, LastSyncDone, ChainInv
<1>7. CASE FitEnds
  BY <1>7 DEF FitEnds, LastSyncDone, ChainInv
<1> QED
  BY <1>1, <1>2, <1>3, <1>4, <1>5, <1>6, <1>7 DEF TrainerNext

LEMMA ChainKeeps == IInv /\ ChainInv /\ [Next]_vars => ChainInv'
<1> SUFFICES ASSUME IInv, ChainInv, [Next]_vars PROVE ChainInv'
  OBVIOUS
<1>1. CASE TrainerNext
  BY <1>1, TrainerChain
<1>2. CASE ~TrainerNext /\ (Sync \/ PauseGathered \/ SyncAnswer)
  <2>1. UNCHANGED <<tpc, trainerVars>>
    BY <1>2 DEF Next, vars
  <2> QED
    BY <1>2, <2>1, SyncSteps, VersionsStay, SideChain
<1>3. CASE ~TrainerNext /\ ~(Sync \/ PauseGathered \/ SyncAnswer)
  BY <1>3, SideSteps, VersionsStay, SideChain
<1> QED
  BY <1>1, <1>2, <1>3

LEMMA ChainInit == Init => ChainInv
<1> SUFFICES ASSUME Init PROVE ChainInv
  OBVIOUS
<1>1. /\ spc = "idle" /\ tpc = "collect" /\ final = FALSE /\ buf = <<>> /\ local_trigger_step = 1
      /\ tver = 0 /\ wver = 0
  BY DEF Init, RollouterInit
<1> QED
  BY <1>1, RollouterAssumption DEF ChainInv, Syncing

-----------------------------------------------------------------------------
(* How old a sample can be when it is trained on *)

\* What the trainer uses up between two synchronisations.
Round == required_samples * Trigger

\* Requests and results of which the queue does not know yet.
Sent == {"gen", "ret", "put"}

\* The end signal was taken: nothing is trained on any more.
Ending == final \/ tpc \in {"endwait", "done"}

\* Samples that training up to here takes, if the queue had never had to wait.
Collected == (tver * Trigger + (local_trigger_step - 1)) * required_samples

\* Sample i has to be among the first Due[i] samples that are trained on.
Due == [i \in Samples |-> (used[i] + 2) * Round + max_required_samples]

InTime(q, n, due) == \A k \in 1..Len(q) : q[k] \in Samples => n + k <= due[q[k]]

\* A pause waits for all requests, so none is older than the weights before, and none that
\* is out when the weights are exchanged older than these; and the queue never holds more
\* than the limit.
AgeInv ==
  \A i \in Samples : phase[i] \in Sent =>
    /\ used[i] = wver \/ used[i] + 1 = wver
    /\ spc \in {"kv", "paused"} => used[i] = wver

LagInv ==
  /\ Len(mq) <= max_required_samples
  /\ ~Ending => InTime(buf, Collected, Due) /\ InTime(mq, Collected + Len(buf), Due)

\* Only the start of a task decides which weights a sample is generated with.
LEMMA WeightsChosen ==
  ASSUME IInv, [Next]_vars, NEW i \in Samples
  PROVE  /\ used'[i] = used[i] \/ (phase[i] = "new" /\ used'[i] = wver)
         /\ phase'[i] \in Sent => \/ phase[i] \in Sent /\ used'[i] = used[i]
                                  \/ used'[i] = wver
<1> USE DEF taskVars, procVars, rollouterVars
<1>1. /\ phase \in [Samples -> Live \cup {"idle", "done", "failed"}]
      /\ used \in [Samples -> Nat]
  BY Placed, ChainTypes
<1>2. ASSUME UNCHANGED <<phase, used>>
      PROVE  /\ used'[i] = used[i] \/ (phase[i] = "new" /\ used'[i] = wver)
             /\ phase'[i] \in Sent => \/ phase[i] \in Sent /\ used'[i] = used[i]
                                      \/ used'[i] = wver
  BY <1>2
<1>3. ASSUME NEW j \in Samples, Task(j) \/ TaskEvent(j)
      PROVE  /\ used'[i] = used[i] \/ (phase[i] = "new" /\ used'[i] = wver)
             /\ phase'[i] \in Sent => \/ phase[i] \in Sent /\ used'[i] = used[i]
                                      \/ used'[i] = wver
  <2>1. CASE TaskStart(j)
    BY <1>1, <2>1 DEF TaskStart, Sent
  <2>2. CASE TaskPuts(j) \/ TaskEnds(j) \/ TaskRequeues(j) \/ TaskFails(j)
             \/ QueuePuts(j) \/ QueueAnswers(j)
    BY <1>1, <2>2 DEF TaskPuts, TaskEnds, TaskRequeues, TaskFails, QueuePuts, QueueAnswers, Sent
  <2>3. CASE ServerAnswers(j)
    <3>1. PICK answer \in {"ret", "cut"} :
            phase' = [phase EXCEPT ![j] = answer] /\ phase[j] = "gen" /\ used' = used
      BY <2>3 DEF ServerAnswers
    <3> QED
      BY <1>1, <3>1 DEF Sent
  <2> QED
    BY <1>3, <2>1, <2>2, <2>3 DEF Task, TaskEvent
<1>4. ASSUME ProcCondition
      PROVE  used' = used /\ (phase'[i] \in Sent => phase[i] \in Sent)
  BY <1>1, <1>4 DEF ProcCondition, Sent
<1>5. ASSUME Feed \/ (Processor /\ ~ProcCondition) PROVE UNCHANGED <<phase, used>>
  BY <1>5 DEF Processor, Feed, ProcTop, ProcSetPause, ProcTakeCancelled, ProcTakePending,
     ProcGetWaits, ProcDrain, ProcAwait, WaitReturns, ProcCollect, ProcWoken, ProcRest
<1>6. ASSUME Sync \/ PauseGathered \/ SyncAnswer PROVE UNCHANGED <<phase, used>>
  BY <1>6 DEF Sync, SyncEnters, PauseLocked, PauseReturns, UpdateLocked, UpdateCounted,
     UpdateReturns, ResumeLocked, ResumeReturns, PauseGathered, SyncAnswer, SyncRest
<1>7. ASSUME \/ MonitorChecks \/ MonitorUnpauses \/ MonitorTimer
             \/ MainCalls \/ MainNonePut \/ MainAsksLock \/ MainStops
      PROVE  UNCHANGED <<phase, used>>
  BY <1>7 DEF MonitorChecks, MonitorUnpauses, MonitorTimer, MonitorRest, MainCalls,
              MainNonePut, MainAsksLock, MainStops, MainRest
<1>8. ASSUME TrainerNext PROVE UNCHANGED <<phase, used>>
  BY <1>8 DEF TrainerNext, Collect, Train, SyncWeights, TransferBegins, TransferEnds,
              LastBatchDone, FitEnds, RollouterRest
<1>9. ASSUME UNCHANGED vars PROVE UNCHANGED <<phase, used>>
  BY <1>9 DEF vars
<1> QED
  BY <1>2, <1>3, <1>4, <1>5, <1>6, <1>7, <1>8, <1>9 DEF Next, LoopStep, Event

LEMMA AgeKeeps == IInv /\ ChainInv /\ AgeInv /\ [Next]_vars => AgeInv'
<1> SUFFICES ASSUME IInv, ChainInv, AgeInv, [Next]_vars, NEW i \in Samples, phase'[i] \in Sent
             PROVE  /\ used'[i] = wver' \/ used'[i] + 1 = wver'
                    /\ spc' \in {"kv", "paused"} => used'[i] = wver'
  BY DEF AgeInv
<1>1. \/ phase[i] \in Sent /\ used'[i] = used[i]
      \/ used'[i] = wver
  BY WeightsChosen
<1>2. /\ used'[i] = wver \/ used'[i] + 1 = wver
      /\ spc \in {"kv", "paused"} => used'[i] = wver
  BY <1>1 DEF AgeInv
<1>3. CASE TransferEnds
  <2>1. spc = "paused" /\ wver' = wver + 1 /\ spc' = "update"
    BY <1>3 DEF TransferEnds, Loaded, ChainInv, Syncing, IInv, SyncInv
  <2> QED
    BY <1>2, <2>1
<1>4. CASE ~TransferEnds /\ TrainerNext
  <2>1. wver' = wver /\ spc' \in {spc, "pause"}
    BY <1>4 DEF TrainerNext, Collect, Train, SyncWeights, TransferBegins, LastBatchDone, FitEnds,
                rollouterVars, syncVars, serverVars
  <2> QED
    BY <1>2, <2>1
<1>5. CASE ~TrainerNext
  <2>1. wver' = wver
    BY <1>5, VersionsStay
  <2>2. CASE Sync \/ PauseGathered \/ SyncAnswer
    <3>1. UNCHANGED <<tpc, trainerVars>>
      BY <1>5, <2>2 DEF Next, vars
    <3>2. spc' \in {"kv", "paused"} => spc \in {"kv", "paused"} \/ Unfinished' = {}
      BY <2>2, <3>1, SyncSteps
    <3>3. Unfinished' # {}
      BY DEF Unfinished, Sent, Live
    <3> QED
      BY <1>2, <2>1, <3>2, <3>3
  <2>3. CASE ~(Sync \/ PauseGathered \/ SyncAnswer)
    BY <1>2, <1>5, <2>1, <2>3, SideSteps
  <2> QED
    BY <2>2, <2>3
<1> QED
  BY <1>3, <1>4, <1>5

\* Deadlines under the operations of the queue.
LEMMA InTimeTail ==
  ASSUME NEW S, NEW q \in Seq(S), q # <<>>, NEW n \in Int, NEW d, InTime(q, n, d),
         \A i \in Samples : d[i] \in Int
  PROVE  /\ InTime(Tail(q), n + 1, d) /\ InTime(Tail(q), n, d)
         /\ Head(q) \in Samples => n + 1 <= d[Head(q)]
<1>1. /\ Len(Tail(q)) = Len(q) - 1 /\ Len(q) \in Nat /\ Len(q) > 0 /\ Head(q) = q[1]
      /\ \A k \in 1..Len(Tail(q)) : Tail(q)[k] = q[k + 1]
  BY HeadTailProperties, LenProperties, EmptySeq
<1>2. ASSUME NEW k \in 1..Len(Tail(q)), Tail(q)[k] \in Samples
      PROVE  n + 1 + k <= d[Tail(q)[k]] /\ n + k <= d[Tail(q)[k]]
  <2>1. k + 1 \in 1..Len(q) /\ q[k + 1] = Tail(q)[k]
    BY <1>1
  <2>2. n + (k + 1) <= d[Tail(q)[k]] /\ d[Tail(q)[k]] \in Int
    BY <1>2, <2>1 DEF InTime
  <2> QED
    BY <1>1, <2>2
<1> QED
  BY <1>1, <1>2 DEF InTime

LEMMA InTimeAppend ==
  ASSUME NEW S, NEW q \in Seq(S), NEW c \in S, NEW n \in Int, NEW d, InTime(q, n, d),
         c \in Samples => n + (Len(q) + 1) <= d[c]
  PROVE  InTime(Append(q, c), n, d)
<1>1. /\ Len(Append(q, c)) = Len(q) + 1 /\ Len(q) \in Nat
      /\ \A k \in 1..Len(q) : Append(q, c)[k] = q[k]
      /\ Append(q, c)[Len(q) + 1] = c
  BY AppendProperties, LenProperties
<1> QED
  BY <1>1 DEF InTime

\* What is in the queue or in a batch keeps its deadline.
LEMMA InTimeStays ==
  ASSUME NEW S, NEW q \in Seq(S), NEW n \in Int, NEW m \in Int, n <= m,
         NEW d, NEW e, InTime(q, m, d), \A i \in Samples : d[i] \in Int,
         \A i \in Samples : i \in Elems(q) => e[i] = d[i]
  PROVE  InTime(q, n, e)
<1> SUFFICES ASSUME NEW k \in 1..Len(q), q[k] \in Samples PROVE n + k <= e[q[k]]
  BY DEF InTime
<1>1. q[k] \in Elems(q)
  BY DEF Elems
<1>2. m + k <= d[q[k]] /\ e[q[k]] = d[q[k]] /\ d[q[k]] \in Int
  BY <1>1 DEF InTime
<1> QED
  BY <1>2

LEMMA DueLemma ==
  ASSUME IInv, IInv', PlaceInv, [Next]_vars
  PROVE  /\ \A i \in Samples : Due[i] \in Int /\ Due'[i] \in Int
         /\ \A i \in Samples : i \in Elems(mq) \cup Elems(buf) => Due'[i] = Due[i]
         /\ \A i \in Samples : Due[i] = (used[i] + 2) * Round + max_required_samples
         /\ \A i \in Samples : Due'[i] = (used'[i] + 2) * Round + max_required_samples
<1>1. /\ \A i \in Samples : Due[i] = (used[i] + 2) * Round + max_required_samples
      /\ \A i \in Samples : Due'[i] = (used'[i] + 2) * Round + max_required_samples
  BY DEF Due, Round
<1>2. Round \in Nat /\ max_required_samples \in Nat
  BY ChainTypes DEF Round
<1>3. \A i \in Samples : used[i] \in Nat /\ used'[i] \in Nat
  <2>1. used \in [Samples -> Nat] /\ used' \in [Samples -> Nat]
    BY ChainTypes, FlatNext DEF Flat, IInv
  <2> QED
    BY <2>1
<1>4. ASSUME NEW i \in Samples, i \in Elems(mq) \cup Elems(buf) PROVE used'[i] = used[i]
  <2>1. phase[i] # "new"
    BY <1>4 DEF PlaceInv, Settled
  <2> QED
    BY <2>1, WeightsChosen
<1> QED
  BY <1>1, <1>2, <1>3, <1>4

LEMMA CollectedLemma ==
  ASSUME IInv PROVE Collected \in Int /\ Round \in Nat \ {0} /\ Collected + Len(buf) \in Int
<1>1. /\ tver \in Nat /\ Trigger \in Nat \ {0} /\ local_trigger_step \in Int
      /\ required_samples \in Nat \ {0} /\ Len(buf) \in Nat
  BY ChainTypes
<1>2. Collected \in Int
  <2>1. tver * Trigger \in Int /\ local_trigger_step - 1 \in Int
    BY <1>1
  <2>2. tver * Trigger + (local_trigger_step - 1) \in Int
    BY <2>1
  <2> QED
    BY <1>1, <2>2 DEF Collected
<1>3. Round \in Nat \ {0}
  BY <1>1 DEF Round
<1> QED
  BY <1>1, <1>2, <1>3

\* A finished request reaches the queue in time: with the versions it may be behind, and
\* with as many samples before it as the queue holds.
LEMMA PutInTime ==
  ASSUME IInv, ChainInv, AgeInv, ~Ending, NEW i \in Samples, phase[i] \in Sent
  PROVE  Collected + Len(buf) <= (used[i] + 2) * Round
<1>1. /\ tver \in Nat /\ wver \in Nat /\ Trigger \in Nat \ {0} /\ local_trigger_step \in 1..Trigger
      /\ required_samples \in Nat \ {0} /\ Len(buf) \in Nat /\ used[i] \in Nat
  BY ChainTypes
<1>2. wver <= used[i] + 1
  BY <1>1 DEF AgeInv
<1>3. CASE Syncing
  <2>1. tver <= used[i] + 2 /\ local_trigger_step = 1 /\ Len(buf) = 0
    BY <1>1, <1>2, <1>3, ChainTypes DEF ChainInv, Syncing
  <2>2. Collected = tver * Round
    BY <1>1, <2>1 DEF Collected, Round
  <2>3. tver * Round <= (used[i] + 2) * Round
    <3>1. PICK e \in Nat : used[i] + 2 = tver + e
      <4>1. (used[i] + 2) - tver \in Nat /\ used[i] + 2 = tver + ((used[i] + 2) - tver)
        BY <1>1, <2>1
      <4> QED
        BY <4>1
    <3>2. Round \in Nat /\ e * Round \in Nat
      BY CollectedLemma
    <3> QED
      BY <1>1, <3>1, <3>2
  <2> QED
    BY <1>1, <2>1, <2>2, <2>3, CollectedLemma
<1>4. CASE ~Syncing
  <2>1. tver <= used[i] + 1 /\ Len(buf) <= required_samples
    BY <1>1, <1>2, <1>4, ChainTypes DEF ChainInv
  <2>2. PICK e \in Nat : used[i] + 1 = tver + e
    <3>1. (used[i] + 1) - tver \in Nat /\ used[i] + 1 = tver + ((used[i] + 1) - tver)
      BY <1>1, <2>1
    <3> QED
      BY <3>1
  <2>3. PICK d \in Nat : Trigger = local_trigger_step + d
    <3>1. Trigger - local_trigger_step \in Nat
          /\ Trigger = local_trigger_step + (Trigger - local_trigger_step)
      BY <1>1
    <3> QED
      BY <3>1
  <2>4. PICK t \in Nat, r \in Nat, b \in Nat, s \in Nat :
          /\ t = tver /\ r = required_samples /\ b = Len(buf) /\ s + 1 = local_trigger_step
    <3>1. local_trigger_step - 1 \in Nat /\ (local_trigger_step - 1) + 1 = local_trigger_step
      BY <1>1
    <3> QED
      BY <1>1, <3>1
  <2>5. Trigger = s + 1 + d /\ local_trigger_step - 1 = s
    BY <2>3, <2>4
  <2>6. Collected = (t * (s + 1 + d) + s) * r
    BY <2>4, <2>5 DEF Collected
  <2>7. (used[i] + 2) * Round = (t + e + 1) * (r * (s + 1 + d))
    <3>1. used[i] + 2 = t + e + 1
      BY <1>1, <2>2, <2>4
    <3> QED
      BY <2>4, <2>5, <3>1 DEF Round
  <2>8. (t + e + 1) * (r * (s + 1 + d)) = (t * (s + 1 + d) + s) * r + r + d * r + e * (r * (s + 1 + d))
    <3>1. t \in Nat /\ e \in Nat /\ r \in Nat /\ s \in Nat /\ d \in Nat
      BY <2>2, <2>3, <2>4
    <3> QED
      BY ONLY <3>1
  <2>9. d * r \in Nat /\ e * (r * (s + 1 + d)) \in Nat /\ (t * (s + 1 + d) + s) * r \in Nat
    <3>1. t \in Nat /\ e \in Nat /\ r \in Nat /\ s \in Nat /\ d \in Nat
      BY <2>2, <2>3, <2>4
    <3>2. s + 1 + d \in Nat
      BY ONLY <3>1
    <3>3. r * (s + 1 + d) \in Nat /\ t * (s + 1 + d) \in Nat
      BY ONLY <3>1, <3>2
    <3>4. t * (s + 1 + d) + s \in Nat
      BY ONLY <3>1, <3>3
    <3> QED
      BY ONLY <3>1, <3>3, <3>4
  <2> QED
    BY <2>1, <2>4, <2>6, <2>7, <2>8, <2>9
<1> QED
  BY <1>3, <1>4

\* Who puts into the queue, and who takes out.
LEMMA QueueSteps ==
  ASSUME [Next]_vars, ~TrainerNext
  PROVE  \/ mq' = mq
         \/ MainNonePut
         \/ \E i \in Samples : QueuePuts(i)
<1> USE DEF mqVars, rollouterVars
<1>1. ASSUME Processor \/ Feed PROVE mq' = mq
  BY <1>1 DEF Processor, Feed, ProcTop, ProcSetPause, ProcTakeCancelled, ProcTakePending,
     ProcGetWaits, ProcDrain, ProcAwait, WaitReturns, ProcCollect, ProcCondition, ProcWoken, ProcRest
<1>2. ASSUME \/ MonitorChecks \/ MonitorUnpauses \/ MonitorTimer
             \/ MainCalls \/ MainAsksLock \/ MainStops
      PROVE  mq' = mq
  BY <1>2 DEF MonitorChecks, MonitorUnpauses, MonitorTimer, MonitorRest, MainCalls,
              MainAsksLock, MainStops, MainRest
<1>3. ASSUME NEW i \in Samples, Task(i) \/ TaskEvent(i) PROVE mq' = mq \/ QueuePuts(i)
  BY <1>3 DEF Task, TaskEvent, TaskStart, TaskPuts, TaskEnds, TaskRequeues, TaskFails,
              ServerAnswers, QueueAnswers
<1>4. ASSUME Sync \/ PauseGathered \/ SyncAnswer PROVE mq' = mq
  BY <1>4 DEF Sync, SyncEnters, PauseLocked, PauseReturns, UpdateLocked, UpdateCounted,
     UpdateReturns, ResumeLocked, ResumeReturns, PauseGathered, SyncAnswer, SyncRest
<1>5. ASSUME UNCHANGED vars PROVE mq' = mq
  BY <1>5 DEF vars
<1> QED
  BY <1>1, <1>2, <1>3, <1>4, <1>5 DEF Next, LoopStep, Event

\* Room has been made: nothing is later than before.
LEMMA RoomInTime ==
  ASSUME IInv, PlaceInv, Len(mq) <= max_required_samples, NEW n \in Int, NEW d, InTime(mq, n, d),
         \A i \in Samples : d[i] \in Int
  PROVE  InTime(Room, n, d)
BY ChainTypes, InTimeTail, EmptySeq DEF Room, MakeRoom, IsFull

\* The queue, when the rollouter steps.
LEMMA QueueInTime ==
  ASSUME IInv, IInv', PlaceInv, ChainInv, AgeInv, LagInv, [Next]_vars, ~TrainerNext
  PROVE  /\ Len(mq') <= max_required_samples
         /\ ~Ending => InTime(mq', Collected + Len(buf), Due')
<1>0. /\ Len(mq) <= max_required_samples /\ mq \in Seq(Samples \cup {NoSample})
      /\ Collected + Len(buf) \in Int
  BY ChainTypes, CollectedLemma DEF LagInv
<1>1. /\ \A i \in Samples : Due[i] \in Int /\ Due'[i] \in Int
      /\ \A i \in Samples : i \in Elems(mq) => Due'[i] = Due[i]
      /\ \A i \in Samples : Due'[i] = (used'[i] + 2) * Round + max_required_samples
  BY DueLemma
<1>2. ~Ending => InTime(mq, Collected + Len(buf), Due')
  <2> HAVE ~Ending
  <2>1. PICK n \in Int : n = Collected + Len(buf)
    BY <1>0
  <2>2. InTime(mq, n, Due) /\ n <= n
    BY <2>1 DEF LagInv
  <2> HIDE DEF Due, Collected
  <2>3. InTime(mq, n, Due')
    BY <1>0, <1>1, <2>2, InTimeStays
  <2> QED
    BY <2>1, <2>3
<1> HIDE DEF Due, Collected
<1>3. CASE mq' = mq
  BY <1>0, <1>2, <1>3
<1>4. CASE MainNonePut
  <2>1. mq' = Append(Room, NoSample)
    BY <1>4, PutAppends DEF MainNonePut
  <2>2. ~Ending => InTime(Room, Collected + Len(buf), Due')
    BY <1>0, <1>1, <1>2, RoomInTime
  <2>3. NoSample \in Samples \cup {NoSample} /\ NoSample \notin Samples
    BY ChainTypes
  <2>4. /\ Room \in Seq(Samples \cup {NoSample}) /\ Len(Room) \in Nat
        /\ Len(Room) + 1 <= max_required_samples /\ Len(Append(Room, NoSample)) = Len(Room) + 1
    BY <1>0, RoomLength
  <2> HIDE DEF Room
  <2> QED
    BY <1>0, <2>1, <2>2, <2>3, <2>4, InTimeAppend
<1>5. ASSUME NEW i \in Samples, QueuePuts(i)
      PROVE  /\ Len(mq') <= max_required_samples
             /\ ~Ending => InTime(mq', Collected + Len(buf), Due')
  <2>1. mq' = Append(Room, i) /\ phase[i] \in Sent /\ used' = used
    BY <1>5, PutAppends DEF QueuePuts, Sent
  <2>2. ~Ending => InTime(Room, Collected + Len(buf), Due')
    BY <1>0, <1>1, <1>2, RoomInTime
  <2>3. /\ Room \in Seq(Samples \cup {NoSample}) /\ Len(Room) \in Nat
        /\ Len(Room) + 1 <= max_required_samples /\ Len(Append(Room, i)) = Len(Room) + 1
    BY <1>0, RoomLength
  <2>4. ~Ending => Collected + Len(buf) + (Len(Room) + 1) <= Due'[i]
    <3> HAVE ~Ending
    <3>1. Collected + Len(buf) <= (used[i] + 2) * Round
      BY <2>1, PutInTime
    <3>2. Due'[i] = (used[i] + 2) * Round + max_required_samples
      BY <1>1, <2>1
    <3>3. PICK n \in Int, u \in Int, l \in Int : n = Collected + Len(buf) /\ u = (used[i] + 2) * Round
                                      /\ l = Len(Room) + 1
      <4>1. used[i] \in Nat /\ Round \in Nat
        BY ChainTypes, CollectedLemma
      <4>2. (used[i] + 2) * Round \in Int /\ Len(Room) + 1 \in Int
        BY <2>3, <4>1
      <4> QED
        BY <1>0, <4>2
    <3>4. n + l <= u + max_required_samples
      <4>1. n <= u /\ l <= max_required_samples /\ max_required_samples \in Nat
        BY <2>3, <3>1, <3>3, ChainTypes
      <4> QED
        BY <3>3, <4>1
    <3> QED
      BY <3>2, <3>3, <3>4
  <2> HIDE DEF Room
  <2>5. ~Ending => InTime(Append(Room, i), Collected + Len(buf), Due')
    BY <1>0, <2>2, <2>3, <2>4, InTimeAppend
  <2> QED
    BY <2>1, <2>3, <2>5
<1> QED
  BY <1>3, <1>4, <1>5, QueueSteps

\* The trainer's steps: a training step moves the batch from the queue's future to its past.
LEMMA TrainerLag ==
  ASSUME IInv, IInv', PlaceInv, ChainInv, LagInv, [Next]_vars, TrainerNext
  PROVE  LagInv'
<1>0. /\ Len(mq) <= max_required_samples /\ mq \in Seq(Samples \cup {NoSample})
      /\ buf \in Seq(Samples) /\ Collected \in Int /\ Len(buf) \in Nat /\ Len(mq) \in Nat
      /\ max_required_samples \in Nat /\ Len(<<>>) = 0 /\ NoSample \notin Samples
  BY ChainTypes, CollectedLemma DEF LagInv
<1>1. \A i \in Samples : Due[i] \in Int
  BY DueLemma
<1>2. ~Ending => InTime(buf, Collected, Due) /\ InTime(mq, Collected + Len(buf), Due)
  BY DEF LagInv
<1>3. \A n : InTime(<<>>, n, Due)
  BY <1>0 DEF InTime
<1>4. CASE Collect
  <2>1. /\ mq' = Tail(mq) /\ mq # <<>> /\ tpc = "collect" /\ ~final
        /\ UNCHANGED <<used, tver, local_trigger_step, final>>
        /\ \/ Head(mq) = NoSample /\ tpc' = "endwait"
           \/ /\ Head(mq) \in Samples /\ buf' = Append(buf, Head(mq))
              /\ Len(buf') = Len(buf) + 1
    BY <1>4, CollectTakes
  <2>2. Due' = Due /\ Collected' = Collected /\ ~Ending
    BY <2>1 DEF Due, Collected, Ending
  <2>3. Len(mq') <= max_required_samples
    BY <1>0, <2>1, HeadTailProperties
  <2>4. CASE Head(mq) = NoSample
    <3>1. Ending'
      BY <1>0, <2>1, <2>4 DEF Ending
    <3> QED
      BY <2>3, <3>1 DEF LagInv
  <2>5. CASE Head(mq) \in Samples
    <3>1. PICK n \in Int : n = Collected + Len(buf)
      BY <1>0
    <3>2. buf' = Append(buf, Head(mq)) /\ Len(buf') = Len(buf) + 1
      BY <1>0, <2>1, <2>5
    <3> HIDE DEF Collected, Due
    <3>3. InTime(mq, n, Due) /\ InTime(buf, Collected, Due)
      BY <1>2, <2>2, <3>1
    <3>4. InTime(Tail(mq), n + 1, Due) /\ n + 1 <= Due[Head(mq)]
      BY <1>0, <1>1, <2>1, <2>5, <3>3, InTimeTail
    <3>5. n + 1 = Collected + (Len(buf) + 1)
      BY <1>0, <3>1
    <3>6. InTime(Append(buf, Head(mq)), Collected, Due)
      BY <1>0, <2>5, <3>3, <3>4, <3>5, InTimeAppend
    <3> QED
      BY <2>1, <2>2, <2>3, <3>2, <3>4, <3>5, <3>6 DEF LagInv
  <2> QED
    BY <2>1, <2>4, <2>5
<1>5. CASE Train
  <2>1. /\ tpc = "train" /\ buf' = <<>> /\ UNCHANGED <<mq, used, final>>
        /\ tpc' \in {"wait", "collect"} /\ Len(buf) = required_samples /\ ~final
    BY <1>5 DEF Train, ChainInv, rollouterVars, mqVars, taskVars
  <2>2. Collected' = Collected + required_samples
    <3>1. /\ tver \in Nat /\ Trigger \in Nat \ {0} /\ local_trigger_step \in 1..Trigger
          /\ required_samples \in Nat \ {0}
      BY ChainTypes
    <3>2. CASE SyncDue
      <4>1. local_trigger_step = Trigger /\ tver' = tver + 1 /\ local_trigger_step' = 1
        BY <1>5, <3>2 DEF Train, SyncDue
      <4>2. Collected' = ((tver + 1) * Trigger + (1 - 1)) * required_samples
        BY <4>1 DEF Collected
      <4>3. Collected = (tver * Trigger + (Trigger - 1)) * required_samples
        BY <4>1 DEF Collected
      <4>4. (tver + 1) * Trigger + (1 - 1) = (tver * Trigger + (Trigger - 1)) + 1
        BY <3>1
      <4>5. tver * Trigger + (Trigger - 1) \in Int
        BY <3>1
      <4>6. PICK c \in Int : c = tver * Trigger + (Trigger - 1)
        BY <4>5
      <4>7. (c + 1) * required_samples = c * required_samples + required_samples
        BY <3>1
      <4> QED
        BY <4>2, <4>3, <4>4, <4>6, <4>7
    <3>3. CASE ~SyncDue
      <4>1. tver' = tver /\ local_trigger_step' = local_trigger_step + 1
        BY <1>5, <3>3 DEF Train
      <4>2. Collected' = (tver * Trigger + ((local_trigger_step + 1) - 1)) * required_samples
        BY <4>1 DEF Collected
      <4>3. PICK c \in Int : c = tver * Trigger + (local_trigger_step - 1)
        BY <3>1
      <4>4. tver * Trigger + ((local_trigger_step + 1) - 1) = c + 1
        BY <3>1, <4>3
      <4>5. (c + 1) * required_samples = c * required_samples + required_samples
        BY <3>1
      <4> QED
        BY <4>2, <4>3, <4>4, <4>5 DEF Collected
    <3> QED
      BY <3>2, <3>3
  <2>3. Due' = Due /\ ~Ending
    BY <2>1 DEF Due, Ending
  <2>4. Collected' + Len(buf') = Collected + Len(buf)
    BY <1>0, <2>1, <2>2
  <2> QED
    BY <1>0, <1>2, <1>3, <2>1, <2>3, <2>4 DEF LagInv
<1>6. CASE SyncWeights \/ TransferBegins \/ TransferEnds \/ LastBatchDone \/ FitEnds
  <2>1. UNCHANGED <<mq, used, buf>>
    BY <1>6 DEF SyncWeights, TransferBegins, TransferEnds, LastBatchDone, FitEnds, RollouterRest,
                rollouterVars, mqVars, taskVars, trainerVars
  <2>2. Ending' \/ (~Ending /\ UNCHANGED <<tver, local_trigger_step>>)
    BY <1>6 DEF SyncWeights, TransferBegins, TransferEnds, LastBatchDone, FitEnds, trainerVars,
                Ending, ChainInv
  <2>3. Due' = Due /\ (Ending' \/ (~Ending /\ Collected' = Collected))
    BY <2>1, <2>2 DEF Due, Collected
  <2> QED
    BY <1>0, <1>2, <2>1, <2>3 DEF LagInv
<1> QED
  BY <1>4, <1>5, <1>6 DEF TrainerNext

LEMMA LagKeeps ==
  IInv /\ PlaceInv /\ ChainInv /\ AgeInv /\ LagInv /\ [Next]_vars => LagInv'
<1> SUFFICES ASSUME IInv, PlaceInv, ChainInv, AgeInv, LagInv, [Next]_vars PROVE LagInv'
  OBVIOUS
<1>0. IInv'
  BY NextKeeps
<1>1. CASE TrainerNext
  BY <1>0, <1>1, TrainerLag
<1>2. CASE ~TrainerNext
  <2>1. UNCHANGED <<tpc, trainerVars>>
    BY <1>2 DEF Next, vars
  <2>2. /\ buf' = buf /\ Collected' = Collected /\ Ending' = Ending
    BY <2>1 DEF Collected, Ending, trainerVars
  <2>3. ~Ending => InTime(buf, Collected, Due')
    <3> HAVE ~Ending
    <3>1. /\ \A i \in Samples : Due[i] \in Int
          /\ \A i \in Samples : i \in Elems(buf) => Due'[i] = Due[i]
      BY <1>0, DueLemma
    <3>2. buf \in Seq(Samples) /\ Collected \in Int /\ Collected <= Collected
      BY ChainTypes, CollectedLemma
    <3>3. InTime(buf, Collected, Due)
      BY DEF LagInv
    <3> HIDE DEF Collected, Due
    <3> QED
      BY <3>1, <3>2, <3>3, InTimeStays
  <2> QED
    BY <1>0, <1>2, <2>2, <2>3, QueueInTime DEF LagInv
<1> QED
  BY <1>1, <1>2

LEMMA LagInit == Init => AgeInv /\ LagInv
<1> SUFFICES ASSUME Init PROVE AgeInv /\ LagInv
  OBVIOUS
<1>1. mq = <<>> /\ buf = <<>> /\ \A i \in Samples : phase[i] = "idle"
  BY DEF Init, RollouterInit
<1>2. Len(<<>>) = 0 /\ max_required_samples \in Nat
  BY InitIInv, ChainTypes
<1> QED
  BY <1>1, <1>2 DEF AgeInv, LagInv, InTime, Sent

\* No batch holds a sample older than the limit explains: the rounds it may have to wait
\* for, and one version more when it was requested while a pause waited for the others.  The
\* age counts from a sample's last segment, so that interruptions do not add to it.
THEOREM LagHolds == Spec => []LagBound
<1>1. Init => HandInv /\ PlaceInv /\ ChainInv /\ AgeInv /\ LagInv
  BY PlaceInit, ChainInit, LagInit
<1>2. IInv /\ HandInv /\ PlaceInv /\ ChainInv /\ AgeInv /\ LagInv /\ [Next]_vars =>
        HandInv' /\ PlaceInv' /\ ChainInv' /\ AgeInv' /\ LagInv'
  BY HandKeeps, PlaceKeeps, ChainKeeps, AgeKeeps, LagKeeps
<1>3. IInv /\ ChainInv /\ LagInv => LagBound
  <2> SUFFICES ASSUME IInv, ChainInv, LagInv, tpc = "train", NEW k \in 1..Len(buf)
               PROVE  tver - used[buf[k]] <= (max_required_samples + Round - 1) \div Round + 1
    BY DEF LagBound, Round
  <2>1. /\ tver \in Nat /\ Trigger \in Nat \ {0} /\ local_trigger_step \in 1..Trigger
        /\ required_samples \in Nat \ {0} /\ Len(buf) \in Nat /\ buf \in Seq(Samples)
        /\ used \in [Samples -> Nat] /\ max_required_samples \in Nat \ {0}
    BY ChainTypes
  <2>2. buf[k] \in Samples /\ used[buf[k]] \in Nat
    BY <2>1, ElementOfSeq
  <2>3. ~Ending
    BY DEF Ending, ChainInv
  <2>4. Collected + k <= (used[buf[k]] + 2) * Round + max_required_samples
    BY <2>2, <2>3 DEF LagInv, InTime, Due
  <2>5. PICK e \in Nat : local_trigger_step - 1 = e
    BY <2>1
  <2>6. PICK c \in Nat, u \in Nat, t \in Nat, r \in Nat \ {0}, m \in Nat \ {0} :
          /\ c = e * required_samples /\ u = used[buf[k]] /\ t = tver /\ r = Round
          /\ m = max_required_samples
    <3>1. e * required_samples \in Nat /\ Round \in Nat \ {0}
      BY <2>1, CollectedLemma
    <3> QED
      BY <2>1, <2>2, <3>1
  <2>7. Collected = t * r + c
    BY <2>1, <2>5, <2>6 DEF Collected, Round
  <2>8. t * r + 1 <= (u + 2) * r + m
    <3>1. t * r + c + k <= (u + 2) * r + m /\ k \in Nat /\ k >= 1
      BY <2>1, <2>4, <2>6, <2>7
    <3>2. t * r \in Nat /\ (u + 2) * r \in Nat
      OBVIOUS
    <3> QED
      BY <3>1, <3>2
  <2>9. ASSUME NEW q \in Int, NEW s \in 0..(r - 1), m + r - 1 = q * r + s
        PROVE  t - u <= q + 1
    <3>1. SUFFICES ASSUME t - u >= q + 2 PROVE FALSE
      BY <2>9
    <3>2. PICK d \in Nat : t = u + q + 2 + d
      <4>1. t - (u + q + 2) \in Nat /\ t = u + q + 2 + (t - (u + q + 2))
        BY <2>9, <3>1
      <4> QED
        BY <4>1
    <3>3. t * r = (u + 2) * r + q * r + d * r
      BY <2>9, <3>2
    <3>4. d * r \in Nat /\ (u + 2) * r \in Int /\ q * r \in Int
      BY <2>9
    <3> QED
      BY <2>8, <2>9, <3>3, <3>4
  <2>10. /\ (m + r - 1) \div r \in Int /\ (m + r - 1) % r \in 0..(r - 1)
         /\ m + r - 1 = ((m + r - 1) \div r) * r + ((m + r - 1) % r)
    <3>1. m + r - 1 \in Nat
      OBVIOUS
    <3> QED
      BY <3>1
  <2>11. t - u <= (m + r - 1) \div r + 1
    BY <2>9, <2>10
  <2> QED
    BY <2>6, <2>11
<1> QED
  BY <1>1, <1>2, <1>3, Invariance, PTL DEF Spec

-----------------------------------------------------------------------------
(* With staleness_threshold = 0 *)

\* The limit is what one synchronisation consumes.
Synchronous == max_required_samples = required_samples * Trigger

Updating == spc \in {"update", "updL", "size"}

\* How much of the limit the trainer has used up and the counter has not been told yet.
Behind ==
  IF ~final /\ (Syncing \/ Updating) THEN max_required_samples
  ELSE (local_trigger_step - 1) * required_samples

\* The counter is reset while the trainer waits for the first sample of the next round.
CallInv ==
  /\ ChainInv
  /\ Updating /\ ~final => tpc \in {"collect", "endwait"} /\ local_trigger_step = 1

\* From the end of a pause until the counter is reset no task is left.
IdleInv ==
  /\ spc \in {"kv", "paused"} \/ Updating => Unfinished = {} /\ finished = 0
  /\ final /\ tpc \in {"finwait", "done"} => Unfinished = {}

\* What is out, collected and used up since the last reset stays within the limit, and
\* within what the counter says while the processor works.
RoundInv ==
  /\ Out + Len(buf) + Behind <= max_required_samples
  /\ ~Over => /\ Out + Len(buf) + Behind <= staleness_samples
              /\ ppc \in {"get", "getwait"} => staleness_samples < max_required_samples
              /\ spc = "size" => ssum = 0

LEMMA Products ==
  ASSUME Synchronous
  PROVE  /\ required_samples \in Nat \ {0} /\ Trigger \in Nat \ {0} /\ max_required_samples \in Nat \ {0}
         /\ \A s \in 1..Trigger :
              /\ (s - 1) * required_samples \in Nat
              /\ (s - 1) * required_samples <= max_required_samples
              /\ ((s + 1) - 1) * required_samples = (s - 1) * required_samples + required_samples
              /\ s = Trigger => (s - 1) * required_samples + required_samples = max_required_samples
         /\ (1 - 1) * required_samples = 0
<1>1. /\ required_samples \in Nat \ {0} /\ Trigger \in Nat \ {0} /\ max_required_samples \in Nat \ {0}
      /\ max_required_samples = required_samples * Trigger
  BY RollouterAssumption DEF Synchronous
<1>2. ASSUME NEW r \in Nat, NEW t \in Nat, NEW s \in 1..t
      PROVE  /\ (s - 1) * r \in Nat /\ (s - 1) * r <= r * t
             /\ ((s + 1) - 1) * r = (s - 1) * r + r
             /\ s = t => (s - 1) * r + r = r * t
  <2>1. PICK d \in Nat : t = s + d
    <3>1. t - s \in Nat /\ t = s + (t - s)
      OBVIOUS
    <3> QED
      BY <3>1
  <2>2. PICK e \in Nat : s = e + 1
    <3>1. s - 1 \in Nat /\ s = (s - 1) + 1
      OBVIOUS
    <3> QED
      BY <3>1
  <2>3. e * r \in Nat /\ d * r \in Nat
    OBVIOUS
  <2>4. r * t = e * r + r + d * r /\ s - 1 = e /\ (s + 1) - 1 = e + 1 /\ (e + 1) * r = e * r + r
    BY <2>1, <2>2
  <2>5. s = t => d * r = 0
    <3>1. s = t => d = 0
      BY <2>1
    <3> QED
      BY <3>1
  <2> QED
    BY <2>3, <2>4, <2>5
<1> QED
  BY <1>1, <1>2

LEMMA BehindLemma ==
  ASSUME Synchronous, TypeOK
  PROVE  /\ Behind \in Nat /\ Len(buf) \in Nat /\ Out \in Nat
         /\ local_trigger_step \in 1..Trigger /\ staleness_samples \in Nat /\ ssum \in Nat
<1>1. /\ local_trigger_step \in 1..Trigger /\ Len(buf) \in Nat
      /\ staleness_samples \in Nat /\ ssum \in Nat
  BY FlatLemma, LenProperties DEF Flat
<1>2. Out \in Nat
  BY Numbers
<1> QED
  BY <1>1, <1>2, Products DEF Behind

LEMMA BehindNext ==
  ASSUME Synchronous
  PROVE  TypeOK' => (Behind \in Nat /\ Len(buf) \in Nat /\ Out \in Nat)'
<1>1. TypeOK => Behind \in Nat /\ Len(buf) \in Nat /\ Out \in Nat
  BY BehindLemma
<1> QED
  BY <1>1, PTL

\* What most steps do to the limit.
RoundStep ==
  /\ Out' + Len(buf)' + Behind' <= Out + Len(buf) + Behind
  /\ staleness_samples' = staleness_samples
  /\ Over => Over'
  /\ ppc' \in {"get", "getwait"} => ppc \in {"get", "getwait"}
  /\ spc' = "size" => spc = "size" /\ ssum' = ssum

LEMMA RoundLemma ==
  ASSUME Synchronous, TypeOK, TypeOK', RoundInv, RoundStep
  PROVE  RoundInv'
<1>1. PICK u \in Int : u = Out + Len(buf) + Behind
  BY BehindLemma
<1>2. PICK v \in Int : v = Out' + Len(buf)' + Behind'
  BY BehindNext
<1>3. u <= max_required_samples /\ (~Over => u <= staleness_samples)
  BY <1>1 DEF RoundInv
<1>4. v <= u /\ staleness_samples \in Nat /\ max_required_samples \in Nat
  BY <1>1, <1>2, BehindLemma, Products DEF RoundStep
<1>5. v <= max_required_samples /\ (~Over' => v <= staleness_samples')
  BY <1>3, <1>4 DEF RoundStep
<1> QED
  BY <1>2, <1>5 DEF RoundInv, RoundStep

\* A step of the rollouter that is not the synchronizer's.
LEMMA SideStep ==
  ASSUME Synchronous, TypeOK, TypeOK', RoundInv, Out' <= Out,
         UNCHANGED <<staleness_samples, spc, ssum, tpc, trainerVars>>,
         Over => Over', ppc' \in {"get", "getwait"} => ppc \in {"get", "getwait"}
  PROVE  RoundInv'
<1>1. Behind' = Behind /\ Len(buf)' = Len(buf)
  BY DEF Behind, Syncing, Updating, trainerVars
<1>2. Out' \in Nat
  BY BehindNext
<1>3. RoundStep
  BY <1>1, <1>2, BehindLemma DEF RoundStep
<1> QED
  BY <1>3, RoundLemma

-----------------------------------------------------------------------------
(* What moves samples, and what does not *)

LEMMA OutStays ==
  ASSUME TypeOK, UNCHANGED <<phase, cancel_queue, mq, hand>> PROVE Out' = Out
BY DEF Out, InFlight, InHand

\* Samples in the queue are out; so is the one in the processor's hand.
LEMMA OutParts ==
  ASSUME TypeOK
  PROVE  /\ Cardinality(Filled(mq)) <= Out /\ Len(cancel_queue) <= Out
         /\ hand \in Samples => 1 <= Out
         /\ Out = 0 => hand \notin Samples /\ cancel_queue = <<>> /\ Filled(mq) = {}
<1>1. /\ Cardinality(Tasks) \in Nat /\ Len(cancel_queue) \in Nat
      /\ Cardinality(Filled(mq)) \in Nat /\ InHand \in Nat
      /\ Out = Cardinality(Tasks) + Len(cancel_queue) + Cardinality(Filled(mq)) + InHand
  BY Before
<1>2. hand \in Samples => InHand = 1
  BY DEF InHand
<1>3. mq \in Seq(Samples \cup {NoSample}) /\ cancel_queue \in Seq(Samples)
  BY FlatLemma DEF Flat
<1>4. Cardinality(Filled(mq)) = 0 => Filled(mq) = {}
  BY <1>3, FilledLemma, FS_EmptySet
<1>5. Len(cancel_queue) = 0 => cancel_queue = <<>>
  BY <1>3, EmptySeq
<1>6. /\ Cardinality(Filled(mq)) <= Out /\ Len(cancel_queue) <= Out
      /\ hand \in Samples => 1 <= Out
  BY <1>1, <1>2
<1>7. Out = 0 => Cardinality(Filled(mq)) = 0 /\ Len(cancel_queue) = 0 /\ InHand = 0
  BY <1>1
<1> QED
  BY <1>2, <1>4, <1>5, <1>6, <1>7

\* A sample that the trainer takes is not out any more.
LEMMA TakeOut ==
  ASSUME IInv, TypeOK', mq # <<>>, Head(mq) # NoSample, mq' = Tail(mq),
         UNCHANGED <<phase, cancel_queue, hand>>
  PROVE  Out' + 1 <= Out
<1>1. mq \in Seq(Samples \cup {NoSample})
  BY Placed
<1>2. Cardinality(Filled(Tail(mq))) + 1 <= Cardinality(Filled(mq))
  <2>1. /\ Tail(mq) \in Seq(Samples \cup {NoSample}) /\ Len(Tail(mq)) = Len(mq) - 1
        /\ Len(mq) \in Nat /\ Len(mq) > 0 /\ Head(mq) = mq[1]
        /\ \A k \in 1..Len(Tail(mq)) : Tail(mq)[k] = mq[k + 1]
    BY <1>1, HeadTailProperties, LenProperties, EmptySeq
  <2> DEFINE f == [k \in Filled(Tail(mq)) |-> k + 1]
  <2>2. f \in Injection(Filled(Tail(mq)), Filled(mq) \ {1})
    <3>1. \A k \in Filled(Tail(mq)) : k + 1 \in Filled(mq) \ {1}
      BY <2>1 DEF Filled
    <3>2. \A j, k \in Filled(Tail(mq)) : j + 1 = k + 1 => j = k
      BY <2>1 DEF Filled
    <3> QED
      BY <3>1, <3>2 DEF Injection, IsInjective
  <2>3. IsFiniteSet(Filled(mq)) /\ 1 \in Filled(mq) /\ Cardinality(Filled(mq)) \in Nat
    <3>1. 1 \in Filled(mq)
      BY <2>1 DEF Filled
    <3> QED
      BY <1>1, <3>1, FilledLemma
  <2>4. /\ IsFiniteSet(Filled(mq) \ {1})
        /\ Cardinality(Filled(mq) \ {1}) = Cardinality(Filled(mq)) - 1
    BY <2>3, FS_RemoveElement
  <2> HIDE DEF f
  <2>5. Cardinality(Filled(Tail(mq))) <= Cardinality(Filled(mq) \ {1})
    BY <2>2, <2>4, FS_Injection
  <2>6. Cardinality(Filled(Tail(mq))) \in Nat
    BY <2>1, FilledLemma
  <2> QED
    BY <2>3, <2>4, <2>5, <2>6
<1>3. PICK f \in Int : f = Cardinality(Filled(mq))'
  BY SumsNext
<1>4. f + 1 <= Cardinality(Filled(mq))
  BY <1>2, <1>3
<1>5. Out' = Cardinality(Tasks) + Len(cancel_queue) + f + InHand
  BY <1>3 DEF Out, InFlight, Tasks, Filled, InHand
<1>6. PICK t \in Nat, c \in Nat, g \in Nat, h \in Nat :
        /\ t = Cardinality(Tasks) /\ c = Len(cancel_queue) /\ g = Cardinality(Filled(mq)) /\ h = InHand
        /\ Out = t + c + g + h
  BY Before, LoopTypes
<1>7. Out' = t + c + f + h /\ f + 1 <= g
  BY <1>4, <1>5, <1>6
<1>8. t \in Nat /\ c \in Nat /\ g \in Nat /\ h \in Nat /\ f \in Int
  OBVIOUS
<1>9. (t + c + f + h) + 1 <= t + c + g + h
  BY ONLY <1>7, <1>8
<1> QED
  BY <1>6, <1>7, <1>9

LEMMA MovesOut == ASSUME TypeOK, Moves PROVE Out' <= Out
<1>1. PICK t \in Int, c \in Int, f \in Int, h \in Int :
        Becomes(t, c, f, h) /\ t + c + f + h <= Out
  BY DEF Moves
<1>2. Out' = t + c + f + h
  BY <1>1 DEF Becomes, Out, InFlight, Tasks, Filled
<1> QED
  BY <1>1, <1>2

\* Only taking a sample that is pending lets more out.
LEMMA OutSteps ==
  ASSUME IInv, TypeOK', [Next]_vars, ~ProcTakePending PROVE Out' <= Out
<1> DEFINE Still == UNCHANGED <<phase, cancel_queue, mq, hand>>
<1> USE DEF procVars, taskVars, mqVars, rollouterVars
<1>0. TypeOK /\ Out \in Nat
  BY LoopTypes, Numbers
<1>1. Still => Out' <= Out
  BY <1>0, OutStays
<1> HIDE DEF Still
<1>2. ASSUME Processor PROVE Out' <= Out
  <2>1. CASE ProcTop \/ ProcSetPause \/ ProcGetWaits \/ ProcDrain \/ ProcAwait \/ WaitReturns
               \/ ProcCollect \/ ProcWoken
    <3>1. Still
      BY <2>1 DEF Still, ProcTop, ProcSetPause, ProcGetWaits, ProcDrain, ProcAwait, WaitReturns,
                  ProcCollect, ProcWoken, ProcRest
    <3> QED
      BY <1>1, <3>1
  <2>2. CASE ProcTakeCancelled \/ ProcCondition
    BY <2>2, ProcTakeCancelledFlow, ProcConditionFlow DEF Flow
  <2> QED
    BY <1>2, <2>1, <2>2 DEF Processor
<1>3. ASSUME Feed \/ Sync \/ PauseGathered \/ SyncAnswer PROVE Still
  BY <1>3 DEF Still, Feed, Sync, SyncEnters, PauseLocked, PauseReturns, UpdateLocked,
     UpdateCounted, UpdateReturns, ResumeLocked, ResumeReturns, PauseGathered, SyncAnswer, SyncRest
<1>4. ASSUME \/ MonitorChecks \/ MonitorUnpauses \/ MonitorTimer
             \/ MainCalls \/ MainAsksLock \/ MainStops
      PROVE  Still
  BY <1>4 DEF Still, MonitorChecks, MonitorUnpauses, MonitorTimer, MonitorRest, MainCalls,
              MainAsksLock, MainStops, MainRest
<1>5. ASSUME Train \/ SyncWeights \/ TransferBegins \/ TransferEnds \/ LastBatchDone \/ FitEnds
      PROVE  Still
  BY <1>5 DEF Still, Train, SyncWeights, TransferBegins, TransferEnds, LastBatchDone, FitEnds,
              RollouterRest
<1>6. ASSUME MainNonePut \/ Collect \/ \E i \in Samples : Task(i) \/ TaskEvent(i) PROVE Out' <= Out
  BY <1>0, <1>6, NoneMoves, CollectMoves, TaskMoves, TaskEventMoves, MovesOut
<1>7. ASSUME UNCHANGED vars PROVE Still
  BY <1>7 DEF Still, vars
<1> QED
  BY <1>1, <1>2, <1>3, <1>4, <1>5, <1>6, <1>7 DEF Next, LoopStep, Event, TrainerNext

-----------------------------------------------------------------------------
(* No task while the weights are exchanged *)

\* The limit is used up, or the processor has ended: nothing is out or in hand.
LEMMA UsedUp ==
  ASSUME Synchronous, TypeOK, RoundInv, ~final, Syncing \/ Updating
  PROVE  Out = 0 /\ Len(buf) = 0 /\ Behind = max_required_samples
<1>1. Behind = max_required_samples
  BY DEF Behind
<1>2. Out \in Nat /\ Len(buf) \in Nat /\ max_required_samples \in Nat
  BY BehindLemma, Products
<1>3. Out + Len(buf) + max_required_samples <= max_required_samples
  BY <1>1 DEF RoundInv
<1>4. PICK n \in Nat, b \in Nat : n = Out /\ b = Len(buf)
  BY <1>2
<1> QED
  BY <1>1, <1>2, <1>3, <1>4

LEMMA NoneBegins ==
  ASSUME Synchronous, IInv, EndInv, CallInv, RoundInv, [Next]_vars, Unfinished = {},
         spc \in {"kv", "paused"} \/ Updating \/ final
  PROVE  Unfinished' = {} /\ (finished = 0 => finished' = 0)
<1> DEFINE Still == phase' = phase /\ (finished' = finished \/ finished' = 0)
<1> USE DEF procVars, taskVars, rollouterVars
<1>1. Still => Unfinished' = {} /\ (finished = 0 => finished' = 0)
  BY DEF Unfinished
<1> HIDE DEF Still
<1>2. ASSUME Processor PROVE Still
  <2>1. CASE ProcTop \/ ProcSetPause \/ ProcTakeCancelled \/ ProcTakePending \/ ProcGetWaits
             \/ ProcDrain \/ ProcAwait \/ WaitReturns \/ ProcCollect \/ ProcWoken
    BY <2>1 DEF Still, ProcTop, ProcSetPause, ProcTakeCancelled, ProcTakePending, ProcGetWaits,
                ProcDrain, ProcAwait, WaitReturns, ProcCollect, ProcWoken, ProcRest
  <2>2. CASE ProcCondition
    <3>1. ASSUME ~StaysPaused, goal = "limit" PROVE FALSE
      <4>1. hand \in Samples /\ ~Over
        BY <2>2, <3>1 DEF ProcCondition, IInv, ProcInv, Over
      <4>2. ~final
        BY <4>1 DEF EndInv
      <4>3. Syncing \/ Updating
        BY <4>2 DEF CallInv, ChainInv, Syncing
      <4>4. Out = 0
        BY <4>2, <4>3, UsedUp, LoopTypes
      <4> QED
        BY <4>1, <4>4, OutParts, LoopTypes
    <3> QED
      BY <2>2, <3>1 DEF Still, ProcCondition
  <2> QED
    BY <1>2, <2>1, <2>2 DEF Processor
<1>3. ASSUME Feed \/ Sync \/ PauseGathered \/ SyncAnswer PROVE Still
  BY <1>3 DEF Still, Feed, Sync, SyncEnters, PauseLocked, PauseReturns, UpdateLocked, SyncSame,
     UpdateCounted, UpdateReturns, ResumeLocked, ResumeReturns, PauseGathered, SyncAnswer, SyncRest
<1>4. ASSUME \/ MonitorChecks \/ MonitorUnpauses \/ MonitorTimer
             \/ MainCalls \/ MainNonePut \/ MainAsksLock \/ MainStops
      PROVE  Still
  BY <1>4 DEF Still, MonitorChecks, MonitorUnpauses, MonitorTimer, MonitorRest, MainCalls,
              MainNonePut, MainAsksLock, MainStops, MainRest
<1>5. ASSUME TrainerNext PROVE Still
  BY <1>5 DEF Still, TrainerNext, Collect, Train, SyncWeights, TransferBegins, TransferEnds,
              LastBatchDone, FitEnds, RollouterRest
<1>6. ASSUME NEW i \in Samples, Task(i) \/ TaskEvent(i) PROVE FALSE
  <2>1. phase[i] \in Live
    BY <1>6 DEF Task, TaskEvent, TaskStart, TaskPuts, TaskEnds, TaskRequeues, TaskFails,
                ServerAnswers, QueuePuts, QueueAnswers, Live
  <2> QED
    BY <2>1 DEF Unfinished
<1>7. ASSUME UNCHANGED vars PROVE Still
  BY <1>7 DEF Still, vars
<1> QED
  BY <1>1, <1>2, <1>3, <1>4, <1>5, <1>6, <1>7 DEF Next, LoopStep, Event

LEMMA TrainerCall ==
  ASSUME Synchronous, IInv, RoundInv, CallInv, TrainerNext, Updating', ~final'
  PROVE  tpc' \in {"collect", "endwait"} /\ local_trigger_step' = 1
<1> USE DEF rollouterVars, syncVars, trainerVars, Updating
<1>0. ChainInv /\ (Updating /\ ~final => tpc \in {"collect", "endwait"} /\ local_trigger_step = 1)
  BY DEF CallInv
<1>1. CASE Collect
  <2>1. /\ UNCHANGED <<spc, local_trigger_step, final>> /\ mq # <<>>
        /\ mq \in Seq(Samples \cup {NoSample})
        /\ Head(mq) \in Samples \/ tpc' = "endwait"
    BY <1>0, <1>1, CollectTakes
  <2>2. Updating /\ ~final /\ local_trigger_step = 1
    BY <1>0, <2>1
  <2>3. Head(mq) \notin Samples
    <3> SUFFICES ASSUME Head(mq) \in Samples PROVE FALSE
      OBVIOUS
    <3>1. Head(mq) = mq[1] /\ 1 \in 1..Len(mq)
      BY <2>1, HeadTailProperties, EmptySeq, LenProperties
    <3>2. 1 \in Filled(mq)
      BY <3>1, Placed DEF Filled
    <3>3. Out = 0
      BY <2>2, UsedUp, LoopTypes
    <3> QED
      BY <3>2, <3>3, OutParts, LoopTypes
  <2> QED
    BY <2>1, <2>2, <2>3
<1>2. CASE Train
  <2>1. tpc = "train" /\ UNCHANGED <<spc, final>> /\ ~final
    BY <1>0, <1>2 DEF Train, ChainInv
  <2> QED
    BY <1>0, <2>1
<1>3. CASE SyncWeights \/ TransferBegins
  BY <1>0, <1>3 DEF SyncWeights, TransferBegins, ChainInv
<1>4. CASE TransferEnds
  BY <1>0, <1>4 DEF TransferEnds, ChainInv, Syncing
<1>5. CASE LastBatchDone \/ FitEnds
  BY <1>0, <1>5 DEF LastBatchDone, FitEnds, LastSyncDone
<1> QED
  BY <1>1, <1>2, <1>3, <1>4, <1>5 DEF TrainerNext

LEMMA CallKeeps ==
  ASSUME Synchronous, IInv, RoundInv, CallInv, [Next]_vars PROVE CallInv'
<1>0. ChainInv'
  BY ChainKeeps DEF CallInv
<1>1. CASE TrainerNext
  BY <1>0, <1>1, TrainerCall DEF CallInv
<1>2. CASE ~TrainerNext /\ (Sync \/ PauseGathered \/ SyncAnswer)
  <2>1. UNCHANGED <<tpc, trainerVars>>
    BY <1>2 DEF Next, vars
  <2>2. Updating' => Updating \/ spc = "update"
    BY <1>2, <2>1, SyncSteps DEF Updating
  <2> QED
    BY <1>0, <2>1, <2>2 DEF CallInv, Updating, trainerVars
<1>3. CASE ~TrainerNext /\ ~(Sync \/ PauseGathered \/ SyncAnswer)
  BY <1>0, <1>3, SideSteps DEF CallInv, Updating, trainerVars
<1> QED
  BY <1>1, <1>2, <1>3

LEMMA IdleKeeps ==
  ASSUME Synchronous, IInv, EndInv, CallInv, RoundInv, IdleInv, [Next]_vars PROVE IdleInv'
<1>1. ASSUME spc' \in {"kv", "paused"} \/ Updating' PROVE Unfinished' = {} /\ finished' = 0
  <2>1. CASE spc \in {"kv", "paused"} \/ Updating
    BY <2>1, NoneBegins DEF IdleInv
  <2>2. CASE ~(spc \in {"kv", "paused"} \/ Updating)
    <3>1. CASE ~TrainerNext /\ ~(Sync \/ PauseGathered \/ SyncAnswer)
      BY <1>1, <2>2, <3>1, SideSteps DEF Updating
    <3>2. CASE ~TrainerNext /\ (Sync \/ PauseGathered \/ SyncAnswer)
      <4>1. UNCHANGED <<tpc, trainerVars>>
        BY <3>2 DEF Next, vars
      <4> QED
        BY <1>1, <2>2, <3>2, <4>1, SyncSteps DEF Updating
    <3>3. CASE TrainerNext
      <4>1. spc' \in {spc, "pause", "update"} /\ (spc' = "update" => spc = "update" \/ TransferEnds)
        BY <3>3 DEF TrainerNext, Collect, Train, SyncWeights, TransferBegins, TransferEnds,
                    LastBatchDone, FitEnds, rollouterVars, syncVars
      <4>2. TransferEnds => spc = "paused"
        BY DEF TransferEnds, IInv, SyncInv
      <4> QED
        BY <1>1, <2>2, <4>1, <4>2 DEF Updating
    <3> QED
      BY <3>1, <3>2, <3>3
  <2> QED
    BY <2>1, <2>2
<1>2. ASSUME final', tpc' \in {"finwait", "done"} PROVE Unfinished' = {}
  <2>1. CASE final /\ tpc \in {"finwait", "done"}
    BY <2>1, NoneBegins DEF IdleInv
  <2>2. CASE ~(final /\ tpc \in {"finwait", "done"})
    <3>1. TransferEnds
      <4>1. CASE TrainerNext
        BY <1>2, <2>2, <4>1 DEF TrainerNext, Collect, Train, SyncWeights, TransferBegins,
           LastBatchDone, FitEnds, trainerVars, CallInv, ChainInv
      <4>2. CASE ~TrainerNext
        <5>1. UNCHANGED <<tpc, trainerVars>>
          BY <4>2 DEF Next, vars
        <5> QED
          BY <1>2, <2>2, <5>1 DEF trainerVars
      <4> QED
        BY <4>1, <4>2
    <3>2. spc = "paused"
      BY <3>1 DEF TransferEnds, IInv, SyncInv
    <3> QED
      BY <3>2, NoneBegins DEF IdleInv
  <2> QED
    BY <2>1, <2>2
<1> QED
  BY <1>1, <1>2 DEF IdleInv

-----------------------------------------------------------------------------
(* The limit is kept *)

LEMMA TakePendingRound ==
  ASSUME Synchronous, IInv, TypeOK', RoundInv, ProcTakePending, UNCHANGED <<tpc, trainerVars>>
  PROVE  RoundInv'
<1> USE DEF syncVars, trainerVars
<1>1. ppc \in {"get", "getwait"} /\ ppc' = "drain" /\ staleness_samples' = staleness_samples + 1
  BY DEF ProcTakePending
<1>2. Out' <= Out + 1
  <2>1. InFlight' = InFlight
    BY DEF ProcTakePending, InFlight, taskVars, mqVars
  <2>2. InHand' \in {0, 1} /\ InHand \in {0, 1} /\ InFlight \in Nat
    BY SumsNext, Numbers, LoopTypes
  <2>3. PICK n \in Int, g \in Int, h \in Int :
          n = InFlight /\ g = InHand /\ h = InHand' /\ h <= g + 1
    <3>1. InFlight \in Int /\ InHand \in Int /\ InHand' \in Int /\ InHand' <= InHand + 1
      BY <2>2
    <3> QED
      BY <3>1
  <2>4. Out' = n + h /\ Out = n + g
    BY <2>1, <2>3 DEF Out
  <2>5. n + h <= (n + g) + 1
    <3>1. n \in Int /\ g \in Int /\ h \in Int /\ h <= g + 1
      BY <2>3
    <3> QED
      BY ONLY <3>1
  <2> QED
    BY <2>4, <2>5
<1>3. Behind' = Behind /\ Len(buf)' = Len(buf)
  BY DEF ProcTakePending, Behind, Syncing, Updating
<1>4. /\ Out \in Nat /\ Len(buf) \in Nat /\ Behind \in Nat /\ staleness_samples \in Nat
      /\ max_required_samples \in Nat
  BY BehindLemma, Products, LoopTypes
<1>5. Out' \in Nat
  BY BehindNext
<1>6. /\ Out + Len(buf) + Behind <= staleness_samples
      /\ staleness_samples < max_required_samples
  BY <1>1 DEF RoundInv, Over
<1>7. Out' + Len(buf)' + Behind' <= staleness_samples + 1
  <2>1. PICK n \in Nat, m \in Nat, b \in Nat, u \in Nat :
          n = Out' /\ m = Out /\ b = Len(buf) /\ u = Behind
    BY <1>4, <1>5
  <2>2. n + b + u <= staleness_samples + 1
    BY <1>2, <1>4, <1>6, <2>1
  <2> QED
    BY <1>3, <2>1, <2>2
<1>8. Out' + Len(buf)' + Behind' <= max_required_samples
  <2>1. PICK n \in Nat, b \in Nat, u \in Nat : n = Out' /\ b = Len(buf)' /\ u = Behind'
    BY BehindNext
  <2> QED
    BY <1>4, <1>6, <1>7, <2>1
<1>9. spc' = "size" => ssum' = 0
  BY <1>1 DEF ProcTakePending, RoundInv, Over
<1> QED
  BY <1>1, <1>7, <1>8, <1>9 DEF RoundInv

LEMMA ProcTopRound ==
  ASSUME Synchronous, IInv, TypeOK', RoundInv, ProcTop, UNCHANGED <<tpc, trainerVars>>
  PROVE  RoundInv'
<1> USE DEF ProcRest, syncVars, statVars, trainerVars, taskVars, mqVars
<1>1. ppc' \in {"get", "getwait"} => staleness_samples < max_required_samples
  <2>1. staleness_samples \in Nat /\ max_required_samples \in Nat
    BY BehindLemma, Products, LoopTypes
  <2> QED
    BY <2>1 DEF ProcTop, _should_pause_generation
<1>2. Out' = Out /\ Behind' = Behind /\ Len(buf)' = Len(buf)
  BY DEF ProcTop, Out, InFlight, InHand, Behind, Syncing, Updating
<1> QED
  BY <1>1, <1>2 DEF RoundInv, ProcTop, Over

\* The counter is reset to nothing, because nothing is left.
LEMMA UpdateRound ==
  ASSUME Synchronous, IInv, TypeOK', EndInv, CallInv, IdleInv, RoundInv,
         UpdateLocked \/ UpdateCounted, UNCHANGED <<tpc, trainerVars>>
  PROVE  RoundInv'
<1> USE DEF SyncRest, procVars, mqVars, trainerVars
<1>1. Out' = Out /\ Len(buf)' = Len(buf) /\ UNCHANGED <<ppc, final, tpc, local_trigger_step>>
  BY DEF UpdateLocked, UpdateCounted, Out, InFlight, InHand
<1>2. Updating
  BY DEF UpdateLocked, UpdateCounted, Updating
<1>3. ~Over => ~final /\ Out = 0 /\ Len(buf) = 0 /\ local_trigger_step = 1
  <2>1. ~Over => ~final
    BY DEF EndInv
  <2> QED
    BY <1>2, <2>1, UsedUp, LoopTypes DEF CallInv, ChainInv
<1>4. CASE UpdateLocked
  <2>1. Behind' = Behind
    BY <1>1, <1>4 DEF UpdateLocked, Behind, Syncing, Updating
  <2>2. ~Over => ssum' = 0
    <3> SUFFICES ASSUME ~Over PROVE ssum' = 0
      OBVIOUS
    <3>1. Unfinished = {} /\ finished = 0 /\ cancel_queue = <<>>
      BY <1>2, <1>3, OutParts, LoopTypes DEF IdleInv
    <3>2. Cardinality(Unfinished) = 0 /\ Len(cancel_queue) = 0
      BY <3>1, FS_EmptySet
    <3>3. ssum' = Cardinality(Unfinished) + finished + Len(cancel_queue)
      BY <1>4 DEF UpdateLocked, Outstanding, NActive
    <3> QED
      BY <3>1, <3>2, <3>3
  <2> QED
    BY <1>1, <1>4, <2>1, <2>2 DEF UpdateLocked, RoundInv, Over
<1>5. CASE UpdateCounted
  <2>1. spc = "size" /\ spc' = "report" /\ staleness_samples' = ssum
    BY <1>5 DEF UpdateCounted, Reset
  <2>2. Behind' <= Behind /\ (~Over => Behind' = 0)
    <3>1. Behind' = (local_trigger_step - 1) * required_samples \/ Behind' = Behind
      BY <1>1, <2>1 DEF Behind, Syncing, Updating
    <3>2. /\ (local_trigger_step - 1) * required_samples \in Nat
          /\ (local_trigger_step - 1) * required_samples <= max_required_samples
      BY Products, BehindLemma, LoopTypes
    <3>3. ~final => Behind = max_required_samples
      BY <1>2 DEF Behind
    <3>4. final => Behind' = Behind
      BY <1>1 DEF Behind
    <3>5. ~Over => Behind' = 0
      <4>1. ~Over => tpc \notin {"wait", "pause", "weights"}
        BY <1>2, <1>3 DEF CallInv, ChainInv
      <4>2. ~Over => Behind' = (1 - 1) * required_samples
        BY <1>1, <1>3, <2>1, <4>1 DEF Behind, Syncing, Updating
      <4> QED
        BY <4>2, Products
    <3>6. Behind \in Nat
      BY BehindLemma, LoopTypes
    <3> QED
      BY <3>1, <3>2, <3>3, <3>4, <3>5, <3>6
  <2>3. Out' + Len(buf)' + Behind' <= max_required_samples
    <3>1. PICK n \in Nat, b \in Nat, u \in Nat, v \in Nat :
            n = Out /\ b = Len(buf) /\ u = Behind /\ v = Behind'
      BY BehindLemma, BehindNext, LoopTypes
    <3>2. n + b + u <= max_required_samples /\ v <= u /\ max_required_samples \in Nat
      BY <2>2, <3>1, Products DEF RoundInv
    <3>3. n + b + v <= max_required_samples
      BY <3>2
    <3> QED
      BY <1>1, <3>1, <3>3
  <2>4. ~Over => Out' + Len(buf)' + Behind' = 0
    BY <1>1, <1>3, <2>2
  <2>5. ~Over => ssum = 0
    BY <2>1 DEF RoundInv
  <2> QED
    BY <1>1, <2>1, <2>3, <2>4, <2>5, Products DEF RoundInv, Over
<1> QED
  BY <1>4, <1>5

\* The queue is empty as well when its size is asked.
LEMMA SyncAnswerRound ==
  ASSUME Synchronous, IInv, TypeOK', PlaceInv, EndInv, CallInv, RoundInv,
         SyncAnswer, UNCHANGED <<tpc, trainerVars>>
  PROVE  RoundInv'
<1> USE DEF SyncRest, procVars, mqVars, statVars, trainerVars
<1>1. Out' = Out /\ Len(buf)' = Len(buf) /\ UNCHANGED <<ppc, staleness_samples>>
  BY DEF SyncAnswer, Out, InFlight, InHand
<1>2. Behind' = Behind
  BY DEF SyncAnswer, Behind, Syncing, Updating
<1>3. spc' = "size" /\ ~Over => ssum' = 0
  <2> SUFFICES ASSUME spc' = "size", ~Over PROVE ssum' = 0
    OBVIOUS
  <2>1. spc = "size" /\ ssum' = ssum + Len(mq)
    BY DEF SyncAnswer, QueueSize
  <2>2. ~final /\ epc = "run" /\ Updating
    BY <2>1 DEF EndInv, Updating
  <2>3. Filled(mq) = {}
    BY <2>2, UsedUp, OutParts, LoopTypes
  <2>4. Len(mq) = 0
    <3>1. mq \in Seq(Samples \cup {NoSample}) /\ Len(mq) \in Nat
      BY Placed, LenProperties
    <3>2. NoSample \notin Elems(mq)
      BY <2>2 DEF PlaceInv
    <3>3. ~(1 \in 1..Len(mq))
      BY <2>3, <3>2 DEF Filled, Elems
    <3> QED
      BY <3>1, <3>3
  <2>5. ssum = 0
    BY <2>1 DEF RoundInv
  <2> QED
    BY <2>1, <2>4, <2>5
<1> QED
  BY <1>1, <1>2, <1>3 DEF RoundInv, Over

\* A call of the synchronizer that neither starts nor ends the reset.
LEMMA SyncRound ==
  ASSUME Synchronous, IInv, TypeOK', CallInv, RoundInv, Sync \/ PauseGathered,
         ~UpdateLocked, ~UpdateCounted, UNCHANGED <<tpc, trainerVars>>
  PROVE  RoundInv'
<1> USE DEF SyncRest, SyncSame, procVars, mqVars, statVars, trainerVars
<1>1. /\ Out' = Out /\ Len(buf)' = Len(buf)
      /\ UNCHANGED <<ppc, staleness_samples, ssum, final, tpc, local_trigger_step>>
      /\ Updating' <=> Updating
      /\ spc' # "size"
  BY DEF Sync, SyncEnters, PauseLocked, PauseReturns, UpdateReturns, ResumeLocked, ResumeReturns,
         PauseGathered, Out, InFlight, InHand, Updating
<1>2. Behind' = Behind
  BY <1>1 DEF Behind, Syncing
<1> QED
  BY <1>1, <1>2 DEF RoundInv, Over

\* The trainer uses up what it collected, and is behind until the counter is reset.
LEMMA TrainerRound ==
  ASSUME Synchronous, IInv, TypeOK', CallInv, RoundInv, TrainerNext PROVE RoundInv'
<1> USE DEF rollouterVars, RollouterRest, procVars, statVars, syncVars, trainerVars, taskVars
<1>0. /\ Out \in Nat /\ Len(buf) \in Nat /\ Behind \in Nat /\ local_trigger_step \in 1..Trigger
      /\ Out' \in Nat /\ Len(buf)' \in Nat /\ Behind' \in Nat
  BY BehindLemma, BehindNext, LoopTypes
<1>1. CASE Collect
  <2>1. /\ UNCHANGED <<staleness_samples, ppc, spc, ssum, final, local_trigger_step>>
        /\ tpc = "collect" /\ tpc' \in {"endwait", "train", "collect"}
    BY <1>1 DEF Collect
  <2>2. Behind' = Behind
    BY <2>1 DEF Behind, Syncing, Updating
  <2>3. Out' + Len(buf)' <= Out + Len(buf)
    <3>1. CASE Head(mq) = NoSample
      <4>1. Out' <= Out /\ buf' = <<>>
        BY <1>1, <3>1, CollectMoves, MovesOut, LoopTypes DEF Collect
      <4> QED
        BY <1>0, <4>1
    <3>2. CASE Head(mq) # NoSample
      <4>1. Out' + 1 <= Out
        BY <1>1, <3>2, TakeOut DEF Collect
      <4>2. Head(mq) \in Samples /\ buf \in Seq(Samples)
        BY <1>1, <3>2, Placed, HeadTailProperties DEF Collect
      <4>3. Len(buf') = Len(buf) + 1
        BY <1>1, <3>2, <4>2, AppendProperties DEF Collect
      <4>4. PICK n \in Nat, m \in Nat, b \in Nat : n = Out' /\ m = Out /\ b = Len(buf)
        BY <1>0
      <4>5. n + (b + 1) <= m + b
        <5>1. n \in Nat /\ m \in Nat /\ b \in Nat /\ n + 1 <= m
          BY <4>1, <4>4
        <5> QED
          BY ONLY <5>1
      <4> QED
        BY <4>3, <4>4, <4>5
    <3> QED
      BY <3>1, <3>2
  <2>4. RoundStep
    BY <1>0, <2>1, <2>2, <2>3 DEF RoundStep, Over
  <2> QED
    BY <2>4, RoundLemma, LoopTypes
<1>2. CASE Train
  <2>1. /\ UNCHANGED <<staleness_samples, ppc, spc, ssum, final>> /\ buf' = <<>> /\ Out' = Out
        /\ Len(buf) = required_samples /\ ~final /\ tpc = "train" /\ ~Updating /\ ~Syncing
    BY <1>2 DEF Train, CallInv, ChainInv, Out, InFlight, InHand, Syncing, mqVars
  <2>2. Behind = (local_trigger_step - 1) * required_samples
    BY <2>1 DEF Behind
  <2>3. Behind' = Behind + required_samples
    <3>1. CASE SyncDue
      <4>1. Behind' = max_required_samples /\ local_trigger_step = Trigger
        BY <1>2, <2>1, <3>1 DEF Train, Behind, Syncing, SyncDue
      <4> QED
        BY <1>0, <2>2, <4>1, Products
    <3>2. CASE ~SyncDue
      <4>1. Behind' = ((local_trigger_step + 1) - 1) * required_samples
        BY <1>2, <2>1, <3>2 DEF Train, Behind, Syncing, Updating
      <4> QED
        BY <1>0, <2>2, <4>1, Products
    <3> QED
      BY <3>1, <3>2
  <2>4. Len(buf)' + Behind' = Len(buf) + Behind
    <3>1. Len(buf') = 0 /\ required_samples \in Nat
      BY <2>1, Products
    <3> QED
      BY <1>0, <2>1, <2>3, <3>1
  <2>5. RoundStep
    BY <1>0, <2>1, <2>4 DEF RoundStep, Over
  <2> QED
    BY <2>5, RoundLemma, LoopTypes
<1>3. CASE SyncWeights \/ TransferBegins \/ TransferEnds \/ FitEnds
  <2>1. /\ UNCHANGED <<staleness_samples, ppc, ssum, final, buf, local_trigger_step>> /\ Out' = Out
        /\ spc' = "size" => spc = "size"
    BY <1>3 DEF SyncWeights, TransferBegins, TransferEnds, FitEnds, Out, InFlight, InHand, mqVars
  <2>2. Behind' = Behind
    <3>1. CASE final
      BY <2>1, <3>1 DEF Behind
    <3>2. CASE ~final
      BY <1>3, <2>1, <3>2 DEF SyncWeights, TransferBegins, TransferEnds, FitEnds, Behind, Syncing,
         Updating, CallInv, ChainInv, LastSyncDone
    <3> QED
      BY <3>1, <3>2
  <2>3. RoundStep
    BY <1>0, <2>1, <2>2 DEF RoundStep, Over
  <2> QED
    BY <2>3, RoundLemma, LoopTypes
<1>4. CASE LastBatchDone
  <2>1. /\ UNCHANGED <<staleness_samples, ppc, ssum, spc, buf>> /\ Out' = Out
        /\ spc = "idle" /\ tpc = "endwait"
    BY <1>4 DEF LastBatchDone, LastSyncDone, Out, InFlight, InHand, mqVars
  <2>2. Behind = (local_trigger_step - 1) * required_samples
    BY <2>1 DEF Behind, Syncing, Updating
  <2>3. Behind' = (local_trigger_step' - 1) * required_samples
    <3>1. \/ final' /\ local_trigger_step' = 1
          \/ tpc' = "done" /\ UNCHANGED <<local_trigger_step, final>>
      BY <1>4 DEF LastBatchDone
    <3> QED
      BY <2>1, <3>1 DEF Behind, Syncing, Updating
  <2>4. Behind' <= Behind
    <3>1. local_trigger_step' \in {1, local_trigger_step}
      BY <1>4 DEF LastBatchDone
    <3>2. CASE local_trigger_step' = 1
      <4>1. Behind' = 0
        BY <2>3, <3>2, Products
      <4> QED
        BY <1>0, <4>1
    <3>3. CASE local_trigger_step' = local_trigger_step
      BY <1>0, <2>2, <2>3, <3>3
    <3> QED
      BY <3>1, <3>2, <3>3
  <2>5. RoundStep
    BY <1>0, <2>1, <2>4 DEF RoundStep, Over
  <2> QED
    BY <2>5, RoundLemma, LoopTypes
<1> QED
  BY <1>1, <1>2, <1>3, <1>4 DEF TrainerNext

\* Once the processor has ended it has ended; it takes only at the top of its loop.
LEMMA ProcessorGoes ==
  ASSUME [Next]_vars, ~ProcTop, ~ProcTakePending, ~TrainerNext,
         ~(Sync \/ PauseGathered \/ SyncAnswer)
  PROVE  /\ Over => Over'
         /\ ppc' \in {"get", "getwait"} => ppc \in {"get", "getwait"}
         /\ UNCHANGED staleness_samples
<1> DEFINE Goal == /\ Over => Over'
                   /\ ppc' \in {"get", "getwait"} => ppc \in {"get", "getwait"}
                   /\ UNCHANGED staleness_samples
<1> USE DEF Goal, Over, procVars, statVars, rollouterVars
<1>1. ASSUME Processor PROVE Goal
  BY <1>1 DEF Processor, ProcSetPause, ProcTakeCancelled, ProcGetWaits, ProcDrain, ProcAwait,
     WaitReturns, ProcCollect, ProcCondition, ProcWoken, ProcRest
<1>2. ASSUME Feed \/ MonitorChecks \/ MonitorUnpauses \/ MonitorTimer PROVE Goal
  BY <1>2 DEF Feed, MonitorChecks, MonitorUnpauses, MonitorTimer, MonitorRest
<1>3. ASSUME MainCalls \/ MainNonePut \/ MainAsksLock \/ MainStops PROVE Goal
  BY <1>3 DEF MainCalls, MainNonePut, MainAsksLock, MainStops, MainRest
<1>4. ASSUME NEW i \in Samples, Task(i) \/ TaskEvent(i) PROVE Goal
  BY <1>4 DEF Task, TaskEvent, TaskStart, TaskPuts, TaskEnds, TaskRequeues, TaskFails,
              ServerAnswers, QueuePuts, QueueAnswers, TaskRest
<1>5. ASSUME UNCHANGED vars PROVE Goal
  BY <1>5 DEF vars
<1> HIDE DEF Goal
<1>6. Goal
  BY <1>1, <1>2, <1>3, <1>4, <1>5 DEF Next, LoopStep, Event
<1> QED
  BY <1>6 DEF Goal

LEMMA RoundKeeps ==
  ASSUME Synchronous, IInv, IInv', PlaceInv, EndInv, CallInv, IdleInv, RoundInv, [Next]_vars
  PROVE  RoundInv'
<1>1. TypeOK /\ TypeOK'
  BY DEF IInv
<1>2. CASE TrainerNext
  BY <1>1, <1>2, TrainerRound
<1>3. CASE ~TrainerNext /\ (Sync \/ PauseGathered \/ SyncAnswer)
  <2>1. UNCHANGED <<tpc, trainerVars>>
    BY <1>3 DEF Next, vars
  <2> QED
    BY <1>1, <1>3, <2>1, UpdateRound, SyncAnswerRound, SyncRound
<1>4. CASE ~TrainerNext /\ (ProcTop \/ ProcTakePending)
  <2>1. UNCHANGED <<tpc, trainerVars>>
    BY <1>4 DEF Next, vars
  <2> QED
    BY <1>1, <1>4, <2>1, ProcTopRound, TakePendingRound
<1>5. CASE /\ ~TrainerNext /\ ~(Sync \/ PauseGathered \/ SyncAnswer)
           /\ ~ProcTop /\ ~ProcTakePending
  BY <1>1, <1>5, SideSteps, ProcessorGoes, OutSteps, SideStep
<1> QED
  BY <1>2, <1>3, <1>4, <1>5

LEMMA SynchronousInit == ASSUME Synchronous PROVE Init => CallInv /\ IdleInv /\ RoundInv
<1> SUFFICES ASSUME Init PROVE CallInv /\ IdleInv /\ RoundInv
  OBVIOUS
<1>1. /\ spc = "idle" /\ tpc = "collect" /\ final = FALSE /\ buf = <<>> /\ local_trigger_step = 1
      /\ staleness_samples = 0 /\ ppc = "top" /\ cancel_queue = <<>> /\ mq = <<>> /\ hand = NoSample
      /\ \A i \in Samples : phase[i] = "idle"
  BY DEF Init, RollouterInit
<1>2. CallInv /\ IdleInv
  BY <1>1, ChainInit DEF CallInv, IdleInv, Updating
<1>3. TypeOK
  BY InitIInv DEF IInv
<1>4. Out = 0
  <2>1. Tasks = {} /\ Filled(mq) = {} /\ InHand = 0 /\ Len(cancel_queue) = 0
    <3>1. Len(mq) = 0 /\ Len(cancel_queue) = 0 /\ 0 \notin Samples
      BY <1>1, Constants
    <3>2. Filled(mq) = {}
      BY <3>1 DEF Filled
    <3> QED
      BY <1>1, <3>1, <3>2 DEF Tasks, InHand, NoSample
  <2>2. Cardinality(Tasks) = 0 /\ Cardinality(Filled(mq)) = 0
    BY <2>1, FS_EmptySet
  <2> QED
    BY <1>3, <2>1, <2>2, Before
<1>5. Behind = 0 /\ Len(buf) = 0
  BY <1>1, Products DEF Behind, Syncing, Updating
<1> QED
  BY <1>1, <1>2, <1>4, <1>5, Products DEF RoundInv

\* The invariants of the synchronous modes, together.
SInv == IInv /\ HandInv /\ PlaceInv /\ EndInv /\ CallInv /\ IdleInv /\ RoundInv

LEMMA SynchronousKeeps == ASSUME Synchronous PROVE SInv /\ [Next]_vars => SInv'
<1> SUFFICES ASSUME SInv, [Next]_vars PROVE SInv'
  OBVIOUS
<1>1. IInv /\ HandInv /\ PlaceInv /\ EndInv /\ CallInv /\ IdleInv /\ RoundInv
  BY DEF SInv
<1>2. IInv'
  BY <1>1, NextKeeps
<1>3. HandInv' /\ PlaceInv' /\ EndInv'
  BY <1>1, HandKeeps, PlaceKeeps, EndKeeps
<1>4. CallInv' /\ IdleInv' /\ RoundInv'
  BY <1>1, <1>2, CallKeeps, IdleKeeps, RoundKeeps
<1> QED
  BY <1>2, <1>3, <1>4 DEF SInv

\* With staleness_threshold = 0 rollouter and synchronizer take turns at every step.
THEOREM SynchronousInvariance == ASSUME Synchronous PROVE Spec => []SInv
<1>1. Init => SInv
  BY InitIInv, PlaceInit, EndInit, SynchronousInit DEF SInv
<1>2. SInv /\ [Next]_vars => SInv'
  BY SynchronousKeeps
<1> QED
  BY <1>1, <1>2, PTL DEF Spec

\* With staleness_threshold = 0 no server generates while the weights are transferred: the
\* pause waits for the tasks, and although the processor may still be about to submit, the
\* limit is used up until the counter is reset, so nothing is in its hand.
THEOREM TransferHolds ==
  max_required_samples = required_samples * Trigger => (Spec => []NoGenerationDuringTransfer)
<1> SUFFICES ASSUME Synchronous PROVE Spec => []NoGenerationDuringTransfer
  BY DEF Synchronous
<1>1. SInv => NoGenerationDuringTransfer
  <2> SUFFICES ASSUME SInv, tpc = "weights", NEW i \in Samples, phase[i] = "gen" PROVE FALSE
    BY DEF NoGenerationDuringTransfer
  <2>1. spc = "paused"
    BY DEF SInv, IInv, SyncInv
  <2>2. Unfinished = {}
    BY <2>1 DEF SInv, IdleInv
  <2> QED
    BY <2>2 DEF Unfinished, Live
<1> QED
  BY <1>1, SynchronousInvariance, PTL

-----------------------------------------------------------------------------
(* Synchronous training proceeds in rounds *)

\* Modes 1 and 2: no partial rollout, so nothing is ever interrupted.
CutInv ==
  /\ serverPaused = FALSE /\ cancel_queue = <<>> /\ spc # "cancel"
  /\ \A i \in Samples : phase[i] # "cut"

\* The last synchronisation is over.
Ended == final /\ tpc \in {"finwait", "done"}

\* Samples of the round: their generation has begun, is about to, or they are in hand.
Began == {i \in Samples : used[i] = wver /\ phase[i] \notin {"idle", "new"}}
Begun == Began \cup {i \in Samples : phase[i] = "new" \/ hand = i}
Consumed == {i \in trained : used[i] = wver}

\* What is out, queued or in a batch was generated with the weights that the servers have;
\* nothing was generated with later ones.
FreshInv ==
  /\ \A i \in Samples : used[i] <= wver
  /\ ~Ended => \A i \in Samples :
       phase[i] \in Sent \/ i \in Elems(mq) \cup Elems(buf) => used[i] = wver

\* The counter counts the samples of the round, which it limits.
CountInv ==
  /\ ~Ended => Cardinality(Begun) <= max_required_samples
  /\ ~Over /\ ~Updating => Cardinality(Begun) <= staleness_samples
  /\ Updating /\ ~final => Begun = {}

\* The trainer's steps count the samples that it has used up.
TrainedInv ==
  ~final => Cardinality(Consumed) =
              IF Syncing THEN max_required_samples ELSE (local_trigger_step - 1) * required_samples

LEMMA RoundSets ==
  ASSUME IInv
  PROVE  /\ IsFiniteSet(Begun) /\ IsFiniteSet(Began) /\ IsFiniteSet(Consumed)
         /\ Began \subseteq Begun /\ Consumed \subseteq trained
         /\ Cardinality(Begun) \in Nat /\ Cardinality(Began) \in Nat /\ Cardinality(Consumed) \in Nat
<1>1. /\ IsFiniteSet(Samples) /\ Begun \in SUBSET Samples /\ Began \in SUBSET Samples
      /\ Consumed \in SUBSET Samples
  BY Constants, Placed DEF Begun, Began, Consumed
<1> QED
  BY <1>1, FS_Subset, FS_CardinalityType DEF Begun, Consumed

LEMMA RoundSetsNext ==
  IInv' => (/\ IsFiniteSet(Begun) /\ IsFiniteSet(Began) /\ IsFiniteSet(Consumed)
            /\ Cardinality(Begun) \in Nat)'
<1>1. IInv => /\ IsFiniteSet(Begun) /\ IsFiniteSet(Began) /\ IsFiniteSet(Consumed)
              /\ Cardinality(Begun) \in Nat
  BY RoundSets
<1> QED
  BY <1>1, PTL

LEMMA CutKeeps == ASSUME ~Partial, IInv, CutInv, [Next]_vars PROVE CutInv'
<1> USE DEF serverVars, taskVars, procVars, rollouterVars, syncVars
<1>0. /\ phase \in [Samples -> Live \cup {"idle", "done", "failed"}]
      /\ serverPaused = FALSE /\ cancel_queue = <<>> /\ spc # "cancel"
      /\ \A i \in Samples : phase[i] # "cut"
  BY Placed DEF CutInv
<1>1. ASSUME UNCHANGED <<serverPaused, cancel_queue, phase>>, spc' # "cancel" PROVE CutInv'
  BY <1>0, <1>1 DEF CutInv
<1>2. ASSUME Processor \/ Feed PROVE CutInv'
  <2>1. CASE Feed \/ (Processor /\ ~ProcCondition)
    <3>1. ~ProcTakeCancelled
      BY <1>0 DEF ProcTakeCancelled
    <3> QED
      BY <1>0, <1>1, <2>1, <3>1 DEF Processor, Feed, ProcTop, ProcSetPause, ProcTakePending,
         ProcGetWaits, ProcDrain, ProcAwait, WaitReturns, ProcCollect, ProcWoken, ProcRest
  <2>2. CASE ProcCondition
    BY <1>0, <2>2 DEF ProcCondition, CutInv
  <2> QED
    BY <1>2, <2>1, <2>2
<1>3. ASSUME \/ MonitorChecks \/ MonitorUnpauses \/ MonitorTimer
             \/ MainCalls \/ MainNonePut \/ MainAsksLock \/ MainStops
      PROVE  CutInv'
  BY <1>0, <1>1, <1>3 DEF MonitorChecks, MonitorUnpauses, MonitorTimer, MonitorRest, MainCalls,
              MainNonePut, MainAsksLock, MainStops, MainRest
<1>4. ASSUME NEW i \in Samples, Task(i) \/ TaskEvent(i) PROVE CutInv'
  <2>1. CASE ServerAnswers(i)
    BY <1>0, <2>1 DEF ServerAnswers, TaskRest, CutInv
  <2>2. CASE Task(i) \/ QueuePuts(i) \/ QueueAnswers(i)
    BY <1>0, <2>2 DEF Task, TaskStart, TaskPuts, TaskEnds, TaskRequeues, TaskFails,
              QueuePuts, QueueAnswers, TaskRest, CutInv
  <2> QED
    BY <1>4, <2>1, <2>2 DEF TaskEvent
<1>5. ASSUME Sync \/ PauseGathered \/ SyncAnswer PROVE CutInv'
  <2>1. /\ UNCHANGED <<cancel_queue, phase>>
        /\ spc' # "cancel" /\ serverPaused' = FALSE
    BY <1>0, <1>5 DEF Sync, SyncEnters, PauseLocked, PauseReturns, UpdateLocked,
       UpdateCounted, UpdateReturns, ResumeLocked, ResumeReturns, PauseGathered, SyncAnswer,
       SyncRest, SyncSame
  <2> QED
    BY <1>0, <2>1 DEF CutInv
<1>6. ASSUME TrainerNext PROVE CutInv'
  BY <1>0, <1>1, <1>6 DEF TrainerNext, Collect, Train, SyncWeights, TransferBegins, TransferEnds,
              LastBatchDone, FitEnds, RollouterRest
<1>7. ASSUME UNCHANGED vars PROVE CutInv'
  BY <1>0, <1>1, <1>7 DEF vars
<1> QED
  BY <1>2, <1>3, <1>4, <1>5, <1>6, <1>7 DEF Next, LoopStep, Event

\* The samples of the round: only taking a pending one adds to them.
LEMMA RoundGrows ==
  ASSUME IInv, PlaceInv, CutInv, [Next]_vars, ~TransferEnds
  PROVE  /\ ~ProcTakePending => Begun' \subseteq Begun
         /\ ProcTakePending => Begun' \subseteq Begun \cup {taken + 1}
         /\ (\A i \in Samples : ~TaskStart(i)) => Began' = Began
<1> USE DEF serverVars, taskVars, procVars, rollouterVars
<1>0. /\ phase \in [Samples -> Live \cup {"idle", "done", "failed"}] /\ used \in [Samples -> Nat]
      /\ NoSample \notin Samples
      /\ serverPaused = FALSE /\ cancel_queue = <<>>
      /\ \A i \in Samples : phase[i] # "cut"
  BY Placed, ChainTypes DEF CutInv
<1>1. ASSUME UNCHANGED <<phase, used, wver, hand>> PROVE Begun' = Begun /\ Began' = Began
  BY <1>1 DEF Begun, Began
<1>2. ASSUME Processor \/ Feed
      PROVE  /\ ~ProcTakePending => Begun' \subseteq Begun
             /\ ProcTakePending => Begun' \subseteq Begun \cup {taken + 1}
             /\ Began' = Began
  <2>1. CASE Feed \/ (Processor /\ ~ProcCondition /\ ~ProcTakePending)
    <3>1. ~ProcTakeCancelled
      BY <1>0 DEF ProcTakeCancelled
    <3>2. UNCHANGED <<phase, used, wver, hand>> /\ ~ProcTakePending
      BY <2>1, <3>1 DEF Processor, Feed, ProcTop, ProcSetPause, ProcTakePending,
         ProcGetWaits, ProcDrain, ProcAwait, WaitReturns, ProcCollect, ProcWoken, ProcRest
    <3> QED
      BY <1>1, <3>2
  <2>2. CASE ProcCondition
    <3>1. ~ProcTakePending
      BY <2>2 DEF ProcCondition, ProcTakePending
    <3>2. UNCHANGED <<used, wver>> /\ (hand' # hand => hand' = NoSample)
      BY <2>2 DEF ProcCondition
    <3>3. \/ UNCHANGED <<phase, hand>>
          \/ /\ hand \in Samples /\ phase[hand] = "idle" /\ hand' = NoSample
             /\ phase' = [phase EXCEPT ![hand] = "new"]
      BY <2>2 DEF ProcCondition, IInv, ProcInv, PlaceInv
    <3>4. CASE UNCHANGED <<phase, hand>>
      BY <1>1, <3>1, <3>2, <3>4
    <3>5. CASE /\ hand \in Samples /\ phase[hand] = "idle" /\ hand' = NoSample
               /\ phase' = [phase EXCEPT ![hand] = "new"]
      <4>1. \A i \in Samples : phase'[i] = IF i = hand THEN "new" ELSE phase[i]
        BY <1>0, <3>5
      <4>2. Began' = Began
        BY <3>2, <3>5, <4>1 DEF Began
      <4>3. {i \in Samples : phase'[i] = "new" \/ hand' = i}
              = {i \in Samples : phase[i] = "new" \/ hand = i}
        BY <1>0, <3>5, <4>1
      <4> QED
        BY <3>1, <4>2, <4>3 DEF Begun
    <3> QED
      BY <3>3, <3>4, <3>5
  <2>3. CASE ProcTakePending
    BY <2>3 DEF ProcTakePending, Begun, Began
  <2> QED
    BY <1>2, <2>1, <2>2, <2>3
<1>3. ASSUME \/ MonitorChecks \/ MonitorUnpauses \/ MonitorTimer
             \/ MainCalls \/ MainNonePut \/ MainAsksLock \/ MainStops
      PROVE  UNCHANGED <<phase, used, wver, hand>>
  BY <1>3 DEF MonitorChecks, MonitorUnpauses, MonitorTimer, MonitorRest, MainCalls,
              MainNonePut, MainAsksLock, MainStops, MainRest
<1>4. ASSUME NEW i \in Samples, Task(i) \/ TaskEvent(i)
      PROVE  Begun' \subseteq Begun /\ (~TaskStart(i) => Began' = Began)
  <2>1. CASE TaskStart(i)
    BY <1>0, <2>1 DEF TaskStart, TaskRest, Begun, Began
  <2>2. CASE ServerAnswers(i)
    BY <1>0, <2>2 DEF ServerAnswers, TaskRest, Begun, Began
  <2>3. CASE TaskPuts(i) \/ TaskEnds(i) \/ TaskFails(i) \/ QueuePuts(i) \/ QueueAnswers(i)
    BY <1>0, <2>3 DEF TaskPuts, TaskEnds, TaskFails, QueuePuts, QueueAnswers, TaskRest, Begun, Began
  <2>4. CASE TaskRequeues(i)
    BY <1>0, <2>4 DEF TaskRequeues
  <2> QED
    BY <1>4, <2>1, <2>2, <2>3, <2>4 DEF Task, TaskEvent
<1>5. ASSUME Sync \/ PauseGathered \/ SyncAnswer PROVE UNCHANGED <<phase, used, wver, hand>>
  BY <1>5 DEF Sync, SyncEnters, PauseLocked, PauseReturns, UpdateLocked, UpdateCounted,
     UpdateReturns, ResumeLocked, ResumeReturns, PauseGathered, SyncAnswer, SyncRest, SyncSame
<1>6. ASSUME TrainerNext PROVE UNCHANGED <<phase, used, wver, hand>>
  BY <1>6 DEF TrainerNext, Collect, Train, SyncWeights, TransferBegins, TransferEnds,
              LastBatchDone, FitEnds, RollouterRest
<1>7. ASSUME UNCHANGED vars PROVE UNCHANGED <<phase, used, wver, hand>>
  BY <1>7 DEF vars
<1>8. ASSUME ~(Processor \/ Feed) PROVE ~ProcTakePending
  BY <1>8 DEF Processor
<1> QED
  BY <1>1, <1>2, <1>3, <1>4, <1>5, <1>6, <1>7, <1>8 DEF Next, LoopStep, Event

\* The counter changes at two places, and a processor that has ended has ended.
LEMMA StaleSteps ==
  ASSUME [Next]_vars
  PROVE  /\ ~ProcTakePending /\ ~UpdateCounted => staleness_samples' = staleness_samples
         /\ Over => Over'
<1> USE DEF statVars, procVars, Over
<1>1. CASE TrainerNext
  BY <1>1 DEF TrainerNext, Collect, Train, SyncWeights, TransferBegins, TransferEnds,
              LastBatchDone, FitEnds, RollouterRest, rollouterVars
<1>2. CASE ~TrainerNext /\ (Sync \/ PauseGathered \/ SyncAnswer)
  BY <1>2 DEF Sync, SyncEnters, PauseLocked, PauseReturns, UpdateLocked, UpdateCounted,
     UpdateReturns, ResumeLocked, ResumeReturns, PauseGathered, SyncAnswer, SyncRest, SyncSame
<1>3. CASE ProcTop \/ ProcTakePending
  BY <1>3 DEF ProcTop, ProcTakePending, ProcRest
<1>4. CASE ~TrainerNext /\ ~(Sync \/ PauseGathered \/ SyncAnswer) /\ ~(ProcTop \/ ProcTakePending)
  BY <1>4, ProcessorGoes
<1> QED
  BY <1>1, <1>2, <1>3, <1>4

LEMMA EndedStays == ASSUME [Next]_vars, Ended PROVE Ended'
<1>1. ASSUME TrainerNext PROVE Ended'
  BY <1>1 DEF TrainerNext, Collect, Train, SyncWeights, TransferBegins, TransferEnds,
              LastBatchDone, FitEnds, trainerVars, Ended
<1>2. ASSUME UNCHANGED <<tpc, trainerVars>> PROVE Ended'
  BY <1>2 DEF trainerVars, Ended
<1> QED
  BY <1>1, <1>2 DEF Next, vars

\* When the transfer of a synchronisation that is not the last ends, no sample is anywhere
\* between the processor and the trainer.
LEMMA NothingLeft ==
  ASSUME Synchronous, SInv, TransferEnds
  PROVE  /\ Unfinished = {} /\ buf = <<>> /\ tpc = "weights" /\ local_trigger_step = 1
         /\ wver' = wver + 1 /\ spc' = "update"
         /\ ~final => /\ hand \notin Samples /\ \A i \in Samples : i \notin Elems(mq)
<1>1. IInv /\ PlaceInv /\ CallInv /\ ChainInv /\ IdleInv /\ RoundInv /\ TypeOK
  BY LoopTypes DEF SInv, CallInv
<1>2. tpc = "weights" /\ spc = "paused" /\ buf = <<>> /\ local_trigger_step = 1
  BY <1>1 DEF TransferEnds, IInv, SyncInv, ChainInv, Syncing
<1>3. Unfinished = {} /\ wver' = wver + 1 /\ spc' = "update"
  BY <1>1, <1>2 DEF TransferEnds, Loaded, ChainInv, Syncing, IdleInv
<1>4. ASSUME ~final PROVE hand \notin Samples /\ \A i \in Samples : i \notin Elems(mq)
  <2>1. Out = 0
    BY <1>1, <1>2, <1>4, UsedUp DEF Syncing
  <2>2. hand \notin Samples /\ Filled(mq) = {}
    BY <1>1, <2>1, OutParts
  <2>3. NoSample \notin Samples
    BY <1>1, Placed
  <2> QED
    BY <2>2, <2>3 DEF Filled, Elems
<1> QED
  BY <1>2, <1>3, <1>4

LEMMA FreshKeeps == ASSUME Synchronous, SInv, FreshInv, [Next]_vars PROVE FreshInv'
<1>0. /\ IInv /\ PlaceInv /\ CallInv /\ ChainInv
      /\ wver \in Nat /\ used \in [Samples -> Nat]
      /\ \A i \in Samples : used[i] <= wver
  BY ChainTypes DEF SInv, CallInv, FreshInv
<1>1. \A i \in Samples : used'[i] = used[i] \/ (phase[i] = "new" /\ used'[i] = wver)
  BY <1>0, WeightsChosen
<1>2. CASE TransferEnds
  <2>1. /\ Unfinished = {} /\ buf = <<>> /\ tpc = "weights" /\ wver' = wver + 1
        /\ ~final => \A i \in Samples : i \notin Elems(mq)
    BY <1>2, NothingLeft
  <2>2. UNCHANGED <<phase, used, mq, buf, final>> /\ tpc' = IF final THEN "finwait" ELSE "collect"
    BY <1>2 DEF TransferEnds, RollouterRest, taskVars, mqVars, trainerVars
  <2>3. \A i \in Samples : phase[i] \notin Sent
    BY <2>1 DEF Unfinished, Sent, Live
  <2>4. Elems(buf) = {}
    BY <1>0, <2>1, ChainTypes, ElemsLemma
  <2>5. \A i \in Samples : used'[i] <= wver'
    BY <1>0, <2>1, <2>2
  <2>6. ~Ended' => ~final
    BY <2>2 DEF Ended
  <2> QED
    BY <2>1, <2>2, <2>3, <2>4, <2>5, <2>6 DEF FreshInv
<1>3. CASE ~TransferEnds
  <2>1. wver' = wver
    <3>1. ASSUME TrainerNext PROVE wver' = wver
      BY <1>3, <3>1 DEF TrainerNext, Collect, Train, SyncWeights, TransferBegins, LastBatchDone,
                        FitEnds, rollouterVars, serverVars
    <3> QED
      BY <3>1, VersionsStay
  <2>2. \A i \in Samples : used'[i] <= wver'
    BY <1>0, <1>1, <2>1
  <2>3. ASSUME ~Ended, NEW i \in Samples, phase'[i] \in Sent PROVE used'[i] = wver
    BY <1>0, <2>3, WeightsChosen DEF FreshInv
  <2>4. ASSUME NEW i \in Samples, i \in Elems(mq') \cup Elems(buf')
        PROVE  i \in Elems(mq) \cup Elems(buf) \/ phase[i] \in Sent
    <3>1. CASE Collect
      <4>1. /\ mq \in Seq(Samples \cup {NoSample}) /\ mq # <<>> /\ mq' = Tail(mq)
            /\ \/ buf' = <<>>
               \/ Head(mq) \in Samples /\ buf' = Append(buf, Head(mq))
        BY <1>0, <3>1, CollectTakes
      <4>2. buf \in Seq(Samples) /\ Distinct(mq) /\ Distinct(buf) /\ Elems(mq) \cap Elems(buf) = {}
        BY <1>0, ChainTypes DEF PlaceInv
      <4>3. Elems(mq') \subseteq Elems(mq) /\ Head(mq) \in Elems(mq)
        BY <4>1, <4>2, ElemsTail
      <4>4. Elems(buf') \subseteq Elems(buf) \cup {Head(mq)}
        <5>1. CASE buf' = <<>>
          BY <4>2, <5>1, ElemsLemma
        <5>2. CASE Head(mq) \in Samples /\ buf' = Append(buf, Head(mq))
          <6>1. Head(mq) \notin Elems(buf)
            BY <4>2, <4>3
          <6> QED
            BY <4>2, <5>2, <6>1, ElemsAppend
        <5> QED
          BY <4>1, <5>1, <5>2
      <4> QED
        BY <2>4, <4>3, <4>4
    <3>2. CASE TrainerNext /\ ~Collect
      <4>1. mq' = mq /\ (buf' = buf \/ buf' = <<>>)
        BY <3>2 DEF TrainerNext, Train, SyncWeights, TransferBegins, TransferEnds, LastBatchDone,
                    FitEnds, rollouterVars, mqVars, trainerVars
      <4> QED
        BY <2>4, <4>1, <1>0, ChainTypes, ElemsLemma
    <3>3. CASE ~TrainerNext
      <4>1. buf' = buf
        BY <3>3 DEF Next, vars, trainerVars
      <4>2. CASE mq' = mq
        BY <2>4, <4>1, <4>2
      <4>3. CASE \E x \in Samples \cup {NoSample} :
                   mq' = Append(Room, x) /\ (x \in Samples => phase[x] = "put")
        <5>1. PICK x \in Samples \cup {NoSample} :
                mq' = Append(Room, x) /\ (x \in Samples => phase[x] = "put")
          BY <4>3
        <5>2. Room \in Seq(Samples \cup {NoSample}) /\ Elems(Room) \subseteq Elems(mq)
          BY <1>0, RoomLemma
        <5> HIDE DEF Room
        <5>3. Elems(Append(Room, x)) \subseteq Elems(Room) \cup {x}
          <6>1. /\ Len(Append(Room, x)) = Len(Room) + 1 /\ Len(Room) \in Nat
                /\ \A k \in 1..Len(Room) : Append(Room, x)[k] = Room[k]
                /\ Append(Room, x)[Len(Room) + 1] = x
            BY <5>2, AppendProperties, LenProperties
          <6> QED
            BY <6>1 DEF Elems
        <5> QED
          BY <2>4, <4>1, <5>1, <5>2, <5>3 DEF Sent
      <4>4. MainNonePut => mq' = Append(Room, NoSample) /\ NoSample \notin Samples
        BY <1>0, Placed, PutAppends DEF MainNonePut
      <4>5. \A x \in Samples : QueuePuts(x) => mq' = Append(Room, x) /\ phase[x] = "put"
        BY <1>0, PutAppends DEF QueuePuts
      <4> QED
        BY <3>3, <4>2, <4>3, <4>4, <4>5, QueueSteps
    <3> QED
      BY <3>1, <3>2, <3>3
  <2>5. ASSUME ~Ended, NEW i \in Samples, i \in Elems(mq') \cup Elems(buf') PROVE used'[i] = wver
    <3>1. used[i] = wver
      BY <2>4, <2>5 DEF FreshInv
    <3> QED
      BY <1>1, <3>1
  <2> QED
    BY <2>1, <2>2, <2>3, <2>5, EndedStays DEF FreshInv
<1> QED
  BY <1>2, <1>3

\* When the update of the counter begins and ends.
LEMMA UpdatingSteps == ASSUME [Next]_vars PROVE Updating' => Updating \/ TransferEnds
<1>1. CASE TrainerNext
  BY <1>1 DEF TrainerNext, Collect, Train, SyncWeights, TransferBegins, LastBatchDone, FitEnds,
              Updating, rollouterVars, syncVars
<1>2. CASE ~TrainerNext /\ (Sync \/ PauseGathered \/ SyncAnswer)
  <2>1. UNCHANGED <<tpc, trainerVars>>
    BY <1>2 DEF Next, vars
  <2>2. Updating' => Updating \/ spc = "update"
    BY <1>2, <2>1, SyncSteps DEF Updating
  <2> QED
    BY <2>2 DEF Updating
<1>3. CASE ~TrainerNext /\ ~(Sync \/ PauseGathered \/ SyncAnswer)
  BY <1>3, SideSteps DEF Updating
<1> QED
  BY <1>1, <1>2, <1>3

LEMMA CountKeeps ==
  ASSUME Synchronous, SInv, CutInv, FreshInv, CountInv, [Next]_vars PROVE CountInv'
<1>0. /\ IInv /\ IInv' /\ PlaceInv /\ EndInv /\ RoundInv /\ TypeOK /\ TypeOK'
  BY NextKeeps, LoopTypes DEF SInv, IInv
<1>1. /\ IsFiniteSet(Begun) /\ Cardinality(Begun) \in Nat /\ staleness_samples \in Nat
      /\ max_required_samples \in Nat /\ Cardinality({}) = 0 /\ staleness_samples' \in Nat
  BY <1>0, RoundSets, BehindLemma, Products, FS_EmptySet, FlatNext DEF Flat
<1>2. Over => Over'
  BY StaleSteps
<1>3. Ended => Ended'
  BY EndedStays
<1>4. ~Over => ~final
  BY <1>0 DEF EndInv
<1>5. ASSUME Begun' \subseteq Begun
      PROVE  IsFiniteSet(Begun') /\ Cardinality(Begun') <= Cardinality(Begun)
  BY <1>1, <1>5, FS_Subset
<1>6. CASE TransferEnds
  <2>1. wver' = wver + 1 /\ spc' = "update" /\ Unfinished = {} /\ (~final => hand \notin Samples)
    BY <1>6, NothingLeft
  <2>2. UNCHANGED <<phase, used, hand, final>> /\ (final => Ended')
    BY <1>6 DEF TransferEnds, RollouterRest, taskVars, procVars, trainerVars, Ended
  <2>3. CASE final
    BY <1>2, <1>4, <2>2, <2>3 DEF CountInv
  <2>4. CASE ~final
    <3>1. ASSUME NEW i \in Samples PROVE i \notin Begun'
      <4>1. used[i] \in Nat /\ wver \in Nat /\ used[i] <= wver
        BY <1>0, ChainTypes DEF FreshInv
      <4>2. phase[i] # "new"
        BY <2>1 DEF Unfinished, Live
      <4> QED
        BY <2>1, <2>2, <2>4, <4>1, <4>2 DEF Begun, Began
    <3>2. Begun' = {}
      BY <3>1 DEF Begun, Began
    <3> QED
      BY <1>1, <2>1, <3>2 DEF CountInv, Updating
  <2> QED
    BY <2>3, <2>4
<1>7. CASE ProcTakePending
  <2>1. /\ ppc \in {"get", "getwait"} /\ ~Over /\ UNCHANGED <<spc, tpc, final>>
        /\ staleness_samples' = staleness_samples + 1 /\ ~TransferEnds
    <3>1. ~TrainerNext
      BY <1>7 DEF ProcTakePending, TrainerNext, Collect, Train, SyncWeights, TransferBegins,
                  TransferEnds, LastBatchDone, FitEnds, RollouterRest, rollouterVars, procVars
    <3>2. UNCHANGED <<tpc, trainerVars>>
      BY <3>1 DEF Next, vars
    <3> QED
      BY <1>7, <3>1, <3>2 DEF ProcTakePending, Over, syncVars, trainerVars, TrainerNext
  <2>2. staleness_samples < max_required_samples /\ ~final
    BY <1>0, <1>4, <2>1 DEF RoundInv
  <2>3. ~Updating
    <3> SUFFICES ASSUME Updating PROVE FALSE
      OBVIOUS
    <3>1. Behind = max_required_samples
      BY <2>2 DEF Behind
    <3>2. Out + Len(buf) + Behind <= staleness_samples
      BY <1>0, <2>1 DEF RoundInv
    <3>3. Out \in Nat /\ Len(buf) \in Nat
      BY <1>0, BehindLemma
    <3> QED
      BY <1>1, <2>2, <3>1, <3>2, <3>3
  <2>4. Begun' \subseteq Begun \cup {taken + 1}
    BY <1>0, <1>7, <2>1, RoundGrows
  <2>5. IsFiniteSet(Begun \cup {taken + 1})
        /\ Cardinality(Begun \cup {taken + 1}) \in {Cardinality(Begun), Cardinality(Begun) + 1}
    BY <1>1, FS_AddElement
  <2>6. Cardinality(Begun') <= Cardinality(Begun) + 1
    <3>1. Cardinality(Begun') <= Cardinality(Begun \cup {taken + 1}) /\ Cardinality(Begun') \in Nat
      BY <2>4, <2>5, FS_Subset, FS_CardinalityType
    <3> QED
      BY <1>1, <2>5, <3>1
  <2>7. Cardinality(Begun) <= staleness_samples
    BY <2>1, <2>3 DEF CountInv
  <2>8. Cardinality(Begun') \in Nat
    BY <2>4, <2>5, FS_Subset, FS_CardinalityType
  <2>9. Cardinality(Begun') <= staleness_samples' /\ Cardinality(Begun') <= max_required_samples
    BY <1>1, <2>1, <2>2, <2>6, <2>7, <2>8
  <2> QED
    BY <2>1, <2>3, <2>9 DEF CountInv, Updating
<1>8. CASE ~TransferEnds /\ ~ProcTakePending
  <2>1. Begun' \subseteq Begun
    BY <1>0, <1>8, RoundGrows
  <2>2. /\ IsFiniteSet(Begun') /\ Cardinality(Begun') <= Cardinality(Begun)
        /\ Cardinality(Begun') \in Nat
    BY <1>5, <2>1, FS_CardinalityType
  <2>3. ~Ended' => Cardinality(Begun') <= max_required_samples
    BY <1>1, <1>3, <2>2 DEF CountInv
  <2>4. final => final'
    BY DEF Next, TrainerNext, Collect, Train, SyncWeights, TransferBegins, TransferEnds,
           LastBatchDone, FitEnds, trainerVars, vars
  <2>5. CASE final
    BY <1>2, <1>4, <2>3, <2>4, <2>5 DEF CountInv
  <2>6. CASE ~final /\ Updating
    <3>1. Begun' = {}
      BY <2>1, <2>6 DEF CountInv
    <3> QED
      BY <1>1, <2>3, <3>1 DEF CountInv
  <2>7. CASE ~Updating
    <3>1. ~UpdateCounted /\ ~Updating'
      BY <1>8, <2>7, UpdatingSteps DEF UpdateCounted, Updating
    <3>2. staleness_samples' = staleness_samples
      BY <1>8, <3>1, StaleSteps
    <3>3. ~Over' => Cardinality(Begun') <= staleness_samples'
      BY <1>1, <1>2, <2>2, <2>7, <3>2 DEF CountInv
    <3> QED
      BY <2>3, <3>1, <3>3 DEF CountInv
  <2> QED
    BY <2>5, <2>6, <2>7
<1> QED
  BY <1>6, <1>7, <1>8

\* A training step consumes a batch of samples of the round.
LEMMA BatchConsumed ==
  ASSUME Synchronous, SInv, FreshInv, Train, [Next]_vars
  PROVE  /\ Consumed' = Consumed \cup Elems(buf) /\ Consumed \cap Elems(buf) = {}
         /\ Cardinality(Consumed') = Cardinality(Consumed) + required_samples
         /\ Cardinality(Consumed') \in Nat
         /\ Consumed' \subseteq Began
         /\ ~final /\ ~Ended /\ wver' = wver /\ Began' = Began
<1>0. IInv /\ PlaceInv /\ ChainInv
  BY DEF SInv, CallInv
<1>1. tpc = "train" /\ Len(buf) = required_samples /\ ~final /\ ~Ended
  BY <1>0 DEF Train, ChainInv, Ended
<1>2. /\ trained' = trained \cup Elems(buf) /\ UNCHANGED <<used, wver, phase>>
  BY DEF Train, Elems, rollouterVars, taskVars, serverVars
<1>3. \A i \in Elems(buf) : used[i] = wver /\ phase[i] \in Settled /\ i \in Samples
  <2>1. Elems(buf) \subseteq Samples
    BY <1>0, ChainTypes, ElemsLemma
  <2> QED
    BY <1>0, <1>1, <2>1 DEF FreshInv, PlaceInv
<1>4. Consumed' = Consumed \cup Elems(buf)
  BY <1>2, <1>3 DEF Consumed
<1>5. Consumed \cap Elems(buf) = {}
  BY <1>0 DEF PlaceInv, Consumed
<1>6. IsFiniteSet(Elems(buf)) /\ Cardinality(Elems(buf)) = required_samples
  <2>1. buf \in Seq(Samples) /\ Distinct(buf) /\ Len(buf) \in Nat
    BY <1>0, ChainTypes DEF PlaceInv
  <2>2. PICK n \in Nat : n = Len(buf)
    BY <2>1
  <2> DEFINE f == [k \in 1..n |-> buf[k]]
  <2>3. f \in Bijection(1..n, Elems(buf))
    BY <2>1, <2>2 DEF Elems, Distinct, Bijection, Injection, Surjection, IsInjective
  <2>4. IsFiniteSet(1..n) /\ Cardinality(1..n) = n
    BY <2>2, CountTo
  <2> HIDE DEF f
  <2>5. IsFiniteSet(Elems(buf)) /\ Cardinality(Elems(buf)) = Cardinality(1..n)
    BY <2>3, <2>4, FS_Bijection DEF ExistsBijection
  <2> QED
    BY <1>1, <2>2, <2>4, <2>5
<1>7. Cardinality(Consumed') = Cardinality(Consumed) + required_samples
  <2>1. IsFiniteSet(Consumed) /\ Cardinality(Consumed) \in Nat /\ required_samples \in Nat
    BY <1>0, RoundSets, ChainTypes
  <2>2. PICK c, b : c = Consumed /\ b = Elems(buf)
    OBVIOUS
  <2>3. IsFiniteSet(c) /\ IsFiniteSet(b) /\ c \cap b = {}
    BY <1>5, <1>6, <2>1, <2>2
  <2>4. Cardinality(c \cup b) = Cardinality(c) + Cardinality(b) - Cardinality(c \cap b)
    BY ONLY <2>3, FS_Union
  <2>5. Cardinality(c \cap b) = 0
    BY <2>3, FS_EmptySet
  <2> QED
    BY <1>4, <1>6, <2>1, <2>2, <2>4, <2>5
<1>8. Consumed' \subseteq Began
  <2>1. \A i \in trained : i \in Samples /\ phase[i] \in Settled
    BY <1>0, Placed DEF PlaceInv
  <2> QED
    BY <1>3, <1>4, <2>1 DEF Consumed, Began, Settled
<1>9. Began' = Began
  BY <1>2 DEF Began
<1>10. Cardinality(Consumed') \in Nat
  BY <1>0, <1>7, RoundSets, ChainTypes
<1> QED
  BY <1>1, <1>2, <1>4, <1>5, <1>7, <1>8, <1>9, <1>10

\* Nothing else does, while the weights stay.
LEMMA ConsumedStays ==
  ASSUME SInv, [Next]_vars, ~Train, ~TransferEnds PROVE Consumed' = Consumed /\ wver' = wver
<1>0. IInv /\ PlaceInv
  BY DEF SInv
<1>1. trained' = trained /\ wver' = wver
  <2>1. CASE TrainerNext
    BY <2>1 DEF TrainerNext, Collect, SyncWeights, TransferBegins, LastBatchDone, FitEnds,
                trainerVars, rollouterVars, serverVars
  <2>2. CASE ~TrainerNext
    <3>1. UNCHANGED <<tpc, trainerVars>>
      BY <2>2 DEF Next, vars
    <3> QED
      BY <2>2, <3>1, VersionsStay DEF trainerVars
  <2> QED
    BY <2>1, <2>2
<1>2. ASSUME NEW i \in trained PROVE used'[i] = used[i]
  <2>1. i \in Samples /\ phase[i] # "new"
    BY <1>0, <1>2, Placed DEF PlaceInv, Settled
  <2> QED
    BY <1>0, <2>1, WeightsChosen
<1> QED
  BY <1>1, <1>2 DEF Consumed

\* After a transfer nothing has been generated with the weights that were loaded.
LEMMA NewRound ==
  ASSUME Synchronous, SInv, FreshInv, TransferEnds
  PROVE  Began' = {} /\ Consumed' = {} /\ Cardinality({}) = 0 /\ wver' = wver + 1
<1>1. wver' = wver + 1 /\ UNCHANGED <<used, phase, trained>>
  BY NothingLeft DEF TransferEnds, RollouterRest, taskVars, trainerVars
<1>2. \A i \in Samples : used[i] # wver + 1
  <2>1. wver \in Nat /\ used \in [Samples -> Nat]
    BY ChainTypes DEF SInv
  <2> QED
    BY <2>1 DEF FreshInv
<1>3. trained \subseteq Samples
  BY Placed DEF SInv
<1> QED
  BY <1>1, <1>2, <1>3, FS_EmptySet DEF Began, Consumed

LEMMA TrainedKeeps ==
  ASSUME Synchronous, SInv, FreshInv, TrainedInv, [Next]_vars PROVE TrainedInv'
<1>0. /\ IInv /\ ChainInv /\ CallInv
      /\ local_trigger_step \in 1..Trigger /\ (1 - 1) * required_samples = 0
  BY BehindLemma, LoopTypes, Products DEF SInv, CallInv
<1>1. CASE Train
  <2>1. /\ Cardinality(Consumed') = Cardinality(Consumed) + required_samples
        /\ ~final /\ tpc = "train"
    BY <1>1, BatchConsumed DEF Train
  <2>2. Cardinality(Consumed) = (local_trigger_step - 1) * required_samples
    BY <2>1 DEF TrainedInv, Syncing
  <2>3. CASE SyncDue
    <3>1. local_trigger_step = Trigger /\ tpc' = "wait"
      BY <1>1, <2>3 DEF Train, SyncDue
    <3>2. (local_trigger_step - 1) * required_samples + required_samples = max_required_samples
      BY <1>0, <3>1, Products
    <3> QED
      BY <2>1, <2>2, <3>1, <3>2 DEF TrainedInv, Syncing
  <2>4. CASE ~SyncDue
    <3>1. local_trigger_step' = local_trigger_step + 1 /\ tpc' = "collect"
      BY <1>1, <2>4 DEF Train
    <3>2. ((local_trigger_step + 1) - 1) * required_samples
             = (local_trigger_step - 1) * required_samples + required_samples
      BY <1>0, Products
    <3> QED
      BY <2>1, <2>2, <3>1, <3>2 DEF TrainedInv, Syncing
  <2> QED
    BY <2>3, <2>4
<1>2. CASE TransferEnds
  <2>1. /\ Consumed' = {} /\ Cardinality({}) = 0 /\ local_trigger_step = 1
    BY <1>2, NewRound, NothingLeft
  <2>2. UNCHANGED <<local_trigger_step, final>> /\ tpc' = IF final THEN "finwait" ELSE "collect"
    BY <1>2 DEF TransferEnds, trainerVars
  <2> QED
    BY <1>0, <2>1, <2>2 DEF TrainedInv, Syncing
<1>3. CASE ~Train /\ ~TransferEnds
  <2>1. Consumed' = Consumed
    BY <1>3, ConsumedStays
  <2>2. final' \/ (~final /\ UNCHANGED local_trigger_step /\ Syncing' = Syncing)
    <3>1. CASE TrainerNext
      BY <1>0, <1>3, <3>1 DEF TrainerNext, Collect, SyncWeights, TransferBegins,
         LastBatchDone, FitEnds, trainerVars, Syncing, ChainInv
    <3>2. CASE ~TrainerNext
      <4>1. UNCHANGED <<tpc, trainerVars>>
        BY <3>2 DEF Next, vars
      <4> QED
        BY <4>1 DEF trainerVars, Syncing
    <3> QED
      BY <3>1, <3>2
  <2> QED
    BY <2>1, <2>2 DEF TrainedInv
<1> QED
  BY <1>1, <1>2, <1>3

LEMMA RoundsInit ==
  ASSUME Synchronous PROVE Init => CutInv /\ FreshInv /\ CountInv /\ TrainedInv
<1> SUFFICES ASSUME Init PROVE CutInv /\ FreshInv /\ CountInv /\ TrainedInv
  OBVIOUS
<1>1. /\ spc = "idle" /\ tpc = "collect" /\ final = FALSE /\ buf = <<>> /\ local_trigger_step = 1
      /\ staleness_samples = 0 /\ cancel_queue = <<>> /\ mq = <<>> /\ hand = NoSample
      /\ serverPaused = FALSE /\ wver = 0 /\ trained = {}
      /\ \A i \in Samples : phase[i] = "idle" /\ used[i] = 0
  BY DEF Init, RollouterInit
<1>2. NoSample \notin Samples /\ Cardinality({}) = 0 /\ (1 - 1) * required_samples = 0
      /\ max_required_samples \in Nat /\ Elems(<<>>) = {}
  BY InitIInv, ChainTypes, FS_EmptySet, Products, ElemsLemma
<1>3. Begun = {} /\ Consumed = {}
  BY <1>1, <1>2 DEF Begun, Began, Consumed
<1>4. CutInv /\ FreshInv
  BY <1>1, <1>2 DEF CutInv, FreshInv, Sent
<1>5. CountInv /\ TrainedInv
  BY <1>1, <1>2, <1>3 DEF CountInv, TrainedInv, Syncing, Updating
<1> QED
  BY <1>4, <1>5

RInv == SInv /\ CutInv /\ FreshInv /\ CountInv /\ TrainedInv

LEMMA RoundsInvariance == ASSUME Synchronous, ~Partial PROVE Spec => []RInv
<1>1. Init => RInv
  BY InitIInv, PlaceInit, EndInit, SynchronousInit, RoundsInit DEF SInv, RInv
<1>2. RInv /\ [Next]_vars => RInv'
  <2> SUFFICES ASSUME RInv, [Next]_vars PROVE RInv'
    OBVIOUS
  <2>1. SInv /\ CutInv /\ FreshInv /\ CountInv /\ TrainedInv /\ IInv
    BY DEF RInv, SInv
  <2>2. SInv' /\ CutInv' /\ FreshInv' /\ CountInv' /\ TrainedInv'
    BY <2>1, SynchronousKeeps, CutKeeps, FreshKeeps, CountKeeps, TrainedKeeps
  <2> QED
    BY <2>2 DEF RInv
<1> QED
  BY <1>1, <1>2, PTL DEF Spec

-----------------------------------------------------------------------------
(* Each step is a step of Rounds or none *)

\* The start of a task begins a generation of the round.
LEMMA StartGenerates ==
  ASSUME Synchronous, RInv, NEW i \in Samples, TaskStart(i), [Next]_vars
  PROVE  OnPolicy!Generate
<1>0. /\ IInv /\ PlaceInv /\ IdleInv /\ CutInv /\ CountInv /\ SInv
      /\ phase \in [Samples -> Live \cup {"idle", "done", "failed"}] /\ used \in [Samples -> Nat]
  BY Placed, ChainTypes DEF RInv, SInv
<1>1. /\ phase[i] = "new" /\ phase' = [phase EXCEPT ![i] = "gen"] /\ used' = [used EXCEPT ![i] = wver]
      /\ wver' = wver
  BY <1>0 DEF TaskStart, CutInv, serverVars
<1>2. ~TrainerNext /\ phase' # phase
  BY <1>0, <1>1 DEF TrainerNext, Collect, Train, SyncWeights, TransferBegins, TransferEnds,
              LastBatchDone, FitEnds, RollouterRest, rollouterVars, taskVars
<1>3. UNCHANGED <<tpc, trainerVars>>
  BY <1>2 DEF Next, vars, taskVars, rollouterVars
<1>4. ~Ended /\ ~Ended' /\ Ended \in BOOLEAN
  <2>1. i \in Unfinished
    BY <1>1 DEF Unfinished, Live
  <2> QED
    BY <1>0, <1>3, <2>1 DEF Ended, IdleInv, trainerVars
<1>5. Began' = Began \cup {i} /\ i \notin Began
  BY <1>0, <1>1 DEF Began
<1>6. Cardinality(Began') = Cardinality(Began) + 1
  BY <1>0, <1>5, RoundSets, FS_AddElement
<1>7. Cardinality(Began) < max_required_samples
  <2>1. Began \cup {i} \subseteq Begun /\ IsFiniteSet(Begun)
    BY <1>0, <1>1, RoundSets DEF Begun
  <2>2. Cardinality(Began') <= Cardinality(Begun)
    BY <1>5, <2>1, FS_Subset
  <2>3. Cardinality(Begun) <= max_required_samples /\ max_required_samples \in Nat
    BY <1>0, <1>4, ChainTypes DEF CountInv
  <2>4. Cardinality(Began) \in Nat /\ Cardinality(Begun) \in Nat
    BY <1>0, RoundSets
  <2> QED
    BY <1>6, <2>2, <2>3, <2>4
<1>8. Consumed' = Consumed
  <2>1. ~Train /\ ~TransferEnds
    BY <1>2 DEF TrainerNext
  <2> QED
    BY <1>0, <2>1, ConsumedStays
<1> QED
  BY <1>1, <1>4, <1>6, <1>7, <1>8 DEF OnPolicy!Generate, Began, Consumed, Ended

\* A training step takes a batch of the round.
LEMMA TrainTrains ==
  ASSUME Synchronous, RInv, Train, [Next]_vars
  PROVE  OnPolicy!Train
<1>0. IInv /\ SInv /\ FreshInv
  BY DEF RInv, SInv
<1>1. /\ Cardinality(Consumed') = Cardinality(Consumed) + required_samples
      /\ Cardinality(Consumed') \in Nat /\ Consumed' \subseteq Began
      /\ ~Ended /\ ~final /\ wver' = wver /\ Began' = Began
  BY <1>0, BatchConsumed
<1>2. Cardinality(Consumed') <= Cardinality(Began)
  BY <1>0, <1>1, RoundSets, FS_Subset
<1>3. ~Ended'
  BY <1>1 DEF Train, Ended
<1> QED
  BY <1>1, <1>2, <1>3 DEF OnPolicy!Train, Began, Consumed, Ended

\* The end of a transfer ends the round, which is used up unless it is the last one.
LEMMA TransferSynchronizes ==
  ASSUME Synchronous, RInv, TransferEnds, [Next]_vars
  PROVE  OnPolicy!Synchronize \/ OnPolicy!Finish
<1>0. IInv /\ SInv /\ FreshInv /\ TrainedInv
  BY DEF RInv, SInv
<1>1. Began' = {} /\ Consumed' = {} /\ Cardinality({}) = 0 /\ wver' = wver + 1 /\ tpc = "weights"
  BY <1>0, NewRound, NothingLeft
<1>2. final' = final /\ tpc' = IF final THEN "finwait" ELSE "collect"
  BY DEF TransferEnds, trainerVars
<1>3. ~Ended
  BY <1>1 DEF Ended
<1>4. CASE ~final
  <2>1. Cardinality(Consumed) = max_required_samples /\ ~Ended'
    BY <1>0, <1>1, <1>2, <1>4 DEF TrainedInv, Syncing, Ended
  <2> QED
    BY <1>1, <1>2, <1>3, <1>4, <2>1 DEF OnPolicy!Synchronize, Began, Consumed, Ended
<1>5. CASE final
  <2>1. Ended' = TRUE
    BY <1>2, <1>5 DEF Ended
  <2> QED
    BY <1>1, <1>2, <1>3, <1>5, <2>1 DEF OnPolicy!Finish, Began, Consumed, Ended
<1> QED
  BY <1>4, <1>5

LEMMA StepRounds ==
  ASSUME Synchronous PROVE RInv /\ [Next]_vars => [OnPolicy!Next]_(OnPolicy!vars)
<1> SUFFICES ASSUME RInv, [Next]_vars PROVE [OnPolicy!Next]_(OnPolicy!vars)
  OBVIOUS
<1>0. IInv /\ PlaceInv /\ SInv /\ CutInv /\ ChainInv
  BY DEF RInv, SInv, CallInv
<1>1. CASE \E i \in Samples : TaskStart(i)
  BY <1>1, StartGenerates DEF OnPolicy!Next
<1>2. CASE Train
  BY <1>2, TrainTrains DEF OnPolicy!Next
<1>3. CASE TransferEnds
  BY <1>3, TransferSynchronizes DEF OnPolicy!Next
<1>4. CASE ~Train /\ ~TransferEnds /\ ~\E i \in Samples : TaskStart(i)
  <2>1. Began' = Began
    BY <1>0, <1>4, RoundGrows
  <2>2. Consumed' = Consumed /\ wver' = wver
    BY <1>0, <1>4, ConsumedStays
  <2>3. Ended' = Ended
    <3>1. CASE TrainerNext
      BY <1>0, <1>4, <3>1 DEF TrainerNext, Collect, SyncWeights, TransferBegins, LastBatchDone,
                              FitEnds, trainerVars, Ended, ChainInv
    <3>2. CASE ~TrainerNext
      <4>1. UNCHANGED <<tpc, trainerVars>>
        BY <3>2 DEF Next, vars
      <4> QED
        BY <4>1 DEF trainerVars, Ended
    <3> QED
      BY <3>1, <3>2
  <2> QED
    BY <2>1, <2>2, <2>3 DEF OnPolicy!vars, Began, Consumed, Ended
<1> QED
  BY <1>1, <1>2, <1>3, <1>4

\* With staleness_threshold = 0 and without partial rollout (modes 1 and 2 of the README),
\* training is on policy and proceeds in rounds: as many samples as one synchronisation
\* uses up are generated with the same weights, the trainer takes batches of these only,
\* and the weights change when all of them are used up, and once more at the end.
THEOREM SynchronousRefines ==
  max_required_samples = required_samples * Trigger /\ ~Partial => (Spec => ImplementsRounds)
<1> SUFFICES ASSUME Synchronous, ~Partial PROVE Spec => ImplementsRounds
  BY DEF Synchronous
<1>1. Init => OnPolicy!Init
  <2> SUFFICES ASSUME Init PROVE OnPolicy!Init
    OBVIOUS
  <2>1. wver = 0 /\ trained = {} /\ final = FALSE /\ \A i \in Samples : phase[i] = "idle"
    BY DEF Init, RollouterInit
  <2>2. Began = {} /\ Consumed = {} /\ Cardinality({}) = 0
    BY <2>1, FS_EmptySet DEF Began, Consumed
  <2> QED
    BY <2>1, <2>2 DEF OnPolicy!Init, Began, Consumed
<1>2. RInv /\ [Next]_vars => [OnPolicy!Next]_(OnPolicy!vars)
  BY StepRounds
<1> QED
  BY <1>1, <1>2, RoundsInvariance, PTL DEF Spec, ImplementsRounds, OnPolicy!Spec

\* In these modes the trainer trains on nothing but samples of its own version.
THEOREM OnPolicyBatches ==
  max_required_samples = required_samples * Trigger /\ ~Partial =>
    (Spec => [](tpc = "train" => \A k \in 1..Len(buf) : used[buf[k]] = tver))
<1> SUFFICES ASSUME Synchronous, ~Partial
             PROVE  Spec => [](tpc = "train" => \A k \in 1..Len(buf) : used[buf[k]] = tver)
  BY DEF Synchronous
<1>1. RInv => (tpc = "train" => \A k \in 1..Len(buf) : used[buf[k]] = tver)
  <2> SUFFICES ASSUME RInv, tpc = "train", NEW k \in 1..Len(buf) PROVE used[buf[k]] = tver
    OBVIOUS
  <2>1. IInv /\ ChainInv /\ FreshInv
    BY DEF RInv, SInv, CallInv
  <2>2. ~Ended /\ tver = wver
    BY <2>1, ChainTypes DEF Ended, ChainInv, Syncing
  <2>3. buf[k] \in Samples /\ buf[k] \in Elems(buf)
    BY <2>1, ChainTypes, ElementOfSeq DEF Elems
  <2> QED
    BY <2>1, <2>2, <2>3 DEF FreshInv
<1> QED
  BY <1>1, RoundsInvariance, PTL

=============================================================================
