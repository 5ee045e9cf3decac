------------------------- MODULE Stickiness_proofs -------------------------
(***************************************************************************)
(* Proofs about the server managers of Serving, for any number of servers, *)
(* workers, rows and batches: a cache with room for a worker's chunk never *)
(* forgets a conversation that is under way, and the load is even.         *)
(***************************************************************************)
EXTENDS Serving_proofs

-----------------------------------------------------------------------------
(* The inductive invariant *)

Chunk == config.rows \div config.workers
Current(w, k) == request_id_to_server[w][k][1] = batch
RowAt(w, k) == request_id_to_server[w][k][2]

\* The entries of this batch are the most recent ones, one for each row.
CacheInv ==
  \A w \in Workers :
    /\ Len(request_id_to_server[w]) <= config.cache
    /\ \A j, k \in DOMAIN request_id_to_server[w] : Current(w, j) /\ j < k => Current(w, k)
    /\ \A j, k \in DOMAIN request_id_to_server[w] :
         Current(w, j) /\ Current(w, k) /\ RowAt(w, j) = RowAt(w, k) => j = k
    /\ \A k \in DOMAIN request_id_to_server[w] : Current(w, k) => WorkerOf(RowAt(w, k)) = w

\* A conversation that has been on a server is in the cache with that server.
StickyInv ==
  config.cache >= Chunk =>
    /\ \A r \in Rows : \A s, q \in visited[r] : s = q
    /\ manager = "serve" =>
         \A r \in Rows : \A s \in visited[r] :
           \E k \in Entries(r) : request_id_to_server[WorkerOf(r)][k][3] = s

SpreadInv ==
  \A w \in Workers : \A s, q \in Servers : counts[w][s] <= counts[w][q] + 1

CacheIInv == CacheInv /\ StickyInv /\ SpreadInv

-----------------------------------------------------------------------------
(* A full cache *)

\* The rows of a worker's chunk.
LEMMA ChunkRows ==
  ASSUME config \in Configs, NEW w \in Workers
  PROVE  /\ IsFiniteSet({q \in Rows : WorkerOf(q) = w})
         /\ Cardinality({q \in Rows : WorkerOf(q) = w}) <= Chunk
         /\ Chunk \in Nat
<1> DEFINE n == config.rows  c == config.workers  k == Chunk
           T == {q \in Rows : WorkerOf(q) = w}
           a == (w - 1) * k + 1
           b == w * k
<1>1. n \in Nat \ {0} /\ c \in Nat \ {0} /\ n % c = 0 /\ w \in 1..c
  BY ConfigFields DEF Workers
<1>2. k \in Nat \ {0}
  <2> HIDE DEF n, c
  <2>1. k = n \div c /\ n = c * (n \div c) /\ n \div c \in Nat
    BY <1>1 DEF n, c, Chunk
  <2> QED
    BY <1>1, <2>1
<1>3. a \in Int /\ b \in Int /\ b = a + k - 1
  <2> HIDE DEF k
  <2>1. w \in Int
    BY <1>1
  <2> QED
    BY <1>2, <2>1
<1>4. ASSUME NEW q \in T PROVE q \in a..b
  <2> DEFINE m == q - 1
  <2>1. q \in Int /\ q \in 1..n /\ m \in Nat
    BY <1>1 DEF Rows
  <2>2. m \div k = w - 1
    BY <2>1, <1>1, <1>2 DEF WorkerOf, Chunk
  <2> HIDE DEF m, k
  <2>3. k * (m \div k) <= m /\ m < k * (m \div k) + k
    BY <2>1, <1>2
  <2>4. k * (w - 1) = (w - 1) * k /\ w \in Int
    BY <1>1, <1>2
  <2> HIDE DEF a, b
  <2>5. a = (w - 1) * k + 1 /\ b = a + k - 1
    BY <1>3 DEF a
  <2> DEFINE x == (w - 1) * k
  <2>6. x \in Int /\ x <= m /\ m < x + k /\ a = x + 1
    BY <2>2, <2>3, <2>4, <2>5, <1>2
  <2> HIDE DEF x
  <2>7. q = m + 1
    BY <2>1 DEF m
  <2> QED
    BY <2>1, <2>5, <2>6, <2>7, <1>2
<1>5. /\ IsFiniteSet(a..b)
      /\ Cardinality(a..b) = IF a > b THEN 0 ELSE b - a + 1
  BY <1>3, FS_Interval
<1>6. Cardinality(a..b) = k
  <2> HIDE DEF a, b, k
  <2> QED
    BY <1>2, <1>3, <1>5
<1>7. T \in SUBSET (a..b)
  BY <1>4
<1>8. IsFiniteSet(T) /\ Cardinality(T) <= Cardinality(a..b)
  BY <1>5, <1>7, FS_Subset
<1> QED
  BY <1>2, <1>6, <1>8

\* A cache with room for the chunk is never full of current rows when a row of the chunk is
\* missing, so that what it evicts for it is of an earlier batch.
LEMMA Evicted ==
  ASSUME IInv, CacheInv, NEW r \in Rows, Entries(r) = {}, config.cache >= Chunk,
         Len(request_id_to_server[WorkerOf(r)]) = config.cache
  PROVE  ~Current(WorkerOf(r), 1)
<1> DEFINE w == WorkerOf(r)
           cache == request_id_to_server[w]
           S == {q \in Rows : WorkerOf(q) = w}
           f == [k \in 1..Len(cache) |-> cache[k][2]]
<1>1. config \in Configs /\ w \in Workers
  BY WorkerOfType DEF IInv, TypeInv
<1>2. cache \in Seq((1..batch) \X Rows \X Servers) /\ config.cache \in Nat \ {0}
  BY <1>1, ConfigFields DEF IInv, TypeInv, TypeOK
<1>3. DOMAIN cache = 1..Len(cache) /\ Len(cache) \in Nat /\ Len(cache) >= 1
  BY <1>2
<1> SUFFICES ASSUME Current(w, 1) PROVE FALSE
  OBVIOUS
<1>4. ASSUME NEW k \in 1..Len(cache) PROVE Current(w, k)
  <2>1. k \in DOMAIN cache /\ 1 \in DOMAIN cache /\ (k = 1 \/ 1 < k)
    BY <1>3
  <2> QED
    BY <1>1, <2>1 DEF CacheInv
<1>5. ASSUME NEW k \in 1..Len(cache) PROVE f[k] \in S \ {r}
  <2>1. cache[k] \in (1..batch) \X Rows \X Servers /\ k \in DOMAIN cache
    BY <1>2, <1>3
  <2>2. f[k] = RowAt(w, k) /\ f[k] \in Rows
    BY <2>1 DEF RowAt
  <2>3. WorkerOf(f[k]) = w
    BY <1>1, <1>4, <2>1, <2>2 DEF CacheInv
  <2>4. f[k] # r
    BY <1>4, <2>1, <2>2 DEF Entries, Current, RowAt
  <2> QED
    BY <2>2, <2>3, <2>4
<1>6. ASSUME NEW j \in 1..Len(cache), NEW k \in 1..Len(cache), f[j] = f[k] PROVE j = k
  BY <1>1, <1>3, <1>4, <1>6 DEF CacheInv, RowAt
<1>7. f \in Injection(1..Len(cache), S \ {r})
  BY <1>5, <1>6 DEF Injection, IsInjective
<1>8. IsFiniteSet(S) /\ Cardinality(S) <= Chunk /\ Chunk \in Nat /\ r \in S
  BY <1>1, ChunkRows
<1> HIDE DEF S, f
<1>9. IsFiniteSet(S \ {r}) /\ Cardinality(S \ {r}) = Cardinality(S) - 1
  BY <1>8, FS_RemoveElement
<1>10. Cardinality(1..Len(cache)) <= Cardinality(S \ {r})
  BY <1>7, <1>9, FS_Injection
<1>11. Cardinality(1..Len(cache)) = Len(cache)
  <2>1. 1 \in Int /\ Len(cache) \in Int
    BY <1>3
  <2>2. Cardinality(1..Len(cache)) = IF 1 > Len(cache) THEN 0 ELSE Len(cache) - 1 + 1
    BY <2>1, FS_Interval
  <2> QED
    BY <1>3, <2>2
<1>12. Cardinality(S) \in Nat
  BY <1>8, FS_CardinalityType
<1> HIDE DEF cache
<1> QED
  BY <1>2, <1>3, <1>8, <1>9, <1>10, <1>11, <1>12 DEF cache

-----------------------------------------------------------------------------
(* What choosing a server does to a cache *)

\* All but the last entry of cache `new' are m of those of `old', in the same order.
Keeps(old, new, f, m) ==
  /\ m \in 0..Len(old)
  /\ f \in [1..m -> 1..Len(old)]
  /\ Len(new) = m + 1
  /\ \A j \in 1..m : new[j] = old[f[j]]
  /\ \A i, j \in 1..m : i < j => f[i] < f[j]

\* With a new entry, only the first may go, and only if the cache is full.
AfterMiss(old, x) ==
  \E m \in 0..Len(old) : \E f \in [1..m -> 1..Len(old)] :
    /\ Keeps(old, Append(MakesRoom(old), x), f, m)
    /\ Append(MakesRoom(old), x)[m + 1] = x
    /\ m + 1 <= config.cache
    /\ \A k \in 1..Len(old) :
         (k = 1 /\ Len(old) = config.cache) \/ \E j \in 1..m : f[j] = k

LEMMA MissKeeps ==
  ASSUME NEW S, NEW old \in Seq(S), NEW x \in S,
         config.cache \in Nat \ {0}, Len(old) <= config.cache
  PROVE  AfterMiss(old, x)
<1> DEFINE new == Append(MakesRoom(old), x)
<1>1. CASE Len(old) = config.cache
  <2> DEFINE m == Len(old) - 1
             f == [j \in 1..m |-> j + 1]
  <2>1. m \in 0..Len(old) /\ Len(old) \in Nat /\ old # <<>> /\ m + 1 = Len(old)
    BY <1>1
  <2>2. Tail(old) \in Seq(S) /\ Len(Tail(old)) = m /\ \A j \in 1..m : Tail(old)[j] = old[j + 1]
    BY <2>1, HeadTailProperties
  <2>3. new = Append(Tail(old), x)
    BY <1>1 DEF MakesRoom
  <2> HIDE DEF m, new
  <2>4. Len(new) = m + 1 /\ new[m + 1] = x /\ \A j \in 1..m : new[j] = Tail(old)[j]
    BY <2>1, <2>2, <2>3, AppendProperties
  <2>5. f \in [1..m -> 1..Len(old)]
    BY <2>1
  <2>6. \A i, j \in 1..m : i < j => f[i] < f[j]
    BY <2>1
  <2>7. Keeps(old, new, f, m)
    BY <2>1, <2>2, <2>4, <2>5, <2>6 DEF Keeps
  <2>8. ASSUME NEW k \in 1..Len(old), k # 1 PROVE \E j \in 1..m : f[j] = k
    <3>1. k - 1 \in 1..m /\ (k - 1) + 1 = k
      BY <2>1, <2>8
    <3> QED
      BY <3>1
  <2> HIDE DEF f
  <2> QED
    BY <1>1, <2>1, <2>4, <2>5, <2>7, <2>8 DEF new, AfterMiss
<1>2. CASE Len(old) # config.cache
  <2> DEFINE m == Len(old)
             f == [j \in 1..m |-> j]
  <2>1. m \in Nat /\ m < config.cache
    BY <1>2
  <2>2. new = Append(old, x)
    BY <1>2 DEF MakesRoom
  <2>3. Len(new) = m + 1 /\ new[m + 1] = x /\ \A j \in 1..m : new[j] = old[j]
    BY <2>2, AppendProperties
  <2> HIDE DEF new
  <2>4. Keeps(old, new, f, m) /\ f \in [1..m -> 1..Len(old)]
    BY <2>1, <2>3 DEF Keeps
  <2>5. \A k \in 1..Len(old) : \E j \in 1..m : f[j] = k
    OBVIOUS
  <2>6. m \in 0..Len(old) /\ m + 1 <= config.cache
    BY <2>1
  <2> HIDE DEF f, m
  <2> QED
    BY <2>3, <2>4, <2>5, <2>6 DEF new, AfterMiss
<1> QED
  BY <1>1, <1>2

\* The k-th entry becomes the last one.
AfterHit(old, k) ==
  \E m \in 0..Len(old) : \E f \in [1..m -> 1..Len(old)] :
    /\ Keeps(old, Append(Without(old, k), old[k]), f, m)
    /\ Append(Without(old, k), old[k])[m + 1] = old[k]
    /\ m + 1 = Len(old)
    /\ \A j \in 1..m : f[j] # k
    /\ \A i \in 1..Len(old) : i = k \/ \E j \in 1..m : f[j] = i

LEMMA HitKeeps ==
  ASSUME NEW S, NEW old \in Seq(S), NEW k \in DOMAIN old
  PROVE  AfterHit(old, k)
<1> DEFINE m == Len(old) - 1
           f == [j \in 1..m |-> IF j < k THEN j ELSE j + 1]
           front == SubSeq(old, 1, k - 1)
           back == SubSeq(old, k + 1, Len(old))
           new == Append(Without(old, k), old[k])
<1>1. Len(old) \in Nat /\ k \in 1..Len(old) /\ old[k] \in S
      /\ m \in 0..Len(old) /\ m + 1 = Len(old)
  OBVIOUS
<1>2. front \in Seq(S) /\ Len(front) = k - 1 /\ \A j \in 1..k - 1 : front[j] = old[j]
  <2>1. \A i \in 1..(k - 1) : old[i] \in S
    BY <1>1
  <2>2. 1 \in Int /\ k - 1 \in Int
    BY <1>1
  <2>3. /\ front \in Seq(S)
        /\ Len(front) = IF 1 <= k - 1 THEN (k - 1) - 1 + 1 ELSE 0
        /\ \A j \in 1..(k - 1) - 1 + 1 : front[j] = old[1 + j - 1]
    BY <2>1, <2>2, SubSeqProperties
  <2>4. Len(front) = k - 1
    BY <1>1, <2>3
  <2>5. ASSUME NEW j \in 1..k - 1 PROVE front[j] = old[j]
    <3>1. j \in 1..(k - 1) - 1 + 1 /\ 1 + j - 1 = j
      BY <1>1
    <3> QED
      BY <2>3, <3>1
  <2> QED
    BY <2>3, <2>4, <2>5
<1>3. back \in Seq(S) /\ Len(back) = Len(old) - k
      /\ \A j \in 1..Len(old) - k : back[j] = old[j + k]
  <2>1. \A i \in k + 1..Len(old) : old[i] \in S
    BY <1>1
  <2>2. k + 1 \in Int /\ Len(old) \in Int
    BY <1>1
  <2>3. /\ back \in Seq(S)
        /\ Len(back) = IF k + 1 <= Len(old) THEN Len(old) - (k + 1) + 1 ELSE 0
        /\ \A j \in 1..Len(old) - (k + 1) + 1 : back[j] = old[(k + 1) + j - 1]
    BY <2>1, <2>2, SubSeqProperties
  <2>4. Len(back) = Len(old) - k
    BY <1>1, <2>3
  <2>5. ASSUME NEW j \in 1..Len(old) - k PROVE back[j] = old[j + k]
    <3>1. j \in 1..Len(old) - (k + 1) + 1 /\ (k + 1) + j - 1 = j + k
      BY <1>1
    <3> QED
      BY <2>3, <3>1
  <2> QED
    BY <2>3, <2>4, <2>5
<1> HIDE DEF front, back, m
<1> DEFINE rest == Without(old, k)
<1>4. rest = front \o back
  BY DEF Without, front, back
<1>5. /\ rest \in Seq(S) /\ Len(rest) = Len(front) + Len(back)
      /\ \A j \in 1..Len(rest) : rest[j] = IF j <= Len(front) THEN front[j] ELSE back[j - Len(front)]
  <2>1. front \in Seq(S) /\ back \in Seq(S)
    BY <1>2, <1>3
  <2>2. /\ front \o back \in Seq(S) /\ Len(front \o back) = Len(front) + Len(back)
        /\ \A j \in 1..Len(front) + Len(back) :
             (front \o back)[j] = IF j <= Len(front) THEN front[j] ELSE back[j - Len(front)]
    BY <2>1, ConcatProperties
  <2> HIDE DEF rest
  <2> QED
    BY <1>4, <2>2
<1> HIDE DEF rest
<1>6. Len(rest) = m
  BY <1>1, <1>2, <1>3, <1>5
<1>7. ASSUME NEW j \in 1..m PROVE rest[j] = old[f[j]]
  <2>1. CASE j < k
    <3>1. j \in 1..k - 1 /\ j <= Len(front) /\ j \in 1..Len(rest) /\ f[j] = j
      BY <1>1, <1>2, <1>6, <2>1
    <3> QED
      BY <1>2, <1>5, <3>1
  <2>2. CASE ~(j < k)
    <3> DEFINE i == j - Len(front)
    <3>1. i \in 1..Len(old) - k /\ i + k = j + 1 /\ ~(j <= Len(front)) /\ j \in 1..Len(rest)
      BY <1>1, <1>2, <1>6, <2>2
    <3>2. f[j] = j + 1
      BY <2>2
    <3>3. rest[j] = back[i]
      BY <1>5, <3>1
    <3> HIDE DEF i
    <3> QED
      BY <1>3, <3>1, <3>2, <3>3
  <2> QED
    BY <2>1, <2>2
<1>8. Len(new) = m + 1 /\ new[m + 1] = old[k] /\ \A j \in 1..m : new[j] = rest[j]
  <2>1. new = Append(rest, old[k])
    BY DEF rest
  <2> HIDE DEF new
  <2> QED
    BY <1>1, <1>5, <1>6, <2>1, AppendProperties
<1>9. f \in [1..m -> 1..Len(old)]
  <2>1. \A j \in 1..m : j \in 1..Len(old) /\ j + 1 \in 1..Len(old)
    BY <1>1
  <2> QED
    BY <2>1
<1>10. \A i, j \in 1..m : i < j => f[i] < f[j]
  BY <1>1
<1>11. \A j \in 1..m : f[j] # k
  BY <1>1
<1>12. ASSUME NEW i \in 1..Len(old), i # k PROVE \E j \in 1..m : f[j] = i
  <2>1. CASE i < k
    <3>1. i \in 1..m /\ f[i] = i
      BY <1>1, <2>1
    <3> QED
      BY <3>1
  <2>2. CASE i > k
    <3>1. i - 1 \in 1..m /\ ~(i - 1 < k) /\ (i - 1) + 1 = i
      BY <1>1, <2>2
    <3> QED
      BY <3>1
  <2> QED
    BY <1>1, <1>12, <2>1, <2>2
<1> HIDE DEF f
<1>13. Keeps(old, new, f, m)
  BY <1>1, <1>7, <1>8, <1>9, <1>10 DEF Keeps
<1> QED
  BY <1>1, <1>8, <1>9, <1>11, <1>12, <1>13 DEF AfterHit

\* The cache after a choice: the row's entry with the server chosen comes last, and with room
\* for the chunk every other entry of this batch stays.
Chosen(r, new, s, f, m) ==
  LET w == WorkerOf(r)
      old == request_id_to_server[w]
  IN  /\ Keeps(old, new, f, m)
      /\ new[m + 1] = <<batch, r, s>>
      /\ m + 1 <= config.cache
      /\ \A j \in 1..m : f[j] \notin Entries(r)
      /\ \A k \in Entries(r) : old[k][3] = s
      /\ config.cache >= Chunk =>
           \A k \in 1..Len(old) : Current(w, k) /\ k \notin Entries(r) => \E j \in 1..m : f[j] = k
      /\ request_id_to_server' = [request_id_to_server EXCEPT ![w] = new]
      /\ visited' = [visited EXCEPT ![r] = @ \cup {s}]

LEMMA ChooseKeeps ==
  ASSUME IInv, CacheInv, NEW r \in Rows, _choose_server(r)
  PROVE  \E new \in Seq((1..batch) \X Rows \X Servers), s \in Servers :
           \E m \in 0..Len(request_id_to_server[WorkerOf(r)]) :
             \E f \in [1..m -> 1..Len(request_id_to_server[WorkerOf(r)])] : Chosen(r, new, s, f, m)
<1> DEFINE w == WorkerOf(r)
           cache == request_id_to_server[w]
           E == (1..batch) \X Rows \X Servers
<1>1. config \in Configs /\ w \in Workers /\ TypeOK
  BY WorkerOfType DEF IInv, TypeInv
<1>2. cache \in Seq(E) /\ config.cache \in Nat \ {0} /\ batch \in 1..batch
      /\ Len(cache) <= config.cache /\ server \in [Rows -> Servers]
  BY <1>1, ConfigFields DEF TypeOK, CacheInv
<1>3. visited' = [visited EXCEPT ![r] = @ \cup {server'[r]}]
  BY DEF _choose_server
<1>4. ASSUME NEW k \in Entries(r),
             server' = [server EXCEPT ![r] = cache[k][3]],
             request_id_to_server' = [request_id_to_server EXCEPT
                                        ![w] = Append(Without(cache, k), cache[k])]
      PROVE  \E new \in Seq(E), s \in Servers :
               \E m \in 0..Len(cache) : \E f \in [1..m -> 1..Len(cache)] : Chosen(r, new, s, f, m)
  <2> DEFINE new == Append(Without(cache, k), cache[k])
             s == cache[k][3]
  <2>1. k \in DOMAIN cache /\ cache[k] \in E /\ cache[k][1] = batch /\ cache[k][2] = r
    BY <1>2 DEF Entries
  <2>2. cache[k] = <<batch, r, s>> /\ s \in Servers /\ server'[r] = s
    <3>1. cache[k] = <<cache[k][1], cache[k][2], cache[k][3]>> /\ s \in Servers
      BY <2>1
    <3>2. server'[r] = s
      BY <1>2, <1>4
    <3> QED
      BY <2>1, <3>1, <3>2
  <2>3. \A i \in Entries(r) : i = k
    BY <1>1 DEF Entries, CacheInv, Current, RowAt
  <2>4. new \in Seq(E)
    <3>1. Without(cache, k) \in Seq(E)
      BY <1>2, <2>1, CacheTypes
    <3> HIDE DEF E, cache
    <3> QED
      BY <2>1, <3>1
  <2>5. PICK m \in 0..Len(cache) : \E f \in [1..m -> 1..Len(cache)] :
           /\ Keeps(cache, new, f, m)
           /\ new[m + 1] = cache[k]
           /\ m + 1 = Len(cache)
           /\ \A j \in 1..m : f[j] # k
           /\ \A i \in 1..Len(cache) : i = k \/ \E j \in 1..m : f[j] = i
    <3> HIDE DEF E, cache
    <3>1. AfterHit(cache, k)
      BY <1>2, <2>1, HitKeeps
    <3> QED
      BY <3>1 DEF AfterHit
  <2>6. PICK f \in [1..m -> 1..Len(cache)] :
           /\ Keeps(cache, new, f, m)
           /\ new[m + 1] = cache[k]
           /\ m + 1 = Len(cache)
           /\ \A j \in 1..m : f[j] # k
           /\ \A i \in 1..Len(cache) : i = k \/ \E j \in 1..m : f[j] = i
    BY <2>5
  <2>7. \A i \in Entries(r) : cache[i][3] = s
    BY <2>3
  <2>8. \A j \in 1..m : f[j] \notin Entries(r)
    BY <2>3, <2>6
  <2>9. \A i \in 1..Len(cache) : i \notin Entries(r) => \E j \in 1..m : f[j] = i
    BY <2>6
  <2>10. request_id_to_server' = [request_id_to_server EXCEPT ![w] = new]
         /\ visited' = [visited EXCEPT ![r] = @ \cup {s}]
         /\ new[m + 1] = <<batch, r, s>> /\ m + 1 <= config.cache
    BY <1>2, <1>3, <1>4, <2>2, <2>6
  <2>11. Chosen(r, new, s, f, m)
    <3> HIDE DEF new, s
    <3> QED
      BY <2>6, <2>7, <2>8, <2>9, <2>10 DEF Chosen
  <2> QED
    BY <2>2, <2>4, <2>11
<1>5. ASSUME NEW s \in Servers, Entries(r) = {},
             server' = [server EXCEPT ![r] = s],
             request_id_to_server' = [request_id_to_server EXCEPT
                                        ![w] = Append(MakesRoom(cache), <<batch, r, s>>)]
      PROVE  \E new \in Seq(E) :
               \E m \in 0..Len(cache) : \E f \in [1..m -> 1..Len(cache)] : Chosen(r, new, s, f, m)
  <2> DEFINE x == <<batch, r, s>>
             new == Append(MakesRoom(cache), x)
  <2>1. x \in E /\ server'[r] = s
    BY <1>2, <1>5
  <2>2. new \in Seq(E)
    <3>1. MakesRoom(cache) \in Seq(E)
      BY <1>2, CacheTypes
    <3> HIDE DEF E, cache, x
    <3> QED
      BY <2>1, <3>1
  <2>3. PICK m \in 0..Len(cache) : \E f \in [1..m -> 1..Len(cache)] :
           /\ Keeps(cache, new, f, m)
           /\ new[m + 1] = x
           /\ m + 1 <= config.cache
           /\ \A k \in 1..Len(cache) :
                (k = 1 /\ Len(cache) = config.cache) \/ \E j \in 1..m : f[j] = k
    <3> HIDE DEF E, cache, x
    <3>1. AfterMiss(cache, x)
      BY <1>2, <2>1, MissKeeps
    <3> QED
      BY <3>1 DEF AfterMiss
  <2>4. PICK f \in [1..m -> 1..Len(cache)] :
           /\ Keeps(cache, new, f, m)
           /\ new[m + 1] = x
           /\ m + 1 <= config.cache
           /\ \A k \in 1..Len(cache) :
                (k = 1 /\ Len(cache) = config.cache) \/ \E j \in 1..m : f[j] = k
    BY <2>3
  <2>5. config.cache >= Chunk =>
          \A k \in 1..Len(cache) : Current(w, k) => \E j \in 1..m : f[j] = k
    BY <1>5, <2>4, Evicted
  <2>6. request_id_to_server' = [request_id_to_server EXCEPT ![w] = new]
        /\ visited' = [visited EXCEPT ![r] = @ \cup {s}]
    BY <1>3, <1>5, <2>1
  <2>7. Chosen(r, new, s, f, m)
    <3> HIDE DEF new
    <3> QED
      BY <1>5, <2>4, <2>5, <2>6 DEF Chosen
  <2> QED
    BY <2>2, <2>7
<1> QED
  BY <1>4, <1>5 DEF _choose_server

-----------------------------------------------------------------------------
(* The steps *)

\* The entries of the new cache and what they were in the old one.
Renewed(w, r, new, f, m) ==
  /\ request_id_to_server'[w] = new /\ DOMAIN new = 1..m + 1 /\ m \in Nat
  /\ \A v \in Workers : v # w => request_id_to_server'[v] = request_id_to_server[v]
  /\ Current(w, m + 1)' /\ RowAt(w, m + 1)' = r
  /\ \A j \in 1..m : /\ f[j] \in DOMAIN request_id_to_server[w]
                     /\ Current(w, j)' <=> Current(w, f[j])
                     /\ RowAt(w, j)' = RowAt(w, f[j])
  /\ \A j \in 1..m : Current(w, f[j]) => RowAt(w, f[j]) # r

LEMMA NewCache ==
  ASSUME IInv, CacheInv, NEW r \in Rows, batch' = batch,
         NEW w \in Workers, w = WorkerOf(r),
         NEW new \in Seq((1..batch) \X Rows \X Servers), NEW s \in Servers,
         NEW m \in 0..Len(request_id_to_server[w]),
         NEW f \in [1..m -> 1..Len(request_id_to_server[w])],
         Chosen(r, new, s, f, m)
  PROVE  Renewed(w, r, new, f, m)
<1> DEFINE old == request_id_to_server[w]
<1>1. config \in Configs /\ TypeOK
  BY DEF IInv, TypeInv
<1>2. old \in Seq((1..batch) \X Rows \X Servers) /\ DOMAIN old = 1..Len(old) /\ Len(old) \in Nat
  BY <1>1 DEF TypeOK
<1>3. request_id_to_server' = [request_id_to_server EXCEPT ![w] = new]
  BY DEF Chosen
<1>4. /\ request_id_to_server'[w] = new
      /\ \A v \in Workers : v # w => request_id_to_server'[v] = request_id_to_server[v]
  BY <1>1, <1>3 DEF TypeOK
<1>5. m \in Nat /\ Len(new) = m + 1 /\ DOMAIN new = 1..m + 1
  <2>1. Len(new) = m + 1
    BY DEF Chosen, Keeps
  <2> QED
    BY <1>2, <2>1
<1>6. Current(w, m + 1)' /\ RowAt(w, m + 1)' = r
  <2>1. new[m + 1] = <<batch, r, s>>
    BY DEF Chosen
  <2> QED
    BY <1>4, <2>1 DEF Current, RowAt
<1>7. ASSUME NEW j \in 1..m
      PROVE  /\ f[j] \in DOMAIN old /\ (Current(w, j)' <=> Current(w, f[j]))
             /\ RowAt(w, j)' = RowAt(w, f[j])
  <2>1. new[j] = old[f[j]]
    BY DEF Chosen, Keeps
  <2>2. f[j] \in 1..Len(old)
    OBVIOUS
  <2> QED
    BY <1>2, <1>4, <2>1, <2>2 DEF Current, RowAt
<1>8. ASSUME NEW j \in 1..m, Current(w, f[j]) PROVE RowAt(w, f[j]) # r
  <2>1. f[j] \notin Entries(r)
    BY DEF Chosen
  <2> QED
    BY <1>7, <1>8, <2>1 DEF Entries, Current, RowAt
<1> QED
  BY <1>4, <1>5, <1>6, <1>7, <1>8 DEF Renewed

LEMMA GenerateCacheInv ==
  ASSUME IInv, CacheInv, NEW r \in Rows, Generate(r) PROVE CacheInv'
<1>1. config' = config /\ batch' = batch /\ config \in Configs /\ WorkerOf(r) \in Workers
  BY WorkerOfType DEF IInv, TypeInv, Generate, managerVars
<1> PICK w \in Workers : w = WorkerOf(r)
  BY <1>1
<1>2. PICK new \in Seq((1..batch) \X Rows \X Servers), s \in Servers :
        \E m \in 0..Len(request_id_to_server[w]) :
          \E f \in [1..m -> 1..Len(request_id_to_server[w])] : Chosen(r, new, s, f, m)
  BY ChooseKeeps DEF Generate
<1>0. PICK m \in 0..Len(request_id_to_server[w]) :
        \E f \in [1..m -> 1..Len(request_id_to_server[w])] : Chosen(r, new, s, f, m)
  BY <1>2
<1>3. PICK f \in [1..m -> 1..Len(request_id_to_server[w])] : Chosen(r, new, s, f, m)
  BY <1>0
<1>4. /\ request_id_to_server'[w] = new /\ DOMAIN new = 1..m + 1 /\ m \in Nat
      /\ \A v \in Workers : v # w => request_id_to_server'[v] = request_id_to_server[v]
      /\ Current(w, m + 1)' /\ RowAt(w, m + 1)' = r
      /\ \A j \in 1..m : /\ f[j] \in DOMAIN request_id_to_server[w]
                         /\ Current(w, j)' <=> Current(w, f[j])
                         /\ RowAt(w, j)' = RowAt(w, f[j])
      /\ \A j \in 1..m : Current(w, f[j]) => RowAt(w, f[j]) # r
  <2>1. Renewed(w, r, new, f, m)
    BY <1>1, <1>3, NewCache
  <2> QED
    BY <2>1 DEF Renewed
<1>5. /\ Len(new) <= config.cache
      /\ \A i, j \in 1..m : i < j => f[i] < f[j]
  BY <1>3 DEF Chosen, Keeps
<1> SUFFICES ASSUME NEW v \in Workers
             PROVE  /\ Len(request_id_to_server'[v]) <= config.cache
                    /\ \A j, k \in DOMAIN request_id_to_server'[v] :
                         Current(v, j)' /\ j < k => Current(v, k)'
                    /\ \A j, k \in DOMAIN request_id_to_server'[v] :
                         Current(v, j)' /\ Current(v, k)' /\ RowAt(v, j)' = RowAt(v, k)' => j = k
                    /\ \A k \in DOMAIN request_id_to_server'[v] :
                         Current(v, k)' => WorkerOf(RowAt(v, k)') = v
  BY <1>1 DEF CacheInv, Workers, WorkerOf
<1>6. CASE v # w
  BY <1>1, <1>4, <1>6 DEF CacheInv, Current, RowAt
<1>7. CASE v = w
  <2>1. ASSUME NEW j \in 1..m + 1, NEW k \in 1..m + 1, Current(w, j)', j < k
        PROVE  Current(w, k)'
    <3>1. CASE k = m + 1
      BY <1>4, <3>1
    <3>2. CASE k # m + 1
      <4>1. j \in 1..m /\ k \in 1..m
        BY <1>4, <2>1, <3>2
      <4>2. f[j] < f[k] /\ Current(w, f[j])
        BY <1>4, <1>5, <2>1, <4>1
      <4>3. Current(w, f[k])
        BY <1>1, <1>4, <4>1, <4>2 DEF CacheInv
      <4> QED
        BY <1>4, <4>1, <4>3
    <3> QED
      BY <3>1, <3>2
  <2>2. ASSUME NEW j \in 1..m + 1, NEW k \in 1..m + 1, Current(w, j)', Current(w, k)',
               RowAt(w, j)' = RowAt(w, k)'
        PROVE  j = k
    <3>1. CASE j \in 1..m /\ k \in 1..m
      <4>1. f[j] = f[k]
        BY <1>1, <1>4, <2>2, <3>1 DEF CacheInv
      <4>2. ~(j < k) /\ ~(k < j)
        <5>1. f[j] \in Int /\ f[k] \in Int
          BY <3>1
        <5> QED
          BY <1>5, <3>1, <4>1, <5>1
      <4> QED
        BY <3>1, <4>2
    <3>2. CASE j \in 1..m /\ k = m + 1
      BY <1>4, <2>2, <3>2
    <3>3. CASE j = m + 1 /\ k \in 1..m
      BY <1>4, <2>2, <3>3
    <3> QED
      BY <1>4, <3>1, <3>2, <3>3
  <2>3. ASSUME NEW k \in 1..m + 1, Current(w, k)' PROVE WorkerOf(RowAt(w, k)') = w
    <3>1. CASE k \in 1..m
      BY <1>1, <1>4, <2>3, <3>1 DEF CacheInv
    <3>2. CASE k = m + 1
      BY <1>4, <3>2
    <3> QED
      BY <1>4, <3>1, <3>2
  <2> QED
    BY <1>4, <1>5, <1>7, <2>1, <2>2, <2>3
<1> QED
  BY <1>6, <1>7

LEMMA GenerateStickyInv ==
  ASSUME IInv, CacheInv, StickyInv, NEW r \in Rows, Generate(r) PROVE StickyInv'
<1>1. /\ config' = config /\ batch' = batch /\ manager' = manager /\ manager = "serve"
      /\ config \in Configs /\ WorkerOf(r) \in Workers /\ TypeOK
  BY WorkerOfType DEF IInv, TypeInv, Generate, managerVars
<1> PICK w \in Workers : w = WorkerOf(r)
  BY <1>1
<1>2. PICK new \in Seq((1..batch) \X Rows \X Servers), s \in Servers :
        \E m \in 0..Len(request_id_to_server[w]) :
          \E f \in [1..m -> 1..Len(request_id_to_server[w])] : Chosen(r, new, s, f, m)
  BY ChooseKeeps DEF Generate
<1>3. PICK m \in 0..Len(request_id_to_server[w]) :
        \E f \in [1..m -> 1..Len(request_id_to_server[w])] : Chosen(r, new, s, f, m)
  BY <1>2
<1>4. PICK f \in [1..m -> 1..Len(request_id_to_server[w])] : Chosen(r, new, s, f, m)
  BY <1>3
<1>5. Renewed(w, r, new, f, m)
  BY <1>1, <1>4, NewCache
<1>6. visited' = [visited EXCEPT ![r] = @ \cup {s}] /\ visited \in [Rows -> SUBSET Servers]
  BY <1>1, <1>4 DEF Chosen, TypeOK
<1> SUFFICES ASSUME config.cache >= Chunk
             PROVE  /\ \A q \in Rows : \A a, b \in visited'[q] : a = b
                    /\ \A q \in Rows : \A a \in visited'[q] :
                         \E k \in Entries(q)' : request_id_to_server'[WorkerOf(q)][k][3] = a
  BY <1>1 DEF StickyInv, Chunk, Rows, WorkerOf
<1>7. ASSUME NEW a \in visited[r] PROVE a = s
  <2>1. config.cache >= Chunk /\ WorkerOf(r) = w
    OBVIOUS
  <2>a. manager = "serve"
    BY <1>1
  <2>b. \A q \in Rows : \A b \in visited[q] :
          \E k \in Entries(q) : request_id_to_server[WorkerOf(q)][k][3] = b
    BY ONLY StickyInv, <2>1, <2>a DEF StickyInv
  <2>c. \E k \in Entries(r) : request_id_to_server[WorkerOf(r)][k][3] = a
    BY <2>b
  <2>2. \E k \in Entries(r) : request_id_to_server[w][k][3] = a
    BY <2>1, <2>c
  <2>3. \A k \in Entries(r) : request_id_to_server[w][k][3] = s
    BY <1>4, <2>1 DEF Chosen
  <2> QED
    BY <2>2, <2>3
<1>8. \A a \in visited'[r] : a = s
  BY <1>6, <1>7
<1>9. m + 1 \in Entries(r)' /\ request_id_to_server'[w][m + 1][3] = s
  <2>1. request_id_to_server'[w] = new /\ m + 1 \in DOMAIN new
    BY <1>5 DEF Renewed
  <2>2. new[m + 1] = <<batch, r, s>>
    BY <1>4 DEF Chosen
  <2>3. WorkerOf(r)' = w
    BY <1>1 DEF WorkerOf
  <2> QED
    BY <1>1, <2>1, <2>2, <2>3 DEF Entries
<1>10. ASSUME NEW q \in Rows, q # r, NEW a \in visited[q]
       PROVE  \E k \in Entries(q)' : request_id_to_server'[WorkerOf(q)][k][3] = a
  <2>0. WorkerOf(q)' = WorkerOf(q) /\ WorkerOf(q) \in Workers
    BY <1>1, WorkerOfType DEF WorkerOf
  <2>1. PICK k \in Entries(q) : request_id_to_server[WorkerOf(q)][k][3] = a
    BY <1>1 DEF StickyInv
  <2>2. CASE WorkerOf(q) # w
    <3>1. request_id_to_server'[WorkerOf(q)] = request_id_to_server[WorkerOf(q)]
      BY <1>5, <2>0, <2>2 DEF Renewed
    <3> QED
      BY <1>1, <2>0, <2>1, <3>1 DEF Entries
  <2>3. CASE WorkerOf(q) = w
    <3>1. /\ k \in DOMAIN request_id_to_server[w] /\ Current(w, k) /\ RowAt(w, k) = q
      BY <2>1, <2>3 DEF Entries, Current, RowAt
    <3>2. k \notin Entries(r) /\ k \in 1..Len(request_id_to_server[w])
      <4>1. k \notin Entries(r)
        BY <1>10, <3>1 DEF Entries, RowAt
      <4>2. request_id_to_server[w] \in Seq((1..batch) \X Rows \X Servers)
        BY <1>1 DEF TypeOK
      <4> QED
        BY <3>1, <4>1, <4>2
    <3>3. PICK j \in 1..m : f[j] = k
      BY <1>4, <3>1, <3>2 DEF Chosen
    <3>4. new[j] = request_id_to_server[w][k]
      BY <1>4, <3>3 DEF Chosen, Keeps
    <3>5. request_id_to_server'[w] = new /\ j \in DOMAIN new
      BY <1>5 DEF Renewed
    <3>6. j \in Entries(q)'
      BY <1>1, <2>0, <2>3, <3>1, <3>4, <3>5 DEF Entries, Current, RowAt
    <3> QED
      BY <2>1, <2>3, <3>4, <3>5, <3>6
  <2> QED
    BY <2>2, <2>3
<1>11. \A q \in Rows : q # r => visited'[q] = visited[q]
  BY <1>6
<1>12. \A q \in Rows : \A a, b \in visited'[q] : a = b
  BY <1>8, <1>11 DEF StickyInv
<1>13. \A q \in Rows : \A a \in visited'[q] :
         \E k \in Entries(q)' : request_id_to_server'[WorkerOf(q)][k][3] = a
  BY <1>8, <1>9, <1>10, <1>11
<1> QED
  BY <1>12, <1>13

\* The least used server is taken.
LEMMA GenerateSpreadInv ==
  ASSUME IInv, SpreadInv, NEW r \in Rows, Generate(r) PROVE SpreadInv'
<1>1. /\ config' = config /\ config \in Configs /\ WorkerOf(r) \in Workers
      /\ counts \in [Workers -> [Servers -> Nat]]
  BY WorkerOfType DEF IInv, TypeInv, TypeOK, Generate
<1> PICK w \in Workers : w = WorkerOf(r)
  BY <1>1
<1>2. CASE UNCHANGED counts
  BY <1>1, <1>2 DEF SpreadInv, Workers
<1>3. CASE \E s \in Servers : Least(w, s) /\ counts' = [counts EXCEPT ![w][s] = @ + 1]
  <2>1. PICK s \in Servers : Least(w, s) /\ counts' = [counts EXCEPT ![w][s] = @ + 1]
    BY <1>3
  <2>2. \A v \in Workers : \A q \in Servers :
          counts'[v][q] = IF v = w /\ q = s THEN counts[v][q] + 1 ELSE counts[v][q]
    BY <1>1, <2>1
  <2>3. \A q \in Servers : counts[w][s] <= counts[w][q]
    BY <1>1, <2>1 DEF Least
  <2>4. ASSUME NEW v \in Workers, NEW p \in Servers, NEW q \in Servers
        PROVE  counts'[v][p] <= counts'[v][q] + 1
    <3>1. counts[v][p] \in Nat /\ counts[v][q] \in Nat /\ counts[v][p] <= counts[v][q] + 1
      BY <1>1 DEF SpreadInv
    <3>2. v = w /\ p = s => counts[v][p] <= counts[v][q]
      BY <2>3
    <3>3. /\ counts'[v][p] = IF v = w /\ p = s THEN counts[v][p] + 1 ELSE counts[v][p]
          /\ counts'[v][q] = IF v = w /\ q = s THEN counts[v][q] + 1 ELSE counts[v][q]
      BY <2>2
    <3> QED
      BY <3>1, <3>2, <3>3
  <2> QED
    BY <1>1, <2>4 DEF SpreadInv, Workers
<1> QED
  BY <1>2, <1>3 DEF Generate, _choose_server

\* With the next batch, no entry is of the current one; a new start forgets where the rows
\* of the last one were.
LEMMA ManagerCache ==
  ASSUME IInv, CacheIInv, StartRows \/ Return PROVE CacheIInv'
<1>1. config' = config /\ UNCHANGED <<counts, request_id_to_server>> /\ TypeOK
      /\ config \in Configs
  BY DEF IInv, TypeInv, StartRows, Return, chooseVars
<1>2. SpreadInv'
  BY <1>1 DEF CacheIInv, SpreadInv, Workers
<1>3. CASE StartRows
  <2>1. CacheInv'
    BY <1>1, <1>3 DEF CacheIInv, CacheInv, StartRows, Current, RowAt, Workers, WorkerOf
  <2>2. \A q \in Rows : visited'[q] = {}
    BY <1>3 DEF StartRows
  <2>3. StickyInv'
    BY <1>1, <2>2 DEF StickyInv, Rows
  <2> QED
    BY <1>2, <2>1, <2>3 DEF CacheIInv
<1>4. CASE Return /\ batch' = batch
  <2>1. CacheInv'
    BY <1>1, <1>4 DEF CacheIInv, CacheInv, Current, RowAt, Workers, WorkerOf
  <2>2. StickyInv'
    BY <1>1, <1>4 DEF CacheIInv, StickyInv, Return, chooseVars, Rows, Chunk
  <2> QED
    BY <1>2, <2>1, <2>2 DEF CacheIInv
<1>5. CASE Return /\ batch' = batch + 1
  <2>1. ASSUME NEW w \in Workers, NEW k \in DOMAIN request_id_to_server[w] PROVE ~Current(w, k)'
    <3>1. request_id_to_server[w][k] \in (1..batch) \X Rows \X Servers
      BY <1>1 DEF TypeOK
    <3>2. request_id_to_server[w][k][1] \in 1..batch /\ batch \in Nat
      <4>1. config.batches \in Nat
        BY <1>1, ConfigFields
      <4> QED
        BY <1>1, <3>1, <4>1 DEF TypeOK
    <3> QED
      BY <1>1, <1>5, <3>2 DEF Current
  <2>2. CacheInv'
    BY <1>1, <2>1 DEF CacheIInv, CacheInv, Workers
  <2>3. manager' # "serve"
    BY <1>5 DEF Return
  <2>4. StickyInv'
    BY <1>1, <1>5, <2>3 DEF CacheIInv, StickyInv, Return, chooseVars, Rows, Chunk
  <2> QED
    BY <1>2, <2>2, <2>4 DEF CacheIInv
<1> QED
  BY <1>3, <1>4, <1>5 DEF Return

\* No other step touches the caches.
LEMMA OtherSteps ==
  ASSUME CacheIInv, UNCHANGED <<config, batch, chooseVars>>, manager' = "serve" => manager = "serve"
  PROVE  CacheIInv'
<1>1. CacheInv'
  BY DEF CacheIInv, CacheInv, chooseVars, Current, RowAt, Workers, WorkerOf
<1>2. StickyInv'
  BY DEF CacheIInv, StickyInv, chooseVars, Rows, Chunk, Entries, WorkerOf
<1>3. SpreadInv'
  BY DEF CacheIInv, SpreadInv, chooseVars, Workers
<1> QED
  BY <1>1, <1>2, <1>3 DEF CacheIInv

LEMMA CacheStep == IInv /\ CacheIInv /\ [Next]_vars => CacheIInv'
<1> SUFFICES ASSUME IInv, CacheIInv, [Next]_vars PROVE CacheIInv'
  OBVIOUS
<1>1. CASE StartRows \/ Return
  BY <1>1, ManagerCache
<1>2. CASE \/ \E s \in Servers : WakeUp(s) \/ Sleep(s)
           \/ \E w \in Workers : PostprocessRaises(w)
           \/ Gather \/ TimePasses \/ UNCHANGED vars
  BY <1>2, OtherSteps DEF WakeUp, Sleep, PostprocessRaises, Gather, TimePasses, vars, managerVars
<1>3. ASSUME NEW r \in Rows, Row(r) PROVE CacheIInv'
  <2>1. CASE Generate(r)
    BY <2>1, GenerateCacheInv, GenerateStickyInv, GenerateSpreadInv DEF CacheIInv
  <2>2. CASE ServerAnswers(r) \/ ServerRaises(r) \/ ProcessTools(r) \/ HandlerRaises(r) \/ Interact(r)
    BY <2>2, OtherSteps DEF ServerAnswers, ServerRaises, ProcessTools, HandlerRaises, Interact, managerVars
  <2>3. CASE ComputeScore(r) \/ ScoreArrives(r) \/ Limiter(r)
    BY <2>3, OtherSteps DEF ComputeScore, ScoreArrives, Limiter, managerVars
  <2> QED
    BY <1>3, <2>1, <2>2, <2>3 DEF Row
<1> QED
  BY <1>1, <1>2, <1>3 DEF Next

-----------------------------------------------------------------------------
(* The theorem *)

LEMMA InitCache == Init => CacheIInv
<1> SUFFICES ASSUME Init PROVE CacheIInv
  OBVIOUS
<1>1. config \in Configs /\ config.cache \in Nat \ {0}
  BY ConfigFields DEF Init
<1>2. \A w \in Workers : request_id_to_server[w] = <<>>
  BY DEF Init
<1>3. CacheInv
  BY <1>1, <1>2 DEF CacheInv
<1>4. StickyInv
  BY DEF Init, StickyInv
<1>5. SpreadInv
  BY DEF Init, SpreadInv
<1> QED
  BY <1>3, <1>4, <1>5 DEF CacheIInv

\* A conversation stays on its server while the cache has room for the worker's rows, and
\* the servers of a worker are used evenly.
THEOREM StickyAndSpreadHolds == Spec => []StickyAndSpread
<1>1. IInv /\ CacheIInv => StickyAndSpread
  <2> SUFFICES ASSUME IInv, CacheIInv PROVE StickyAndSpread
    OBVIOUS
  <2>1. ASSUME config.cache >= config.rows \div config.workers, NEW r \in Rows
        PROVE  Cardinality(visited[r]) <= 1
    <3>1. \A s, q \in visited[r] : s = q
      BY <2>1 DEF CacheIInv, StickyInv, Chunk
    <3>2. CASE visited[r] = {}
      BY <3>2, FS_EmptySet
    <3>3. CASE visited[r] # {}
      <4>1. PICK s : visited[r] = {s}
        BY <3>1, <3>3
      <4>2. Cardinality({s}) = 1
        BY FS_Singleton
      <4> QED
        BY <4>1, <4>2
    <3> QED
      BY <3>2, <3>3
  <2>2. SpreadInv
    BY DEF CacheIInv
  <2> QED
    BY <2>1, <2>2 DEF StickyAndSpread, SpreadInv
<1> QED
  BY <1>1, InitCache, Invariance, CacheStep, PTL DEF Spec

=============================================================================
