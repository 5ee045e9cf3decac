--------------------------- MODULE Serving_proofs ---------------------------
(***************************************************************************)
(* Proofs about serving, for any number of servers, rows, workers, batches *)
(* and buckets: types, that requests only meet replicas that are awake and *)
(* fresh, and that the rate and concurrency limits of the reward loop hold.*)
(***************************************************************************)
EXTENDS Serving, FiniteSetTheorems, SequenceTheorems, TLAPS

-----------------------------------------------------------------------------
(* The inductive invariant *)

\* A conversation that goes on after a turn has room left in its response.
OpenTurns ==
  \A r \in Rows : state[r] \in {"tools", "interacting"} => mask[r] < config.response_length

TypeInv == TypeOK /\ config \in Configs /\ OpenTurns

\* The replicas are woken one by one, and none sleeps before the batch is over.
AwakeInv ==
  /\ manager \in {"serve", "failed"} => \A s \in Servers : awake[s] /\ weights[s] = batch
  /\ manager = "wake_up" => \A s \in Servers : awake[s] => weights[s] = batch

\* run_single of a row is under way while its conversation waits for the score.
Scoring(r) == step[r] \in 1..InCall
PhaseInv ==
  /\ \A r \in Rows : Scoring(r) => state[r] = "scoring"
  /\ manager \in {"wake_up", "sleep", "done"} => \A r \in Rows : state[r] \in {"idle", "done"}

\* Row r has paid bucket b of worker w and sleeps until its share of the debt is paid off.
Waits(w, r, b) == WorkerOf(r) = w /\ step[r] = b /\ paid[r]

\* Only a call that costs more than the bucket holds is paid before it goes through.
PaidInv ==
  \A r \in Rows : paid[r] =>
    step[r] \in Buckets /\ config.buckets[step[r]].cost > config.buckets[step[r]].max

\* What went through and what is left never make more than the bucket's size, or than one
\* call that is larger; a bucket no call is larger than is never in debt.
LevelInv ==
  \A w \in Workers : \A b \in Buckets :
    /\ tokens[w][b] <= config.buckets[b].max
    /\ level[w][b] + tokens[w][b] <= AtLeast(config.buckets[b].max, config.buckets[b].cost)
    /\ level[w][b] <= AtLeast(config.buckets[b].max, config.buckets[b].cost)
    /\ config.buckets[b].cost <= config.buckets[b].max => tokens[w][b] >= 0

\* A sleeping row wakes up before the debt is paid off, and when what went through before
\* it has drained.
DebtInv ==
  \A w \in Workers : \A b \in Buckets : \A r \in Rows : Waits(w, r, b) =>
    sleep[r] <= 0 - tokens[w][b] /\ level[w][b] <= sleep[r]

\* Two rows that sleep on the same debt wake up at least the cost of one call apart.
ApartInv ==
  \A w \in Workers : \A b \in Buckets : \A r, q \in Rows :
    Waits(w, r, b) /\ Waits(w, q, b) /\ r # q =>
      \/ sleep[r] - sleep[q] >= config.buckets[b].cost
      \/ sleep[q] - sleep[r] >= config.buckets[b].cost

RateInv == PaidInv /\ LevelInv /\ DebtInv /\ ApartInv

\* The semaphore's holders are the calls somebody waits for.
ConcInv ==
  \A w \in Workers :
    /\ Cardinality(holders[w]) <= config.concurrent
    /\ \A r \in Rows : r \in holders[w] <=> WorkerOf(r) = w /\ step[r] = InCall
    /\ \A r \in calls[w] : WorkerOf(r) = w /\ (step[r] = InCall \/ ~config.sync => r \in holders[w])

IInv == TypeInv /\ AwakeInv /\ PhaseInv /\ RateInv /\ ConcInv

-----------------------------------------------------------------------------
(* Constants and configurations *)

LEMMA ConfigFields ==
  ASSUME config \in Configs
  PROVE  /\ config \in Configuration
         /\ {config.rows, config.batches, config.workers, config.cache,
             config.response_length, config.concurrent} \subseteq Nat \ {0}
         /\ config.rows % config.workers = 0
         /\ config.free \in Nat
         /\ config.buckets \in Seq(Bucket)
         /\ Len(config.buckets) \in Nat
         /\ Buckets = 1..Len(config.buckets)
         /\ \A b \in Buckets : config.buckets[b].max \in Nat \ {0}
                               /\ config.buckets[b].cost \in Nat \ {0}
<1>1. config \in Configuration /\ config.rows % config.workers = 0
  BY ServingAssumption
<1>2. config.buckets \in Seq(Bucket)
  BY <1>1 DEF Configuration
<1>3. Len(config.buckets) \in Nat /\ Buckets = 1..Len(config.buckets)
  BY <1>2 DEF Buckets
<1>4. \A b \in Buckets : config.buckets[b] \in Bucket
  BY <1>2, <1>3
<1> QED
  BY <1>1, <1>2, <1>3, <1>4 DEF Configuration, Bucket

LEMMA BoundsAreNat == NServers \in Nat \ {0} /\ MaxMessage \in Nat \ {0}
BY ServingAssumption

\* The places of run_single come one after another.
LEMMA Places ==
  ASSUME config \in Configs
  PROVE  /\ {InQueue, InCall, Raised} \subseteq Nat
         /\ InCall = InQueue + 1 /\ Raised = InCall + 3
         /\ \A b \in Buckets : b \in Nat \ {0} /\ b < InQueue
BY ConfigFields DEF InQueue, InCall, Raised

LEMMA Ends ==
  ASSUME config \in Configs, NEW end \in Over
  PROVE  end \in Nat /\ InCall < end /\ end <= Raised
BY ConfigFields DEF InCall, Over, Scored, TimedOut, Raised

\* Every row is in the chunk of a worker.
LEMMA WorkerOfType ==
  ASSUME config \in Configs, NEW r \in Rows
  PROVE  WorkerOf(r) \in Workers
<1> DEFINE n == config.rows  w == config.workers  k == n \div w  q == (r - 1) \div k
<1>1. n \in Nat \ {0} /\ w \in Nat \ {0} /\ n % w = 0 /\ r \in 1..n
  BY ConfigFields DEF Rows
<1> HIDE DEF n, w
<1>2. n = w * k /\ k \in Nat
  BY <1>1
<1>3. k \in Nat \ {0}
  BY <1>1, <1>2
<1>4. q \in Nat /\ k * q <= r - 1
  <2> DEFINE m == r - 1
  <2>1. m \in Nat
    BY <1>1
  <2> HIDE DEF m, k
  <2>2. m \div k \in Nat /\ k * (m \div k) <= m
    BY <2>1, <1>3
  <2> QED
    BY <2>2 DEF m
<1>5. k * q < w * k
  BY <1>1, <1>2, <1>4
<1>6. q < w
  <2> HIDE DEF k, q
  <2>1. ASSUME q >= w PROVE k * q >= w * k
    BY <2>1, <1>1, <1>3, <1>4
  <2> QED
    BY <2>1, <1>1, <1>3, <1>4, <1>5
<1> QED
  BY <1>1, <1>4, <1>6 DEF WorkerOf, Workers, n, w

LEMMA RowsFinite == ASSUME config \in Configs, NEW S \in SUBSET Rows PROVE IsFiniteSet(S)
<1>1. 1 \in Int /\ config.rows \in Int
  BY ConfigFields
<1>2. IsFiniteSet(1..config.rows)
  BY <1>1, FS_Interval
<1>3. IsFiniteSet(Rows)
  BY <1>2 DEF Rows
<1> QED
  BY <1>3, FS_Subset

-----------------------------------------------------------------------------
(* Initial states *)

LEMMA InitIInv == Init => IInv
<1> SUFFICES ASSUME Init PROVE IInv
  OBVIOUS
<1>1. config \in Configs
  BY DEF Init
<1> USE <1>1, ConfigFields, BoundsAreNat, Places DEF Init, LimitInit
<1>2. TypeOK
  <2>1. LimitTypeOK
    <3>1. tokens \in [Workers -> [Buckets -> Int]] /\ level \in [Workers -> [Buckets -> Nat]]
      OBVIOUS
    <3>2. step \in [Rows -> NotCalled..Raised]
      BY DEF NotCalled
    <3>3. sleep \in [Rows -> Nat] /\ paid \in [Rows -> BOOLEAN]
      OBVIOUS
    <3>4. {holders, calls} \subseteq [Workers -> SUBSET Rows]
      OBVIOUS
    <3> QED
      BY <3>1, <3>2, <3>3, <3>4 DEF LimitTypeOK
  <2>2. mask \in [Rows -> 0..config.response_length + AtLeast(config.free, MaxMessage - 1)]
    BY DEF AtLeast
  <2>3. server \in [Rows -> Servers] /\ weights \in [Servers -> 0..batch]
    BY DEF Servers
  <2>4. request_id_to_server \in [Workers -> Seq((1..batch) \X Rows \X Servers)]
    OBVIOUS
  <2> QED
    BY <2>1, <2>2, <2>3, <2>4 DEF TypeOK, States
<1>3. OpenTurns /\ AwakeInv /\ PhaseInv
  BY DEF OpenTurns, AwakeInv, PhaseInv, Scoring, NotCalled
<1>4. RateInv
  <2>1. PaidInv /\ DebtInv /\ ApartInv
    BY DEF PaidInv, DebtInv, ApartInv, Waits
  <2>2. LevelInv
    <3>1. ASSUME NEW w \in Workers, NEW b \in Buckets
          PROVE  /\ tokens[w][b] = config.buckets[b].max /\ level[w][b] = 0
                 /\ config.buckets[b].max \in Nat /\ config.buckets[b].cost \in Nat
      OBVIOUS
    <3>2. ASSUME NEW x \in Nat, NEW y \in Nat PROVE x <= AtLeast(x, y) /\ 0 <= AtLeast(x, y) /\ 0 + x <= AtLeast(x, y)
      BY DEF AtLeast
    <3> QED
      BY ONLY <3>1, <3>2 DEF LevelInv
  <2> QED
    BY <2>1, <2>2 DEF RateInv
<1>5. ConcInv
  <2>1. Cardinality({}) = 0
    BY FS_EmptySet
  <2> QED
    BY <2>1 DEF ConcInv, NotCalled
<1> QED
  BY <1>2, <1>3, <1>4, <1>5 DEF IInv, TypeInv

-----------------------------------------------------------------------------
(* The manager *)

\* Types that only speak of what an action leaves alone.
LEMMA SameLimits == config' = config /\ UNCHANGED limitVars /\ LimitTypeOK => LimitTypeOK'
BY DEF LimitTypeOK, limitVars, timeVars, Workers, Rows, Buckets, Raised

LEMMA SameRate == config' = config /\ UNCHANGED limitVars /\ RateInv => RateInv'
BY DEF RateInv, PaidInv, LevelInv, DebtInv, ApartInv, Waits, WorkerOf, limitVars, timeVars,
       Workers, Rows, Buckets

LEMMA SameConc == config' = config /\ UNCHANGED limitVars /\ ConcInv => ConcInv'
BY DEF ConcInv, WorkerOf, limitVars, timeVars, Workers, Rows, InCall

ManagerSteps ==
  \/ \E s \in Servers : WakeUp(s) \/ Sleep(s)
  \/ \E w \in Workers : PostprocessRaises(w)
  \/ Gather \/ Return

\* WakeUp, the workers' answers, Sleep and Return move the manager and the replicas only.
LEMMA ManagerIInv ==
  IInv /\ ManagerSteps => IInv'
<1> SUFFICES ASSUME IInv, ManagerSteps PROVE IInv'
  OBVIOUS
<1>1. config \in Configs /\ config' = config /\ UNCHANGED <<state, turnVars, chooseVars, limitVars>>
  BY DEF IInv, TypeInv, ManagerSteps, WakeUp, Sleep, PostprocessRaises, Gather, Return
<1> USE <1>1
<1>2. RateInv' /\ ConcInv' /\ LimitTypeOK'
  BY SameRate, SameConc, SameLimits DEF IInv, TypeInv, TypeOK
<1>3. batch' \in 1..config.batches /\ batch' \in Nat /\ batch <= batch'
  BY ConfigFields DEF IInv, TypeInv, TypeOK, ManagerSteps, WakeUp, Sleep, PostprocessRaises, Gather, Return
<1>4. request_id_to_server' \in [Workers -> Seq((1..batch') \X Rows \X Servers)]
  <2>1. \A w \in Workers : request_id_to_server[w] \in Seq((1..batch') \X Rows \X Servers)
    <3> TAKE w \in Workers
    <3>1. request_id_to_server[w] \in Seq((1..batch) \X Rows \X Servers)
      BY DEF IInv, TypeInv, TypeOK
    <3>2. (1..batch) \X Rows \X Servers \subseteq (1..batch') \X Rows \X Servers
      BY <1>3, ConfigFields DEF IInv, TypeInv, TypeOK
    <3> HIDE DEF Rows
    <3> QED
      BY <3>1, <3>2
  <2> QED
    BY <2>1 DEF chooseVars, IInv, TypeInv, TypeOK
<1>5. weights' \in [Servers -> 0..batch'] /\ awake' \in [Servers -> BOOLEAN]
  <2>1. weights \in [Servers -> 0..batch] /\ batch \in Nat /\ awake \in [Servers -> BOOLEAN]
    BY ConfigFields DEF IInv, TypeInv, TypeOK
  <2>2. CASE \E s \in Servers : WakeUp(s)
    BY <1>3, <2>1, <2>2 DEF WakeUp
  <2>3. CASE (\E s \in Servers : Sleep(s)) \/ (\E w \in Workers : PostprocessRaises(w)) \/ Gather
    BY <2>1, <2>3 DEF Sleep, PostprocessRaises, Gather
  <2>4. CASE Return
    BY <1>3, <2>1, <2>4 DEF Return
  <2> QED
    BY <2>2, <2>3, <2>4 DEF ManagerSteps
<1>6. TypeInv'
  BY <1>2, <1>3, <1>4, <1>5 DEF IInv, TypeInv, TypeOK, OpenTurns, ManagerSteps, WakeUp, Sleep,
     PostprocessRaises, Gather, Return,
     turnVars, chooseVars, Rows, Workers
<1>7. AwakeInv'
  BY DEF IInv, TypeInv, TypeOK, AwakeInv, ManagerSteps, WakeUp, Sleep, PostprocessRaises, Gather, Return
<1>8. PhaseInv'
  BY DEF IInv, PhaseInv, Scoring, InCall, Rows, limitVars, ManagerSteps, WakeUp, Sleep, PostprocessRaises, Gather, Return
<1> QED
  BY <1>2, <1>6, <1>7, <1>8 DEF IInv

-----------------------------------------------------------------------------
(* Conversations *)

\* Taking an entry out of a cache, or making room in it.
LEMMA CacheTypes ==
  ASSUME NEW S, NEW cache \in Seq(S)
  PROVE  /\ \A k \in DOMAIN cache : Without(cache, k) \in Seq(S)
         /\ config.cache \in Nat \ {0} => MakesRoom(cache) \in Seq(S)
<1>1. ASSUME NEW k \in DOMAIN cache PROVE Without(cache, k) \in Seq(S)
  <2>1. k \in 1..Len(cache) /\ Len(cache) \in Nat
    OBVIOUS
  <2>2. SubSeq(cache, 1, k - 1) \in Seq(S)
    <3>1. \A i \in 1..(k - 1) : cache[i] \in S
      BY <2>1
    <3> QED
      BY <2>1, <3>1, SubSeqProperties
  <2>3. SubSeq(cache, k + 1, Len(cache)) \in Seq(S)
    <3>1. \A i \in (k + 1)..Len(cache) : cache[i] \in S
      BY <2>1
    <3> QED
      BY <2>1, <3>1, SubSeqProperties
  <2> QED
    BY <2>2, <2>3, ConcatProperties DEF Without
<1>2. ASSUME config.cache \in Nat \ {0} PROVE MakesRoom(cache) \in Seq(S)
  <2>1. CASE Len(cache) = config.cache
    <3>1. cache # <<>>
      BY <1>2, <2>1
    <3> QED
      BY <2>1, <3>1, HeadTailProperties DEF MakesRoom
  <2>2. CASE Len(cache) # config.cache
    BY <2>2 DEF MakesRoom
  <2> QED
    BY <2>1, <2>2
<1> QED
  BY <1>1, <1>2


\* What _choose_server does to its own state.
LEMMA ChooseTypes ==
  ASSUME TypeOK, config \in Configs, NEW r \in Rows, _choose_server(r)
  PROVE  /\ server' \in [Rows -> Servers]
         /\ counts' \in [Workers -> [Servers -> Nat]]
         /\ request_id_to_server' \in [Workers -> Seq((1..batch) \X Rows \X Servers)]
         /\ visited' \in [Rows -> SUBSET Servers]
<1> DEFINE w == WorkerOf(r)
           cache == request_id_to_server[w]
           E == (1..batch) \X Rows \X Servers
<1>0. server' \in [Rows -> Servers] => visited' \in [Rows -> SUBSET Servers]
  <2>1. visited' = [visited EXCEPT ![r] = @ \cup {server'[r]}] /\ visited \in [Rows -> SUBSET Servers]
    BY DEF TypeOK, _choose_server
  <2> QED
    BY <2>1
<1>1. w \in Workers
  BY WorkerOfType
<1>2. cache \in Seq(E) /\ config.cache \in Nat \ {0} /\ batch \in 1..batch
  BY <1>1, ConfigFields DEF TypeOK
<1>3. CASE \E k \in Entries(r) :
             /\ server' = [server EXCEPT ![r] = cache[k][3]]
             /\ request_id_to_server' = [request_id_to_server EXCEPT
                                           ![w] = Append(Without(cache, k), cache[k])]
             /\ UNCHANGED counts
  <2>1. PICK k \in Entries(r) :
             /\ server' = [server EXCEPT ![r] = cache[k][3]]
             /\ request_id_to_server' = [request_id_to_server EXCEPT
                                           ![w] = Append(Without(cache, k), cache[k])]
             /\ UNCHANGED counts
    BY <1>3
  <2>2. k \in DOMAIN cache /\ cache[k] \in E
    BY <1>2 DEF Entries
  <2>3. Without(cache, k) \in Seq(E) /\ cache[k][3] \in Servers
    BY <1>2, <2>2, CacheTypes
  <2>4. Append(Without(cache, k), cache[k]) \in Seq(E)
    <3> HIDE DEF E, cache
    <3> QED
      BY <2>2, <2>3
  <2> HIDE DEF E, cache, w
  <2>5. request_id_to_server \in [Workers -> Seq(E)] /\ counts \in [Workers -> [Servers -> Nat]]
        /\ server \in [Rows -> Servers]
    BY DEF TypeOK, E
  <2>6. server' \in [Rows -> Servers] /\ request_id_to_server' \in [Workers -> Seq(E)]
        /\ counts' \in [Workers -> [Servers -> Nat]]
    BY <2>1, <2>3, <2>4, <2>5
  <2> QED
    BY <1>0, <2>6 DEF E
<1>4. CASE \E s \in Servers :
             /\ server' = [server EXCEPT ![r] = s]
             /\ counts' = [counts EXCEPT ![w][s] = @ + 1]
             /\ request_id_to_server' = [request_id_to_server EXCEPT
                                           ![w] = Append(MakesRoom(cache), <<batch, r, s>>)]
  <2>1. PICK s \in Servers :
             /\ server' = [server EXCEPT ![r] = s]
             /\ counts' = [counts EXCEPT ![w][s] = @ + 1]
             /\ request_id_to_server' = [request_id_to_server EXCEPT
                                           ![w] = Append(MakesRoom(cache), <<batch, r, s>>)]
    BY <1>4
  <2>2. MakesRoom(cache) \in Seq(E) /\ <<batch, r, s>> \in E
    <3>1. MakesRoom(cache) \in Seq(E)
      BY <1>2, CacheTypes
    <3> QED
      BY <1>2, <3>1
  <2>3. Append(MakesRoom(cache), <<batch, r, s>>) \in Seq(E)
    <3> HIDE DEF E, cache
    <3> QED
      BY <2>2
  <2> HIDE DEF E, cache, w
  <2>4. request_id_to_server \in [Workers -> Seq(E)] /\ counts \in [Workers -> [Servers -> Nat]]
        /\ server \in [Rows -> Servers]
    BY DEF TypeOK, E
  <2>5. server' \in [Rows -> Servers] /\ request_id_to_server' \in [Workers -> Seq(E)]
        /\ counts' \in [Workers -> [Servers -> Nat]]
    BY <1>1, <2>1, <2>3, <2>4
  <2> QED
    BY <1>0, <2>5 DEF E
<1> QED
  BY <1>3, <1>4 DEF _choose_server

\* What most actions of a conversation share: the limiter, the manager and the other rows
\* stay as they are.
LEMMA RowLemma ==
  ASSUME IInv, NEW r \in Rows, NEW st \in States,
         config' = config, UNCHANGED <<batch, awake, weights>>, UNCHANGED limitVars,
         manager = "serve", manager' \in {"serve", "failed"},
         state' = [state EXCEPT ![r] = st],
         Scoring(r) => st = "scoring"
  PROVE  RateInv' /\ ConcInv' /\ LimitTypeOK' /\ AwakeInv' /\ PhaseInv'
         /\ state' \in [Rows -> States]
<1>1. config \in Configs /\ TypeOK
  BY DEF IInv, TypeInv
<1>2. RateInv' /\ ConcInv' /\ LimitTypeOK'
  BY SameRate, SameConc, SameLimits DEF IInv, TypeInv, TypeOK
<1>3. AwakeInv'
  BY DEF IInv, AwakeInv
<1>4. state' \in [Rows -> States] /\ state \in [Rows -> States]
  BY <1>1 DEF TypeOK
<1>5. PhaseInv'
  BY <1>4 DEF IInv, PhaseInv, Scoring, InCall, Rows, limitVars
<1> QED
  BY <1>2, <1>3, <1>4, <1>5

LEMMA GenerateIInv == ASSUME IInv, NEW r \in Rows, Generate(r) PROVE IInv'
<1>1. config \in Configs /\ TypeOK /\ config' = config
  BY DEF IInv, TypeInv, Generate
<1>2. RateInv' /\ ConcInv' /\ LimitTypeOK' /\ AwakeInv' /\ PhaseInv' /\ state' \in [Rows -> States]
  <2>1. ~Scoring(r)
    BY DEF IInv, PhaseInv, Generate
  <2>2. "waiting" \in States
    BY DEF States
  <2> QED
    BY <2>1, <2>2, RowLemma DEF Generate, managerVars
<1>3. /\ server' \in [Rows -> Servers]
      /\ counts' \in [Workers -> [Servers -> Nat]]
      /\ request_id_to_server' \in [Workers -> Seq((1..batch) \X Rows \X Servers)]
      /\ visited' \in [Rows -> SUBSET Servers]
  BY <1>1, ChooseTypes DEF Generate
<1>4. TypeOK'
  BY <1>1, <1>2, <1>3 DEF TypeOK, Generate, managerVars, turnVars, Rows, Workers
<1>5. OpenTurns'
  BY <1>1 DEF IInv, TypeInv, TypeOK, OpenTurns, Generate, turnVars, Rows
<1> QED
  BY <1>1, <1>2, <1>4, <1>5 DEF IInv, TypeInv

\* The conversation's own variables: types of turns and masks.
LEMMA TurnLemma ==
  ASSUME IInv, NEW r \in Rows, NEW st \in States,
         NEW len \in 0..config.response_length + AtLeast(config.free, MaxMessage - 1),
         config' = config, UNCHANGED managerVars, UNCHANGED chooseVars, UNCHANGED limitVars,
         manager = "serve", state[r] # "scoring",
         state' = [state EXCEPT ![r] = st], mask' = [mask EXCEPT ![r] = len],
         {assistant_turns', user_turns'} \subseteq [Rows -> Nat],
         st \in {"tools", "interacting"} => len < config.response_length
  PROVE  IInv'
<1>1. config \in Configs /\ TypeOK
  BY DEF IInv, TypeInv
<1>2. RateInv' /\ ConcInv' /\ LimitTypeOK' /\ AwakeInv' /\ PhaseInv' /\ state' \in [Rows -> States]
  <2>1. ~Scoring(r)
    BY DEF IInv, PhaseInv
  <2> QED
    BY <2>1, RowLemma DEF managerVars
<1>3. TypeOK'
  <2>1. mask' \in [Rows -> 0..config.response_length + AtLeast(config.free, MaxMessage - 1)]
    BY <1>1 DEF TypeOK
  <2> QED
    BY <1>1, <1>2, <2>1 DEF TypeOK, managerVars, chooseVars, Rows, Workers
<1>4. OpenTurns'
  BY <1>1 DEF IInv, TypeInv, TypeOK, OpenTurns, Rows
<1> QED
  BY <1>1, <1>2, <1>3, <1>4 DEF IInv, TypeInv

LEMMA AnswersIInv == ASSUME IInv, NEW r \in Rows, ServerAnswers(r) PROVE IInv'
<1>1. config \in Configs /\ TypeOK /\ config' = config
  BY DEF IInv, TypeInv, ServerAnswers
<1>2. /\ mask[r] \in Nat /\ config.response_length \in Nat /\ config.free \in Nat
      /\ assistant_turns \in [Rows -> Nat] /\ user_turns \in [Rows -> Nat]
  BY <1>1, ConfigFields, BoundsAreNat DEF TypeOK, AtLeast
<1>3. PICK t \in (IF MaxTokens(r) = 0 THEN {0} ELSE 1..AtMost(MaxMessage, MaxTokens(r))), tools \in BOOLEAN :
       /\ mask' = [mask EXCEPT ![r] = @ + t]
       /\ assistant_turns' = [assistant_turns EXCEPT ![r] = @ + 1]
       /\ state' = [state EXCEPT ![r] =
            IF Enough(r, mask[r] + t) THEN "terminated" ELSE IF tools THEN "tools"
            ELSE IF config.interactions THEN "interacting" ELSE "terminated"]
  BY DEF ServerAnswers
<1>4. t \in Nat /\ mask[r] + t <= config.response_length + config.free
  BY <1>2, <1>3, BoundsAreNat DEF MaxTokens, AtMost
<1> DEFINE st == IF Enough(r, mask[r] + t) THEN "terminated" ELSE IF tools THEN "tools"
                 ELSE IF config.interactions THEN "interacting" ELSE "terminated"
           len == mask[r] + t
<1>5. st \in States
  BY DEF States
<1>6. st \in {"tools", "interacting"} => len < config.response_length
  BY <1>2, <1>4 DEF Enough
<1>7. len \in 0..config.response_length + AtLeast(config.free, MaxMessage - 1)
  BY <1>2, <1>4, BoundsAreNat DEF AtLeast
<1>8. /\ state' = [state EXCEPT ![r] = st] /\ mask' = [mask EXCEPT ![r] = len]
      /\ {assistant_turns', user_turns'} \subseteq [Rows -> Nat]
  <2>1. state' = [state EXCEPT ![r] = st] /\ mask' = [mask EXCEPT ![r] = len]
    BY <1>3, Zenon
  <2>2. assistant_turns' \in [Rows -> Nat] /\ user_turns' \in [Rows -> Nat]
    BY <1>2, <1>3 DEF ServerAnswers
  <2> QED
    BY <2>1, <2>2
<1> HIDE DEF st, len
<1> QED
  BY <1>1, <1>5, <1>6, <1>7, <1>8, TurnLemma DEF ServerAnswers

LEMMA RaisesIInv == ASSUME IInv, NEW r \in Rows, ServerRaises(r) \/ HandlerRaises(r) PROVE IInv'
<1> USE DEF ServerRaises, HandlerRaises
<1>1. config \in Configs /\ TypeOK /\ config' = config
  BY DEF IInv, TypeInv
<1>2. RateInv' /\ ConcInv' /\ LimitTypeOK'
  BY <1>1, SameRate, SameConc, SameLimits DEF IInv, TypeOK
<1>3. TypeOK' /\ OpenTurns'
  BY <1>1, <1>2 DEF IInv, TypeInv, TypeOK, OpenTurns, turnVars, chooseVars, Rows, Workers
<1>4. AwakeInv' /\ PhaseInv'
  BY DEF IInv, AwakeInv, PhaseInv, Scoring, InCall, Rows, limitVars
<1> QED
  BY <1>1, <1>2, <1>3, <1>4 DEF IInv, TypeInv

LEMMA ToolsIInv == ASSUME IInv, NEW r \in Rows, ProcessTools(r) PROVE IInv'
<1>1. config \in Configs /\ TypeOK /\ config' = config
  BY DEF IInv, TypeInv, ProcessTools
<1>2. /\ mask[r] \in 0..config.response_length + AtLeast(config.free, MaxMessage - 1)
      /\ mask[r] \in Nat /\ config.response_length \in Nat /\ config.free \in Nat
      /\ assistant_turns \in [Rows -> Nat] /\ user_turns \in [Rows -> Nat]
      /\ mask = [mask EXCEPT ![r] = mask[r]]
  <2>1. config.response_length \in Nat /\ config.free \in Nat /\ MaxMessage \in Nat
    BY <1>1, ConfigFields, BoundsAreNat
  <2>2. /\ mask \in [Rows -> 0..config.response_length + AtLeast(config.free, MaxMessage - 1)]
        /\ assistant_turns \in [Rows -> Nat] /\ user_turns \in [Rows -> Nat]
    BY <1>1 DEF TypeOK
  <2> QED
    BY <2>1, <2>2
<1>3. PICK t \in 1..MaxMessage :
       IF mask[r] + t >= config.response_length
       THEN /\ state' = [state EXCEPT ![r] = "terminated"]
            /\ UNCHANGED <<mask, user_turns>>
       ELSE /\ state' = [state EXCEPT ![r] = "generating"]
            /\ mask' = [mask EXCEPT ![r] = @ + t]
            /\ user_turns' = [user_turns EXCEPT ![r] = @ + 1]
  BY DEF ProcessTools
<1>4. "terminated" \in States /\ "generating" \in States
  BY DEF States
<1>5. CASE mask[r] + t >= config.response_length
  <2>1. /\ state' = [state EXCEPT ![r] = "terminated"] /\ mask' = [mask EXCEPT ![r] = mask[r]]
        /\ {assistant_turns', user_turns'} \subseteq [Rows -> Nat]
    BY <1>2, <1>3, <1>5 DEF ProcessTools
  <2> QED
    BY <1>1, <1>2, <1>4, <2>1, TurnLemma DEF ProcessTools
<1>6. CASE ~(mask[r] + t >= config.response_length)
  <2> DEFINE len == mask[r] + t
  <2>1. len \in 0..config.response_length + AtLeast(config.free, MaxMessage - 1)
    BY <1>2, <1>3, <1>6, BoundsAreNat DEF AtLeast
  <2>2. /\ state' = [state EXCEPT ![r] = "generating"] /\ mask' = [mask EXCEPT ![r] = len]
        /\ {assistant_turns', user_turns'} \subseteq [Rows -> Nat]
    BY <1>2, <1>3, <1>6 DEF ProcessTools
  <2> HIDE DEF len
  <2> QED
    BY <1>1, <1>4, <2>1, <2>2, TurnLemma DEF ProcessTools
<1> QED
  BY <1>5, <1>6

LEMMA InteractIInv == ASSUME IInv, NEW r \in Rows, Interact(r) PROVE IInv'
<1>1. config \in Configs /\ TypeOK /\ config' = config
  BY DEF IInv, TypeInv, Interact
<1>2. /\ mask[r] \in Nat /\ config.response_length \in Nat /\ config.free \in Nat
      /\ assistant_turns \in [Rows -> Nat] /\ user_turns \in [Rows -> Nat]
  BY <1>1, ConfigFields, BoundsAreNat DEF TypeOK, AtLeast
<1>3. mask[r] < config.response_length
  BY DEF IInv, TypeInv, OpenTurns, Interact
<1>4. PICK t \in 1..MaxMessage, should_terminate \in BOOLEAN :
       /\ mask' = [mask EXCEPT ![r] = @ + t]
       /\ user_turns' = [user_turns EXCEPT ![r] = @ + 1]
       /\ state' = [state EXCEPT ![r] = IF should_terminate THEN "terminated" ELSE "generating"]
  BY DEF Interact
<1> DEFINE st == IF should_terminate THEN "terminated" ELSE "generating"
           len == mask[r] + t
<1>5. st \in States /\ st \notin {"tools", "interacting"}
  BY DEF States
<1>6. len \in 0..config.response_length + AtLeast(config.free, MaxMessage - 1)
  BY <1>2, <1>3, <1>4, BoundsAreNat DEF AtLeast
<1>7. /\ state' = [state EXCEPT ![r] = st] /\ mask' = [mask EXCEPT ![r] = len]
      /\ {assistant_turns', user_turns'} \subseteq [Rows -> Nat]
  <2>1. state' = [state EXCEPT ![r] = st] /\ mask' = [mask EXCEPT ![r] = len]
    BY <1>4, Zenon
  <2>2. assistant_turns' \in [Rows -> Nat] /\ user_turns' \in [Rows -> Nat]
    BY <1>2, <1>4 DEF Interact
  <2> QED
    BY <2>1, <2>2
<1> HIDE DEF st, len
<1> QED
  BY <1>1, <1>5, <1>6, <1>7, TurnLemma DEF Interact

LEMMA ArrivesIInv == ASSUME IInv, NEW r \in Rows, ScoreArrives(r) PROVE IInv'
<1> USE DEF ScoreArrives
<1>1. config \in Configs /\ TypeOK /\ config' = config
  BY DEF IInv, TypeInv
<1>2. RateInv' /\ ConcInv' /\ LimitTypeOK' /\ AwakeInv' /\ PhaseInv' /\ state' \in [Rows -> States]
  <2>1. ~Scoring(r) /\ "done" \in States
    BY <1>1, Places, Ends DEF Scoring, States
  <2> QED
    BY <2>1, RowLemma DEF managerVars
<1>3. TypeOK' /\ OpenTurns'
  BY <1>1, <1>2 DEF IInv, TypeInv, TypeOK, OpenTurns, managerVars, turnVars, chooseVars, Rows, Workers
<1> QED
  BY <1>1, <1>2, <1>3 DEF IInv, TypeInv

-----------------------------------------------------------------------------
(* The rows get in and out of the reward loop *)

\* Nobody waits in the limiter while the manager wakes the replicas.
LEMMA NobodyWaits ==
  ASSUME IInv, NEW r \in Rows, state[r] # "scoring"
  PROVE  ~paid[r] /\ step[r] # InCall /\ step[r] \notin Buckets
<1>1. config \in Configs /\ ~Scoring(r)
  BY DEF IInv, TypeInv, PhaseInv
<1>2. step[r] # InCall /\ step[r] \notin Buckets
  BY <1>1, Places DEF Scoring
<1> QED
  BY <1>2 DEF IInv, RateInv, PaidInv

LEMMA StartRowsIInv == ASSUME IInv, StartRows PROVE IInv'
<1>1. config \in Configs /\ TypeOK /\ config' = config
      /\ UNCHANGED <<batch, awake, weights, server, counts, request_id_to_server,
                     timeVars, paid, holders, calls>>
  BY DEF IInv, TypeInv, StartRows
<1>2. \A r \in Rows : ~paid[r] /\ step[r] # InCall
  <2>1. \A r \in Rows : state[r] # "scoring"
    BY DEF IInv, PhaseInv, StartRows
  <2> QED
    BY <2>1, NobodyWaits
<1>3. step' = [r \in Rows |-> NotCalled]
  BY DEF StartRows
<1>4. LimitTypeOK'
  <2>1. NotCalled \in NotCalled..Raised
    BY <1>1, Places DEF NotCalled
  <2>2. step' \in [Rows -> NotCalled..Raised]
    BY <1>3, <2>1
  <2> QED
    BY <1>1, <2>2 DEF TypeOK, LimitTypeOK, timeVars, Rows, Workers, Buckets, Raised
<1>5. RateInv'
  BY <1>1, <1>2 DEF IInv, RateInv, PaidInv, LevelInv, DebtInv, ApartInv, Waits, timeVars, Rows, Workers, Buckets
<1>6. ConcInv'
  <2>1. NotCalled # InCall
    BY <1>1, Places DEF NotCalled
  <2>2. \A w \in Workers : holders[w] \in SUBSET Rows /\ calls[w] \in SUBSET Rows
    BY <1>1 DEF TypeOK, LimitTypeOK
  <2> QED
    BY <1>1, <1>2, <1>3, <2>1, <2>2 DEF IInv, ConcInv, WorkerOf, Rows, Workers, InCall
<1>7. TypeOK'
  <2>1. state' \in [Rows -> States] /\ visited' \in [Rows -> SUBSET Servers] /\ manager' = "serve"
    BY DEF StartRows, States
  <2>2. mask' \in [Rows -> 0..config.response_length + AtLeast(config.free, MaxMessage - 1)]
    BY <1>1, ConfigFields, BoundsAreNat DEF StartRows, AtLeast
  <2>3. assistant_turns' \in [Rows -> Nat] /\ user_turns' \in [Rows -> Nat]
    BY DEF StartRows
  <2> QED
    BY <1>1, <1>4, <2>1, <2>2, <2>3 DEF TypeOK, Rows, Workers
<1>8. OpenTurns' /\ AwakeInv' /\ PhaseInv'
  <2>1. OpenTurns'
    BY <1>1 DEF OpenTurns, StartRows, Rows
  <2>2. AwakeInv'
    BY <1>1 DEF IInv, AwakeInv, StartRows, AllAwake
  <2>3. PhaseInv'
    BY <1>1, <1>3, Places DEF PhaseInv, Scoring, StartRows, NotCalled, Rows, InCall
  <2> QED
    BY <2>1, <2>2, <2>3
<1> QED
  BY <1>1, <1>4, <1>5, <1>6, <1>7, <1>8 DEF IInv, TypeInv

LEMMA ComputeScoreIInv == ASSUME IInv, NEW r \in Rows, ComputeScore(r) PROVE IInv'
<1>1. /\ config \in Configs /\ TypeOK /\ config' = config /\ step' = [step EXCEPT ![r] = 1]
      /\ UNCHANGED <<managerVars, assistant_turns, user_turns, chooseVars, timeVars, paid, holders, calls>>
  BY DEF IInv, TypeInv, ComputeScore, CallScore
<1>2. ~paid[r] /\ step[r] # InCall
  BY NobodyWaits DEF ComputeScore
<1>3. 1 \in NotCalled..Raised /\ 1 # InCall /\ step \in [Rows -> NotCalled..Raised]
  <2>1. 1 \in NotCalled..Raised /\ 1 # InCall
    BY <1>1, ConfigFields DEF NotCalled, InCall, Raised
  <2> QED
    BY <1>1, <2>1 DEF TypeOK, LimitTypeOK
<1>4. LimitTypeOK'
  <2>1. step' \in [Rows -> NotCalled..Raised]
    BY <1>1, <1>3
  <2> QED
    BY <1>1, <2>1 DEF TypeOK, LimitTypeOK, timeVars, Rows, Workers, Buckets, Raised
<1>5. RateInv'
  BY <1>1, <1>2, <1>3 DEF IInv, RateInv, PaidInv, LevelInv, DebtInv, ApartInv, Waits, WorkerOf, timeVars,
     Rows, Workers, Buckets
<1>6. ConcInv'
  <2>1. \A w \in Workers : holders[w] \in SUBSET Rows /\ calls[w] \in SUBSET Rows
    BY <1>1 DEF TypeOK, LimitTypeOK
  <2> QED
    BY <1>1, <1>2, <1>3, <2>1 DEF IInv, ConcInv, WorkerOf, Rows, Workers, InCall
<1>7. TypeOK' /\ OpenTurns'
  <2>1. mask' \in [Rows -> 0..config.response_length + AtLeast(config.free, MaxMessage - 1)]
    <3> DEFINE top == config.response_length + AtLeast(config.free, MaxMessage - 1)
    <3>1. config.response_length \in Nat /\ config.free \in Nat /\ MaxMessage \in Nat
      BY <1>1, ConfigFields, BoundsAreNat
    <3>2. top \in Nat /\ config.response_length <= top
      BY <3>1 DEF AtLeast
    <3>3. mask \in [Rows -> 0..top]
      BY <1>1 DEF TypeOK
    <3> HIDE DEF top
    <3>4. AtMost(config.response_length, mask[r]) \in 0..top
      BY <3>1, <3>2, <3>3 DEF AtMost
    <3>5. mask' = [mask EXCEPT ![r] = AtMost(config.response_length, @)]
      BY DEF ComputeScore
    <3>6. mask' \in [Rows -> 0..top]
      BY <3>3, <3>4, <3>5
    <3> QED
      BY <3>6 DEF top
  <2>2. state' \in [Rows -> States]
    BY <1>1 DEF ComputeScore, TypeOK, States
  <2>3. TypeOK'
    BY <1>1, <1>4, <2>1, <2>2 DEF TypeOK, managerVars, chooseVars, Rows, Workers
  <2>4. OpenTurns'
    BY <1>1 DEF IInv, TypeInv, TypeOK, OpenTurns, ComputeScore, Rows
  <2> QED
    BY <2>3, <2>4
<1>8. AwakeInv' /\ PhaseInv'
  <2>1. AwakeInv'
    BY <1>1 DEF IInv, AwakeInv, managerVars
  <2>2. PhaseInv'
    BY <1>1, <1>3 DEF IInv, TypeOK, PhaseInv, Scoring, ComputeScore, managerVars, Rows, InCall
  <2> QED
    BY <2>1, <2>2
<1> QED
  BY <1>1, <1>4, <1>5, <1>6, <1>7, <1>8 DEF IInv, TypeInv

-----------------------------------------------------------------------------
(* The limiter *)

\* A step of the limiter leaves the conversations alone, and brings no row into run_single.
LEMMA LimiterLemma ==
  ASSUME IInv, config' = config, UNCHANGED <<managerVars, state, turnVars, chooseVars>>,
         LimitTypeOK', RateInv', ConcInv', \A q \in Rows : Scoring(q)' => Scoring(q)
  PROVE  IInv'
<1>1. TypeOK'
  BY DEF IInv, TypeInv, TypeOK, managerVars, turnVars, chooseVars, Rows, Workers
<1>2. OpenTurns' /\ AwakeInv' /\ PhaseInv'
  BY DEF IInv, TypeInv, OpenTurns, AwakeInv, PhaseInv, managerVars, turnVars, Rows
<1> QED
  BY <1>1, <1>2 DEF IInv, TypeInv

\* What is known of a row in a bucket.
LEMMA InBucket ==
  ASSUME IInv, NEW r \in Rows, step[r] \in Buckets
  PROVE  LET w == WorkerOf(r)
             b == step[r]
         IN  /\ w \in Workers /\ tokens[w][b] \in Int /\ level[w][b] \in Nat /\ sleep[r] \in Nat
             /\ config.buckets[b].max \in Nat \ {0} /\ config.buckets[b].cost \in Nat \ {0}
             /\ step[r] + 1 \in NotCalled..Raised /\ step[r] + 1 # InCall /\ step[r] # InCall
             /\ Scoring(r)
<1>1. config \in Configs /\ LimitTypeOK
  BY DEF IInv, TypeInv, TypeOK
<1>2. WorkerOf(r) \in Workers
  BY <1>1, WorkerOfType
<1>3. config.buckets[step[r]].max \in Nat \ {0} /\ config.buckets[step[r]].cost \in Nat \ {0}
  BY <1>1, ConfigFields
<1>4. /\ step[r] + 1 \in NotCalled..Raised /\ step[r] + 1 # InCall /\ step[r] # InCall
      /\ Scoring(r)
  BY <1>1, Places DEF NotCalled, Scoring
<1> QED
  BY <1>1, <1>2, <1>3, <1>4 DEF LimitTypeOK

LEMMA TypesOfLimits ==
  ASSUME config \in Configs, config' = config, LimitTypeOK, UNCHANGED <<holders, calls>>,
         tokens' \in [Workers -> [Buckets -> Int]], step' \in [Rows -> NotCalled..Raised],
         sleep' \in [Rows -> Nat], paid' \in [Rows -> BOOLEAN],
         level' \in [Workers -> [Buckets -> Nat]]
  PROVE  LimitTypeOK'
BY DEF LimitTypeOK, Workers, Rows, Buckets, Raised

LEMMA AcquireIInv ==
  ASSUME IInv, NEW r \in Rows, Acquire(WorkerOf(r), r),
         UNCHANGED <<config, managerVars, state, turnVars, chooseVars>>
  PROVE  IInv'
<1> DEFINE w == WorkerOf(r)
           b == step[r]
           cost == config.buckets[b].cost
           max == config.buckets[b].max
           T == tokens[w][b]
           L == level[w][b]
<1>1. config \in Configs /\ LimitTypeOK /\ config' = config /\ UNCHANGED <<holders, calls>>
  BY DEF IInv, TypeInv, TypeOK, Acquire
<1>2. b \in Buckets /\ sleep[r] = 0
  BY DEF Acquire
<1>3. /\ w \in Workers /\ T \in Int /\ L \in Nat /\ max \in Nat \ {0} /\ cost \in Nat \ {0}
      /\ b + 1 \in NotCalled..Raised /\ b + 1 # InCall /\ b # InCall /\ Scoring(r)
  BY <1>2, InBucket
<1>4. /\ tokens \in [Workers -> [Buckets -> Int]] /\ step \in [Rows -> NotCalled..Raised]
      /\ sleep \in [Rows -> Nat] /\ paid \in [Rows -> BOOLEAN]
      /\ level \in [Workers -> [Buckets -> Nat]]
      /\ \A v \in Workers : holders[v] \in SUBSET Rows /\ calls[v] \in SUBSET Rows
  BY <1>1 DEF LimitTypeOK
<1>5. /\ PaidInv /\ DebtInv /\ ApartInv /\ ConcInv
      /\ \A v \in Workers : \A c \in Buckets :
           /\ tokens[v][c] <= config.buckets[c].max
           /\ level[v][c] + tokens[v][c] <= AtLeast(config.buckets[c].max, config.buckets[c].cost)
           /\ level[v][c] <= AtLeast(config.buckets[c].max, config.buckets[c].cost)
           /\ config.buckets[c].cost <= config.buckets[c].max => tokens[v][c] >= 0
  BY DEF IInv, RateInv, LevelInv
<1>6. /\ Rows' = Rows /\ Workers' = Workers /\ Buckets' = Buckets /\ InCall' = InCall /\ Raised' = Raised
      /\ \A q \in Rows : WorkerOf(q)' = WorkerOf(q)
  BY <1>1 DEF Rows, Workers, Buckets, InCall, Raised, WorkerOf
<1> HIDE DEF w
<1>7. ASSUME step' \in [Rows -> NotCalled..Raised],
             \A q \in Rows : step'[q] = step[q] \/ (q = r /\ step'[q] = b + 1)
      PROVE  ConcInv' /\ \A q \in Rows : Scoring(q)' => Scoring(q)
  <2>1. ConcInv'
    BY <1>1, <1>3, <1>4, <1>5, <1>6, <1>7 DEF ConcInv
  <2>2. \A q \in Rows : Scoring(q)' => Scoring(q)
    BY <1>3, <1>6, <1>7 DEF Scoring
  <2> QED
    BY <2>1, <2>2

\* woken up after paying
<1>8. CASE paid[r] /\ Through(w, r) /\ UNCHANGED <<tokens, sleep>>
  <2>1. /\ step' = [step EXCEPT ![r] = b + 1] /\ paid' = [paid EXCEPT ![r] = FALSE]
        /\ level' = [level EXCEPT ![w][b] = L + cost] /\ tokens' = tokens /\ sleep' = sleep
    BY <1>8 DEF Through
  <2>2. Waits(w, r, b) /\ cost > max
    BY <1>2, <1>5, <1>8 DEF Waits, PaidInv, w
  <2>3. T <= 0 /\ L = 0
    BY <1>2, <1>3, <1>5, <2>2 DEF DebtInv
  <2>4. LimitTypeOK'
    <3>1. level' \in [Workers -> [Buckets -> Nat]]
      BY <1>2, <1>3, <1>4, <2>1
    <3>2. step' \in [Rows -> NotCalled..Raised] /\ paid' \in [Rows -> BOOLEAN]
      BY <1>3, <1>4, <2>1
    <3> QED
      BY <1>1, <1>4, <2>1, <3>1, <3>2, TypesOfLimits
  <2>5. \A v \in Workers : \A c \in Buckets : \A q \in Rows :
          Waits(v, q, c)' => q # r /\ Waits(v, q, c)
    BY <1>4, <1>6, <2>1 DEF Waits
  <2>6. \A v \in Workers : \A c \in Buckets :
          level'[v][c] = IF v = w /\ c = b THEN cost ELSE level[v][c]
    BY <1>2, <1>3, <1>4, <2>1, <2>3
  <2>7. PaidInv'
    BY <1>4, <1>5, <1>6, <1>1, <2>1 DEF PaidInv
  <2>8. LevelInv'
    BY <1>1, <1>2, <1>3, <1>5, <1>6, <2>1, <2>2, <2>3, <2>6 DEF LevelInv, AtLeast
  <2>9. DebtInv'
    <3> SUFFICES ASSUME NEW v \in Workers, NEW c \in Buckets, NEW q \in Rows, Waits(v, q, c)'
                 PROVE  sleep[q] <= 0 - tokens[v][c] /\ level'[v][c] <= sleep[q]
      BY <1>6, <2>1 DEF DebtInv
    <3>1. q # r /\ Waits(v, q, c)
      BY <2>5
    <3>2. sleep[q] <= 0 - tokens[v][c] /\ level[v][c] <= sleep[q]
      BY <1>5, <3>1 DEF DebtInv
    <3>3. CASE v = w /\ c = b
      <4>1. sleep[r] - sleep[q] >= cost \/ sleep[q] - sleep[r] >= cost
        BY <1>5, <2>2, <3>1, <3>3, <1>2, <1>3 DEF ApartInv
      <4> QED
        BY <4>1, <1>2, <1>3, <1>4, <2>6, <3>2, <3>3
    <3>4. CASE ~(v = w /\ c = b)
      BY <2>6, <3>2, <3>4
    <3> QED
      BY <3>3, <3>4
  <2>10. ApartInv'
    BY <1>1, <1>5, <1>6, <2>1, <2>5 DEF ApartInv
  <2>11. ConcInv' /\ \A q \in Rows : Scoring(q)' => Scoring(q)
    BY <1>4, <1>7, <2>1, <2>4, <1>6 DEF LimitTypeOK
  <2> QED
    BY <1>1, <2>4, <2>7, <2>8, <2>9, <2>10, <2>11, LimiterLemma DEF RateInv

\* more than the bucket ever holds
<1>9. CASE /\ ~paid[r] /\ cost > max
           /\ tokens' = [tokens EXCEPT ![w][b] = @ - cost]
           /\ sleep' = [sleep EXCEPT ![r] = WaitTime(cost - T, cost)]
           /\ paid' = [paid EXCEPT ![r] = TRUE]
           /\ UNCHANGED <<step, level>>
  <2>1. T <= max /\ L + T <= cost /\ cost - T \in Nat
    BY <1>2, <1>3, <1>5, <1>9 DEF AtLeast
  <2>2. /\ tokens' = [tokens EXCEPT ![w][b] = T - cost] /\ sleep' = [sleep EXCEPT ![r] = cost - T]
        /\ step' = step /\ level' = level
    BY <1>9 DEF WaitTime
  <2>3. LimitTypeOK'
    <3>1. tokens' \in [Workers -> [Buckets -> Int]]
      BY <1>2, <1>3, <1>4, <2>2
    <3>2. sleep' \in [Rows -> Nat] /\ paid' \in [Rows -> BOOLEAN]
      BY <1>4, <1>9, <2>1, <2>2
    <3> QED
      BY <1>1, <1>4, <2>2, <3>1, <3>2, TypesOfLimits
  <2>4. \A v \in Workers : \A c \in Buckets : \A q \in Rows :
          Waits(v, q, c)' => (q = r /\ v = w /\ c = b) \/ (q # r /\ Waits(v, q, c))
    BY <1>4, <1>6, <1>9, <2>2 DEF Waits, w
  <2>5. \A v \in Workers : \A c \in Buckets :
          tokens'[v][c] = IF v = w /\ c = b THEN T - cost ELSE tokens[v][c]
    BY <1>2, <1>3, <1>4, <2>2
  <2>6. \A q \in Rows : sleep'[q] = IF q = r THEN cost - T ELSE sleep[q]
    BY <1>4, <2>2
  <2>7. PaidInv'
    BY <1>1, <1>2, <1>4, <1>5, <1>6, <1>9, <2>2 DEF PaidInv
  <2>8. LevelInv'
    <3> SUFFICES ASSUME NEW v \in Workers, NEW c \in Buckets
                 PROVE  /\ tokens'[v][c] <= config.buckets[c].max
                        /\ level[v][c] + tokens'[v][c] <= AtLeast(config.buckets[c].max, config.buckets[c].cost)
                        /\ config.buckets[c].cost <= config.buckets[c].max => tokens'[v][c] >= 0
      BY <1>1, <1>5, <1>6, <2>2 DEF LevelInv, AtLeast
    <3>1. CASE v = w /\ c = b
      BY <1>3, <1>9, <2>1, <2>5, <3>1 DEF AtLeast
    <3>2. CASE ~(v = w /\ c = b)
      BY <1>5, <2>5, <3>2
    <3> QED
      BY <3>1, <3>2
  <2>9. DebtInv'
    <3> SUFFICES ASSUME NEW v \in Workers, NEW c \in Buckets, NEW q \in Rows, Waits(v, q, c)'
                 PROVE  sleep'[q] <= 0 - tokens'[v][c] /\ level[v][c] <= sleep'[q]
      BY <1>6, <2>2 DEF DebtInv
    <3>1. CASE q = r /\ v = w /\ c = b
      BY <1>3, <2>1, <2>5, <2>6, <3>1
    <3>2. CASE q # r /\ Waits(v, q, c)
      <4>1. sleep[q] <= 0 - tokens[v][c] /\ level[v][c] <= sleep[q] /\ sleep[q] \in Nat
            /\ tokens[v][c] \in Int
        BY <1>4, <1>5, <3>2 DEF DebtInv
      <4>2. tokens'[v][c] \in Int /\ tokens'[v][c] <= tokens[v][c]
        BY <1>3, <2>5, <4>1
      <4> QED
        BY <2>6, <3>2, <4>1, <4>2
    <3> QED
      BY <2>4, <3>1, <3>2
  <2>10. ApartInv'
    <3>1. \A q \in Rows : q # r /\ Waits(w, q, b) => sleep[q] <= 0 - T /\ sleep[q] \in Nat
      BY <1>2, <1>3, <1>4, <1>5 DEF DebtInv
    <3>2. \A v \in Workers : \A c \in Buckets : \A p, q \in Rows :
            Waits(v, p, c)' /\ Waits(v, q, c)' /\ p # q =>
              \/ sleep'[p] - sleep'[q] >= config.buckets[c].cost
              \/ sleep'[q] - sleep'[p] >= config.buckets[c].cost
      <4> SUFFICES ASSUME NEW v \in Workers, NEW c \in Buckets, NEW p \in Rows, NEW q \in Rows,
                          Waits(v, p, c)', Waits(v, q, c)', p # q
                   PROVE  \/ sleep'[p] - sleep'[q] >= config.buckets[c].cost
                          \/ sleep'[q] - sleep'[p] >= config.buckets[c].cost
        OBVIOUS
      <4>1. CASE p = r
        BY <1>3, <2>4, <2>6, <3>1, <4>1
      <4>2. CASE q = r
        BY <1>3, <2>4, <2>6, <3>1, <4>2
      <4>3. CASE p # r /\ q # r
        BY <1>5, <2>4, <2>6, <4>3 DEF ApartInv
      <4> QED
        BY <4>1, <4>2, <4>3
    <3> QED
      BY <1>1, <1>6, <3>2 DEF ApartInv
  <2>11. ConcInv' /\ \A q \in Rows : Scoring(q)' => Scoring(q)
    BY <1>4, <1>7, <2>2
  <2> QED
    BY <1>1, <2>3, <2>7, <2>8, <2>9, <2>10, <2>11, LimiterLemma DEF RateInv

\* enough tokens
<1>10. CASE /\ ~paid[r] /\ cost <= max /\ cost - T <= 0
            /\ tokens' = [tokens EXCEPT ![w][b] = @ - cost]
            /\ Through(w, r) /\ UNCHANGED sleep
  <2>1. /\ step' = [step EXCEPT ![r] = b + 1] /\ paid' = [paid EXCEPT ![r] = FALSE]
        /\ level' = [level EXCEPT ![w][b] = L + cost] /\ tokens' = [tokens EXCEPT ![w][b] = T - cost]
        /\ sleep' = sleep
    BY <1>10 DEF Through
  <2>2. LimitTypeOK'
    <3>1. tokens' \in [Workers -> [Buckets -> Int]] /\ level' \in [Workers -> [Buckets -> Nat]]
      BY <1>2, <1>3, <1>4, <2>1
    <3>2. step' \in [Rows -> NotCalled..Raised] /\ paid' \in [Rows -> BOOLEAN]
      BY <1>3, <1>4, <2>1
    <3> QED
      BY <1>1, <1>4, <2>1, <3>1, <3>2, TypesOfLimits
  <2>3. \A v \in Workers : \A c \in Buckets : \A q \in Rows :
          Waits(v, q, c)' => q # r /\ Waits(v, q, c)
    BY <1>4, <1>6, <2>1 DEF Waits
  <2>4. \A v \in Workers : \A c \in Buckets :
          /\ level'[v][c] = IF v = w /\ c = b THEN L + cost ELSE level[v][c]
          /\ tokens'[v][c] = IF v = w /\ c = b THEN T - cost ELSE tokens[v][c]
    BY <1>2, <1>3, <1>4, <2>1
  <2>5. PaidInv'
    BY <1>4, <1>5, <1>6, <1>1, <2>1 DEF PaidInv
  <2>6. LevelInv'
    <3> SUFFICES ASSUME NEW v \in Workers, NEW c \in Buckets
                 PROVE  /\ tokens'[v][c] <= config.buckets[c].max
                        /\ level'[v][c] + tokens'[v][c] <= AtLeast(config.buckets[c].max, config.buckets[c].cost)
                        /\ level'[v][c] <= AtLeast(config.buckets[c].max, config.buckets[c].cost)
                        /\ config.buckets[c].cost <= config.buckets[c].max => tokens'[v][c] >= 0
      BY <1>1, <1>6 DEF LevelInv, AtLeast
    <3>1. CASE v = w /\ c = b
      <4>1. level'[v][c] = L + cost /\ tokens'[v][c] = T - cost
        BY <2>4, <3>1
      <4>2. T <= max /\ L + T <= AtLeast(max, cost) /\ AtLeast(max, cost) = max
        <5>1. AtLeast(max, cost) = max
          BY <1>3, <1>10 DEF AtLeast
        <5>2. T <= max /\ L + T <= AtLeast(max, cost)
          BY <1>2, <1>3, <1>5
        <5> QED
          BY <5>1, <5>2
      <4>3. T - cost <= max /\ L + cost + (T - cost) <= max /\ L + cost <= max /\ T - cost >= 0
        BY <1>3, <1>10, <4>2
      <4> QED
        BY <1>3, <3>1, <4>1, <4>2, <4>3
    <3>2. CASE ~(v = w /\ c = b)
      BY <1>5, <2>4, <3>2
    <3> QED
      BY <3>1, <3>2
  <2>7. DebtInv' /\ ApartInv'
    <3>1. \A q \in Rows : Waits(w, q, b) => config.buckets[b].cost > config.buckets[b].max
      BY <1>5 DEF PaidInv, Waits
    <3>2. \A q \in Rows : ~Waits(w, q, b)
      BY <1>3, <1>10, <3>1
    <3>3. DebtInv'
      BY <1>5, <1>6, <2>1, <2>3, <2>4, <3>2 DEF DebtInv
    <3>4. ApartInv'
      BY <1>1, <1>5, <1>6, <2>1, <2>3 DEF ApartInv
    <3> QED
      BY <3>3, <3>4
  <2>8. ConcInv' /\ \A q \in Rows : Scoring(q)' => Scoring(q)
    BY <1>4, <1>7, <2>1, <2>2, <1>6 DEF LimitTypeOK
  <2> QED
    BY <1>1, <2>2, <2>5, <2>6, <2>7, <2>8, LimiterLemma DEF RateInv

\* not enough
<1>11. CASE /\ ~paid[r] /\ cost - T > 0
            /\ sleep' = [sleep EXCEPT ![r] = WaitTime(cost - T, cost)]
            /\ UNCHANGED <<tokens, step, paid, level>>
  <2>1. cost - T \in Nat /\ sleep' = [sleep EXCEPT ![r] = cost - T]
        /\ tokens' = tokens /\ step' = step /\ paid' = paid /\ level' = level
    BY <1>3, <1>11 DEF WaitTime
  <2>2. LimitTypeOK'
    BY <1>1, <1>4, <1>6, <2>1 DEF LimitTypeOK
  <2>3. \A v \in Workers : \A c \in Buckets : \A q \in Rows :
          Waits(v, q, c)' => q # r /\ Waits(v, q, c)
    BY <1>4, <1>6, <1>11, <2>1 DEF Waits
  <2>4. \A q \in Rows : q # r => sleep'[q] = sleep[q]
    BY <1>4, <2>1
  <2>5. PaidInv' /\ LevelInv'
    BY <1>1, <1>6, <2>1 DEF IInv, RateInv, PaidInv, LevelInv, AtLeast
  <2>6. DebtInv' /\ ApartInv'
    BY <1>1, <1>5, <1>6, <2>1, <2>3, <2>4 DEF DebtInv, ApartInv
  <2>7. ConcInv' /\ \A q \in Rows : Scoring(q)' => Scoring(q)
    BY <1>4, <1>7, <2>1
  <2> QED
    BY <1>1, <2>2, <2>5, <2>6, <2>7, LimiterLemma DEF RateInv
<1> QED
  BY <1>8, <1>9, <1>10, <1>11 DEF Acquire, w

\* Outside the buckets rows do not sleep, and the limits of the buckets are as they were.
LEMMA SameBuckets ==
  ASSUME IInv, NEW r \in Rows, step[r] \in {InQueue, InCall}, NEW p \in {InCall} \cup Over,
         config' = config, UNCHANGED timeVars, UNCHANGED paid, step' = [step EXCEPT ![r] = p],
         holders' \in [Workers -> SUBSET Rows], calls' \in [Workers -> SUBSET Rows]
  PROVE  LimitTypeOK' /\ RateInv' /\ (\A q \in Rows : Scoring(q)' => Scoring(q))
<1>1. config \in Configs /\ LimitTypeOK
  BY DEF IInv, TypeInv, TypeOK
<1>2. step[r] \notin Buckets /\ p \notin Buckets /\ p \in NotCalled..Raised /\ Scoring(r)
  <2>1. p \in Nat /\ InCall <= p /\ p <= Raised
    BY <1>1, Places, Ends
  <2>2. step[r] \in Nat /\ InCall \in Nat /\ InQueue \in Nat /\ Raised \in Nat /\ 1 <= InQueue
    BY <1>1, Places, ConfigFields DEF InQueue
  <2>3. InQueue <= step[r] /\ step[r] <= InCall /\ InQueue <= p
    BY <1>1, <2>1, <2>2, Places
  <2>4. \A b \in Buckets : b \in Nat /\ b < InQueue
    BY <1>1, Places
  <2>5. step[r] \notin Buckets /\ p \notin Buckets
    BY ONLY <2>1, <2>2, <2>3, <2>4
  <2>6. p \in NotCalled..Raised /\ Scoring(r)
    BY <2>1, <2>2, <2>3 DEF NotCalled, Scoring
  <2> QED
    BY <2>5, <2>6
<1>3. ~paid[r]
  BY <1>2 DEF IInv, RateInv, PaidInv
<1>4. LimitTypeOK'
  <2>1. step' \in [Rows -> NotCalled..Raised]
    BY <1>1, <1>2 DEF LimitTypeOK
  <2> QED
    BY <1>1, <2>1 DEF LimitTypeOK, timeVars, Workers, Rows, Buckets, Raised
<1>5. RateInv'
  <2>1. /\ Rows' = Rows /\ Workers' = Workers /\ Buckets' = Buckets
        /\ config' = config /\ paid' = paid /\ tokens' = tokens /\ sleep' = sleep /\ level' = level
    BY DEF timeVars, Workers, Rows, Buckets
  <2>2. \A q \in Rows : paid[q] => step'[q] = step[q]
    BY <1>1, <1>3 DEF LimitTypeOK
  <2>3. \A v \in Workers : \A q \in Rows : \A b \in Buckets : Waits(v, q, b)' => Waits(v, q, b)
    BY <2>1, <2>2 DEF Waits, WorkerOf
  <2>4. PaidInv' /\ LevelInv'
    BY <2>1, <2>2 DEF IInv, RateInv, PaidInv, LevelInv
  <2>5. DebtInv'
    BY <2>1, <2>3 DEF IInv, RateInv, DebtInv
  <2>6. ApartInv'
    BY <2>1, <2>3 DEF IInv, RateInv, ApartInv
  <2> QED
    BY <2>4, <2>5, <2>6 DEF RateInv
<1>6. \A q \in Rows : Scoring(q)' => Scoring(q)
  BY <1>1, <1>2 DEF LimitTypeOK, Scoring, Rows, InCall
<1> QED
  BY <1>4, <1>5, <1>6

LEMMA EnterIInv ==
  ASSUME IInv, NEW r \in Rows, Enter(WorkerOf(r), r),
         UNCHANGED <<config, managerVars, state, turnVars, chooseVars>>
  PROVE  IInv'
<1> DEFINE w == WorkerOf(r)
<1>1. config \in Configs /\ config' = config /\ w \in Workers /\ LimitTypeOK /\ ConcInv
      /\ config.concurrent \in Nat
  BY WorkerOfType, ConfigFields DEF IInv, TypeInv, TypeOK
<1>2. /\ step[r] = InQueue /\ Cardinality(holders[w]) < config.concurrent
      /\ step' = [step EXCEPT ![r] = InCall]
      /\ holders' = [holders EXCEPT ![w] = @ \cup {r}]
      /\ calls' = [calls EXCEPT ![w] = @ \cup {r}]
      /\ UNCHANGED <<timeVars, paid>>
  BY DEF Enter
<1>3. InQueue # InCall /\ step \in [Rows -> NotCalled..Raised]
      /\ holders \in [Workers -> SUBSET Rows] /\ calls \in [Workers -> SUBSET Rows]
  BY <1>1, Places DEF LimitTypeOK
<1>4. holders' \in [Workers -> SUBSET Rows] /\ calls' \in [Workers -> SUBSET Rows]
  BY <1>1, <1>2, <1>3
<1>5. LimitTypeOK' /\ RateInv' /\ (\A q \in Rows : Scoring(q)' => Scoring(q))
  BY <1>1, <1>2, <1>4, SameBuckets
<1>6. ConcInv'
  <2> SUFFICES ASSUME NEW v \in Workers
               PROVE  /\ Cardinality(holders'[v]) <= config.concurrent
                      /\ \A q \in Rows : q \in holders'[v] <=> WorkerOf(q) = v /\ step'[q] = InCall
                      /\ \A q \in calls'[v] : /\ WorkerOf(q) = v
                                              /\ step'[q] = InCall \/ ~config.sync => q \in holders'[v]
    BY <1>1 DEF ConcInv, WorkerOf, Rows, Workers, InCall
  <2>1. Cardinality(holders'[v]) <= config.concurrent
    <3>1. CASE v = w
      <4>1. IsFiniteSet(holders[w])
        BY <1>1, <1>3, RowsFinite
      <4>2. Cardinality(holders[w]) \in Nat
        BY <4>1, FS_CardinalityType
      <4>3. Cardinality(holders[w] \cup {r}) =
              IF r \in holders[w] THEN Cardinality(holders[w]) ELSE Cardinality(holders[w]) + 1
        BY <4>1, FS_AddElement, Zenon
      <4>4. holders'[v] = holders[w] \cup {r}
        BY <1>1, <1>2, <1>3, <3>1
      <4>5. Cardinality(holders'[v]) = Cardinality(holders[w] \cup {r})
        BY <4>4, Zenon
      <4>6. Cardinality(holders[w]) < config.concurrent /\ config.concurrent \in Nat
        BY <1>1, <1>2
      <4> HIDE DEF w
      <4> QED
        BY <4>2, <4>3, <4>5, <4>6
    <3>2. CASE v # w
      <4>1. holders'[v] = holders[v]
        BY <1>1, <1>2, <1>3, <3>2
      <4> QED
        BY <1>1, <4>1 DEF ConcInv
    <3> QED
      BY <3>1, <3>2
  <2>2. \A q \in Rows : q \in holders'[v] <=> WorkerOf(q) = v /\ step'[q] = InCall
    BY <1>1, <1>2, <1>3 DEF ConcInv
  <2>3. \A q \in calls'[v] : q \in Rows /\ WorkerOf(q) = v
    BY <1>1, <1>2, <1>3, <1>4 DEF ConcInv
  <2>4. \A q \in calls'[v] : step'[q] = InCall \/ ~config.sync => q \in holders'[v]
    BY <1>1, <1>2, <1>3, <2>3 DEF ConcInv
  <2> QED
    BY <2>1, <2>2, <2>3, <2>4
<1> QED
  BY <1>1, <1>5, <1>6, LimiterLemma

LEMMA LeaveIInv ==
  ASSUME IInv, NEW r \in Rows, NEW end \in Over, Leave(WorkerOf(r), r, end),
         UNCHANGED <<config, managerVars, state, turnVars, chooseVars>>
  PROVE  IInv'
<1> DEFINE w == WorkerOf(r)
<1>1. config \in Configs /\ config' = config /\ w \in Workers /\ LimitTypeOK /\ ConcInv
      /\ config.concurrent \in Nat
  BY WorkerOfType, ConfigFields DEF IInv, TypeInv, TypeOK
<1>2. /\ step[r] = InCall
      /\ step' = [step EXCEPT ![r] = end]
      /\ holders' = [holders EXCEPT ![w] = @ \ {r}]
      /\ calls' = IF end = TimedOut /\ config.sync THEN calls ELSE [calls EXCEPT ![w] = @ \ {r}]
      /\ UNCHANGED <<timeVars, paid>>
  <2>1. holders \in [Workers -> SUBSET Rows]
    BY <1>1 DEF LimitTypeOK
  <2> QED
    BY <1>1, <2>1 DEF Leave, Released
<1>3. end # InCall /\ step \in [Rows -> NotCalled..Raised]
      /\ holders \in [Workers -> SUBSET Rows] /\ calls \in [Workers -> SUBSET Rows]
  BY <1>1, Places, Ends DEF LimitTypeOK
<1>4. holders' \in [Workers -> SUBSET Rows] /\ calls' \in [Workers -> SUBSET Rows]
  BY <1>1, <1>2, <1>3
<1>5. LimitTypeOK' /\ RateInv' /\ (\A q \in Rows : Scoring(q)' => Scoring(q))
  BY <1>1, <1>2, <1>4, SameBuckets
<1>6. ConcInv'
  <2> SUFFICES ASSUME NEW v \in Workers
               PROVE  /\ Cardinality(holders'[v]) <= config.concurrent
                      /\ \A q \in Rows : q \in holders'[v] <=> WorkerOf(q) = v /\ step'[q] = InCall
                      /\ \A q \in calls'[v] : /\ WorkerOf(q) = v
                                              /\ step'[q] = InCall \/ ~config.sync => q \in holders'[v]
    BY <1>1 DEF ConcInv, WorkerOf, Rows, Workers, InCall
  <2>1. Cardinality(holders'[v]) <= config.concurrent
    <3>1. holders'[v] \in SUBSET holders[v] /\ holders[v] \in SUBSET Rows
      BY <1>1, <1>2, <1>3
    <3>2. IsFiniteSet(holders[v])
      BY <1>1, <3>1, RowsFinite
    <3>3. /\ Cardinality(holders'[v]) <= Cardinality(holders[v]) /\ Cardinality(holders[v]) \in Nat
          /\ Cardinality(holders'[v]) \in Nat
      BY <3>1, <3>2, FS_Subset, FS_CardinalityType
    <3>4. Cardinality(holders[v]) <= config.concurrent
      BY <1>1 DEF ConcInv
    <3> QED
      BY <1>1, <3>3, <3>4
  <2>2. \A q \in Rows : q \in holders'[v] <=> WorkerOf(q) = v /\ step'[q] = InCall
    BY <1>1, <1>2, <1>3 DEF ConcInv
  <2>3. \A q \in calls'[v] : q \in Rows /\ WorkerOf(q) = v /\ q \in calls[v]
    BY <1>1, <1>2, <1>3, <1>4 DEF ConcInv
  <2>4. \A q \in calls'[v] : step'[q] = InCall \/ ~config.sync => q \in holders'[v]
    BY <1>1, <1>2, <1>3, <2>3 DEF ConcInv
  <2> QED
    BY <2>1, <2>2, <2>3, <2>4
<1> QED
  BY <1>1, <1>5, <1>6, LimiterLemma

LEMMA ThreadEndsIInv ==
  ASSUME IInv, NEW r \in Rows, ThreadEnds(WorkerOf(r), r),
         UNCHANGED <<config, managerVars, state, turnVars, chooseVars>>
  PROVE  IInv'
<1> DEFINE w == WorkerOf(r)
<1>1. config \in Configs /\ config' = config /\ LimitTypeOK /\ ConcInv
      /\ UNCHANGED <<timeVars, step, paid, holders>>
      /\ calls \in [Workers -> SUBSET Rows] /\ calls' = [calls EXCEPT ![w] = @ \ {r}]
  BY DEF IInv, TypeInv, TypeOK, ThreadEnds, LimitTypeOK
<1>2. \A v \in Workers : calls'[v] \in SUBSET calls[v]
  BY <1>1
<1>3. LimitTypeOK'
  <2>1. calls' \in [Workers -> SUBSET Rows]
    BY <1>1
  <2> QED
    BY <1>1, <2>1 DEF LimitTypeOK, timeVars, Workers, Rows, Buckets, Raised
<1>4. RateInv'
  BY <1>1 DEF IInv, RateInv, PaidInv, LevelInv, DebtInv, ApartInv, Waits, WorkerOf, timeVars,
     Workers, Rows, Buckets
<1>5. ConcInv'
  BY <1>1, <1>2 DEF ConcInv, WorkerOf, Rows, Workers, InCall
<1>6. \A q \in Rows : Scoring(q)' => Scoring(q)
  BY <1>1 DEF Scoring, InCall
<1> QED
  BY <1>1, <1>3, <1>4, <1>5, <1>6, LimiterLemma

LEMMA TimeIInv == ASSUME IInv, TimePasses PROVE IInv'
<1>1. config \in Configs /\ config' = config /\ LimitTypeOK
      /\ UNCHANGED <<managerVars, state, turnVars, chooseVars, step, paid, holders, calls>>
  BY DEF IInv, TypeInv, TypeOK, TimePasses, Tick
<1>2. /\ tokens \in [Workers -> [Buckets -> Int]] /\ sleep \in [Rows -> Nat]
      /\ level \in [Workers -> [Buckets -> Nat]]
      /\ \A b \in Buckets : config.buckets[b].max \in Nat /\ config.buckets[b].cost \in Nat \ {0}
  BY <1>1, ConfigFields DEF LimitTypeOK
<1>3. /\ \A r \in Rows : step[r] \in Buckets => sleep[r] > 0
      /\ sleep' = [r \in Rows |-> AtLeast(0, sleep[r] - 1)]
      /\ tokens' = [w \in Workers |-> [b \in Buckets |-> AtMost(config.buckets[b].max, tokens[w][b] + 1)]]
      /\ level' = [w \in Workers |-> [b \in Buckets |-> AtLeast(0, level[w][b] - 1)]]
  BY DEF TimePasses, Tick
<1>4. /\ Rows' = Rows /\ Workers' = Workers /\ Buckets' = Buckets
      /\ \A q \in Rows : WorkerOf(q)' = WorkerOf(q)
  BY <1>1 DEF Rows, Workers, Buckets, WorkerOf
<1>5. \A w \in Workers : \A b \in Buckets :
        /\ tokens'[w][b] \in Int /\ tokens'[w][b] <= tokens[w][b] + 1
        /\ tokens'[w][b] <= config.buckets[b].max
        /\ tokens[w][b] >= 0 => tokens'[w][b] >= 0
        /\ level'[w][b] \in Nat /\ level'[w][b] = (IF level[w][b] = 0 THEN 0 ELSE level[w][b] - 1)
  BY <1>2, <1>3 DEF AtMost, AtLeast
<1>6. \A r \in Rows : /\ sleep'[r] \in Nat
                      /\ step[r] \in Buckets => sleep'[r] = sleep[r] - 1
  BY <1>2, <1>3 DEF AtLeast
<1>7. LimitTypeOK'
  <2>1. /\ tokens' \in [Workers -> [Buckets -> Int]] /\ level' \in [Workers -> [Buckets -> Nat]]
        /\ sleep' \in [Rows -> Nat]
    BY <1>2, <1>3 DEF AtMost, AtLeast
  <2>2. step' \in [Rows -> NotCalled..Raised] /\ paid' \in [Rows -> BOOLEAN] /\ UNCHANGED <<holders, calls>>
    BY <1>1 DEF LimitTypeOK
  <2> QED
    BY <1>1, <2>1, <2>2, TypesOfLimits
<1>8. PaidInv'
  BY <1>1, <1>4 DEF IInv, RateInv, PaidInv
<1>9. LevelInv'
  <2> SUFFICES ASSUME NEW w \in Workers, NEW b \in Buckets
               PROVE  /\ tokens'[w][b] <= config.buckets[b].max
                      /\ level'[w][b] + tokens'[w][b] <= AtLeast(config.buckets[b].max, config.buckets[b].cost)
                      /\ level'[w][b] <= AtLeast(config.buckets[b].max, config.buckets[b].cost)
                      /\ config.buckets[b].cost <= config.buckets[b].max => tokens'[w][b] >= 0
    BY <1>1, <1>4 DEF LevelInv, AtLeast
  <2> DEFINE bound == AtLeast(config.buckets[b].max, config.buckets[b].cost)
  <2>1. bound \in Nat /\ config.buckets[b].max <= bound
    BY <1>2 DEF AtLeast
  <2>2. /\ level[w][b] + tokens[w][b] <= bound /\ level[w][b] <= bound
        /\ config.buckets[b].cost <= config.buckets[b].max => tokens[w][b] >= 0
    BY DEF IInv, RateInv, LevelInv
  <2> HIDE DEF bound
  <2>3. level'[w][b] + tokens'[w][b] <= bound /\ level'[w][b] <= bound
    BY <1>2, <1>5, <2>1, <2>2
  <2>4. config.buckets[b].cost <= config.buckets[b].max => tokens'[w][b] >= 0
    BY <1>5, <2>2
  <2> QED
    BY <1>5, <2>3, <2>4 DEF bound
<1>10. \A w \in Workers : \A b \in Buckets : \A r \in Rows :
         Waits(w, r, b)' => Waits(w, r, b) /\ step[r] \in Buckets
  BY <1>1, <1>4 DEF Waits
<1>11. DebtInv'
  <2> SUFFICES ASSUME NEW w \in Workers, NEW b \in Buckets, NEW r \in Rows, Waits(w, r, b)'
               PROVE  sleep'[r] <= 0 - tokens'[w][b] /\ level'[w][b] <= sleep'[r]
    BY <1>4 DEF DebtInv
  <2>1. sleep[r] <= 0 - tokens[w][b] /\ level[w][b] <= sleep[r]
    BY <1>10 DEF IInv, RateInv, DebtInv
  <2>2. sleep[r] > 0 /\ sleep'[r] = sleep[r] - 1
    BY <1>3, <1>6, <1>10
  <2> QED
    BY <1>2, <1>5, <2>1, <2>2
<1>12. ApartInv'
  <2> SUFFICES ASSUME NEW w \in Workers, NEW b \in Buckets, NEW r \in Rows, NEW q \in Rows,
                      Waits(w, r, b)', Waits(w, q, b)', r # q
               PROVE  \/ sleep'[r] - sleep'[q] >= config.buckets[b].cost
                      \/ sleep'[q] - sleep'[r] >= config.buckets[b].cost
    BY <1>1, <1>4 DEF ApartInv
  <2>1. \/ sleep[r] - sleep[q] >= config.buckets[b].cost
        \/ sleep[q] - sleep[r] >= config.buckets[b].cost
    BY <1>10 DEF IInv, RateInv, ApartInv
  <2> QED
    BY <1>2, <1>6, <1>10, <2>1
<1>13. ConcInv' /\ (\A q \in Rows : Scoring(q)' => Scoring(q))
  <2>1. InCall' = InCall
    BY <1>1 DEF InCall
  <2>2. ConcInv'
    <3>1. holders' = holders /\ calls' = calls /\ step' = step
      BY <1>1
    <3>2. ConcInv
      BY DEF IInv
    <3> QED
      BY <1>1, <3>1, <3>2 DEF ConcInv, WorkerOf, Rows, Workers, InCall
  <2>3. \A q \in Rows : Scoring(q)' => Scoring(q)
    BY <1>1, <2>1 DEF Scoring
  <2> QED
    BY <2>2, <2>3
<1> QED
  BY <1>1, <1>7, <1>8, <1>9, <1>11, <1>12, <1>13, LimiterLemma DEF RateInv

LEMMA NextIInv == IInv /\ [Next]_vars => IInv'
<1> SUFFICES ASSUME IInv, [Next]_vars PROVE IInv'
  OBVIOUS
<1>1. CASE ManagerSteps
  BY <1>1, ManagerIInv
<1>2. CASE StartRows
  BY <1>2, StartRowsIInv
<1>3. CASE TimePasses
  BY <1>3, TimeIInv
<1>4. ASSUME NEW r \in Rows, Row(r) PROVE IInv'
  <2>1. CASE Limiter(r)
    <3>1. UNCHANGED <<config, managerVars, state, turnVars, chooseVars>>
      BY <2>1 DEF Limiter
    <3>2. \/ Acquire(WorkerOf(r), r) \/ Enter(WorkerOf(r), r) \/ ThreadEnds(WorkerOf(r), r)
          \/ \E end \in Over : Leave(WorkerOf(r), r, end)
      BY <2>1 DEF Limiter
    <3> QED
      BY <3>1, <3>2, AcquireIInv, EnterIInv, ThreadEndsIInv, LeaveIInv
  <2> QED
    BY <1>4, <2>1, GenerateIInv, AnswersIInv, RaisesIInv, ToolsIInv, InteractIInv, ComputeScoreIInv,
       ArrivesIInv DEF Row
<1>5. CASE UNCHANGED vars
  <2>1. config' = config /\ UNCHANGED <<managerVars, state, turnVars, chooseVars>> /\ UNCHANGED limitVars
    BY <1>5 DEF vars
  <2>2. LimitTypeOK' /\ RateInv' /\ ConcInv'
    BY <2>1, SameLimits, SameRate, SameConc DEF IInv, TypeInv, TypeOK
  <2>3. \A q \in Rows : Scoring(q)' => Scoring(q)
    BY <2>1 DEF Scoring, InCall, limitVars
  <2> QED
    BY <2>1, <2>2, <2>3, LimiterLemma
<1> QED
  BY <1>1, <1>2, <1>3, <1>4, <1>5 DEF Next, ManagerSteps

-----------------------------------------------------------------------------
(* Theorems *)

\* The inductive invariant holds.
THEOREM Invariance == Spec => []IInv
<1> QED
  BY InitIInv, NextIInv, PTL DEF Spec

\* Every variable of the manager, the conversations and the limiter keeps its type; in
\* particular no response_mask outgrows what the model's context length leaves for it.
THEOREM TypeCorrect == Spec => []TypeOK
<1>1. IInv => TypeOK
  BY DEF IInv, TypeInv
<1> QED
  BY <1>1, Invariance, PTL

\* No request of generate is on a server that sleeps or has the weights of an earlier step.
THEOREM AwakeAndFreshHolds == Spec => []AwakeAndFresh
<1>1. IInv => AwakeAndFresh
  <2> SUFFICES ASSUME IInv, NEW r \in Rows, state[r] = "waiting"
               PROVE  awake[server[r]] /\ weights[server[r]] = batch
    BY DEF AwakeAndFresh
  <2>1. server[r] \in Servers
    BY DEF IInv, TypeInv, TypeOK
  <2>2. manager \in {"serve", "failed"}
    BY DEF IInv, PhaseInv, TypeInv, TypeOK
  <2> QED
    BY <2>1, <2>2 DEF IInv, AwakeInv
<1> QED
  BY <1>1, Invariance, PTL

\* The token buckets and the semaphore of every worker keep their limits, for every number
\* of concurrent calls, with any debt, and whatever times out.
THEOREM LimitsHoldAlways == Spec => []LimitsHold
<1>1. IInv => LimitsHold
  <2> SUFFICES ASSUME IInv PROVE LimitsHold
    OBVIOUS
  <2>1. RateHolds
    BY DEF IInv, RateInv, LevelInv, RateHolds
  <2>2. ConcurrencyHolds
    <3> SUFFICES ASSUME NEW w \in Workers
                 PROVE  Cardinality({r \in calls[w] : step[r] = InCall \/ ~config.sync}) <= config.concurrent
      BY DEF ConcurrencyHolds
    <3> DEFINE S == {r \in calls[w] : step[r] = InCall \/ ~config.sync}
    <3>1. config \in Configs /\ holders[w] \in SUBSET Rows /\ S \in SUBSET holders[w]
      BY DEF IInv, TypeInv, TypeOK, LimitTypeOK, ConcInv
    <3>2. IsFiniteSet(holders[w]) /\ config.concurrent \in Nat
      BY <3>1, RowsFinite, ConfigFields
    <3>3. Cardinality(holders[w]) <= config.concurrent
      BY DEF IInv, ConcInv
    <3>4. /\ Cardinality(S) <= Cardinality(holders[w]) /\ Cardinality(holders[w]) \in Nat
          /\ Cardinality(S) \in Nat
      BY <3>1, <3>2, FS_Subset, FS_CardinalityType
    <3> HIDE DEF S
    <3>5. Cardinality(S) <= config.concurrent
      BY <3>2, <3>3, <3>4
    <3> QED
      BY <3>5 DEF S
  <2> QED
    BY <2>1, <2>2 DEF LimitsHold
<1> QED
  BY <1>1, Invariance, PTL

=============================================================================
