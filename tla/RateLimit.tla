----------------------------- MODULE RateLimit -----------------------------
(***************************************************************************)
(* RateLimitedRewardManager and AsyncTokenBucket (experimental/reward_loop *)
(* /reward_manager/limited.py): run_single of a row goes through the       *)
(* token buckets, then the semaphore, then calls the reward function, and  *)
(* gives up after a timeout.                                               *)
(*                                                                         *)
(* Buckets and semaphore are class attributes, so that every reward loop   *)
(* worker, a process of its own, has its own.  Time goes in ticks, and the *)
(* tokens of a bucket are counted in what its rate gives in one, so that   *)
(* every rate is 1.  The code refills a bucket when it looks at it, the    *)
(* model as time goes.                                                     *)
(***************************************************************************)
EXTENDS Integers, Sequences, FiniteSets

VARIABLES
  config,    \* see Serving; here: rows, workers, buckets, concurrent, sync, keys
  tokens,    \* per worker and bucket
  step,      \* where run_single of a row is: the bucket, or one of the places below; how it ended
  sleep,     \* ticks its asyncio.sleep still takes
  paid,      \* it has taken its tokens already (more than the bucket holds)
  holders,   \* per worker: rows in the semaphore
  calls,     \* per worker: rows whose call still runs (or one of theirs of an earlier batch)
  level      \* history: a leaky bucket of what went through, per worker and bucket

timeVars == <<tokens, sleep, level>>
limitVars == <<timeVars, step, paid, holders, calls>>

Rows == 1..config.rows
Workers == 1..config.workers
Buckets == DOMAIN config.buckets
NotCalled == 0
InQueue == Len(config.buckets) + 1     \* waits for the semaphore
InCall == Len(config.buckets) + 2
Scored == Len(config.buckets) + 3      \* the reward function has answered,
TimedOut == Len(config.buckets) + 4    \* wait_for has given up on it,
Raised == Len(config.buckets) + 5      \* or it has raised
Over == {Scored, TimedOut, Raised}

\* max_tokens, and what a call acquires.
Bucket == [max : Nat \ {0}, cost : Nat \ {0}]

LimitTypeOK ==
  /\ tokens \in [Workers -> [Buckets -> Int]]
  /\ step \in [Rows -> NotCalled..Raised]
  /\ sleep \in [Rows -> Nat]
  /\ paid \in [Rows -> BOOLEAN]
  /\ {holders, calls} \subseteq [Workers -> SUBSET Rows]
  /\ level \in [Workers -> [Buckets -> Nat]]

LimitInit ==
  /\ tokens = [w \in Workers |-> [b \in Buckets |-> config.buckets[b].max]]
  /\ step = [r \in Rows |-> NotCalled]
  /\ sleep = [r \in Rows |-> 0] /\ paid = [r \in Rows |-> FALSE]
  /\ holders = [w \in Workers |-> {}] /\ calls = [w \in Workers |-> {}]
  /\ level = [w \in Workers |-> [b \in Buckets |-> 0]]

AtMost(bound, n) == IF n > bound THEN bound ELSE n
AtLeast(bound, n) == IF n < bound THEN bound ELSE n

-----------------------------------------------------------------------------

\* compute_score of row r: run_single begins.
CallScore(r) == step' = [step EXCEPT ![r] = 1]

\* A plausible fault: the wait is for what the call costs, as if the bucket were not in debt.
WaitIgnoringDebt(lacking, cost) == AtMost(cost, lacking)

\* wait_time: tokens_needed / rate_limit.
WaitTime(lacking, cost) == lacking

\* acquire returns: the row goes on to the next bucket or the semaphore.
Through(w, r) ==
  /\ step' = [step EXCEPT ![r] = @ + 1]
  /\ paid' = [paid EXCEPT ![r] = FALSE]
  /\ level' = [level EXCEPT ![w][step[r]] = @ + config.buckets[step[r]].cost]

\* AsyncTokenBucket.acquire between two suspensions.
Acquire(w, r) ==
  LET b == step[r]
      cost == config.buckets[b].cost
      lacking == cost - tokens[w][b]
      Pay == tokens' = [tokens EXCEPT ![w][b] = @ - cost]
      Sleep == sleep' = [sleep EXCEPT ![r] = WaitTime(lacking, cost)]
  IN  /\ b \in Buckets /\ sleep[r] = 0
      /\ \/ \* woken up after paying
            /\ paid[r]
            /\ Through(w, r) /\ UNCHANGED <<tokens, sleep>>
         \/ \* more than the bucket ever holds: into debt, and asleep until it is paid
            /\ ~paid[r] /\ cost > config.buckets[b].max
            /\ Pay /\ Sleep
            /\ paid' = [paid EXCEPT ![r] = TRUE]
            /\ UNCHANGED <<step, level>>
         \/ \* enough tokens
            /\ ~paid[r] /\ cost <= config.buckets[b].max /\ lacking <= 0
            /\ Pay /\ Through(w, r) /\ UNCHANGED sleep
         \/ \* not enough: asleep, then once more
            /\ ~paid[r] /\ cost <= config.buckets[b].max /\ lacking > 0
            /\ Sleep /\ UNCHANGED <<tokens, step, paid, level>>
      /\ UNCHANGED <<holders, calls>>

\* async with semaphore, and _compute_reward begins.
Enter(w, r) ==
  /\ step[r] = InQueue /\ Cardinality(holders[w]) < config.concurrent
  /\ step' = [step EXCEPT ![r] = InCall]
  /\ holders' = [holders EXCEPT ![w] = @ \cup {r}]
  /\ calls' = [calls EXCEPT ![w] = @ \cup {r}]
  /\ UNCHANGED <<timeVars, paid>>

\* A plausible fault: the semaphore is not released when the call times out.
KeptByTimeout(w, r, end) == IF end = TimedOut THEN holders[w] ELSE holders[w] \ {r}

\* The semaphore is released, however the call ended.
Released(w, r, end) == holders[w] \ {r}

\* The reward function returns or raises, or wait_for gives up: then a coroutine is
\* cancelled, but a function in a thread of the executor runs on.
Leave(w, r, end) ==
  /\ step[r] = InCall /\ end \in Over
  /\ step' = [step EXCEPT ![r] = end]
  /\ holders' = [holders EXCEPT ![w] = Released(w, r, end)]
  /\ calls' = IF end = TimedOut /\ config.sync THEN calls ELSE [calls EXCEPT ![w] = @ \ {r}]
  /\ UNCHANGED <<timeVars, paid>>

\* A thread nobody waits for any more ends.
ThreadEnds(w, r) ==
  /\ r \in calls[w] /\ step[r] # InCall
  /\ calls' = [calls EXCEPT ![w] = @ \ {r}]
  /\ UNCHANGED <<timeVars, step, paid, holders>>

\* The keys of the reward_extra_info that run_single returns.
ExtraKeys(r) ==
  CASE step[r] = Scored -> config.keys
    [] step[r] = TimedOut -> {"timeout", "acc"}
    [] step[r] = Raised -> {"error", "acc"}

\* Time goes on when the event loops have run what is due.
Tick ==
  /\ \A r \in Rows : step[r] \in Buckets => sleep[r] > 0
  /\ sleep' = [r \in Rows |-> AtLeast(0, sleep[r] - 1)]
  /\ tokens' = [w \in Workers |-> [b \in Buckets |-> AtMost(config.buckets[b].max, tokens[w][b] + 1)]]
  /\ level' = [w \in Workers |-> [b \in Buckets |-> AtLeast(0, level[w][b] - 1)]]
  /\ timeVars' # timeVars
  /\ UNCHANGED <<step, paid, holders, calls>>

-----------------------------------------------------------------------------
(* Properties *)

\* What a bucket lets through in any interval is at most what it holds plus what the rate
\* gives in that time: a leaky bucket fed with it never overflows.  A call that costs more
\* than the bucket holds counts in full when it starts.
RateHolds ==
  \A w \in Workers : \A b \in Buckets :
    level[w][b] <= AtLeast(config.buckets[b].max, config.buckets[b].cost)

\* At most max_concurrent calls of a worker run, but for those of a synchronous reward
\* function that have timed out.
ConcurrencyHolds ==
  \A w \in Workers :
    Cardinality({r \in calls[w] : step[r] = InCall \/ ~config.sync}) <= config.concurrent

=============================================================================
