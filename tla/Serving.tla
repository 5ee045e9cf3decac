------------------------------ MODULE Serving ------------------------------
(***************************************************************************)
(* Generation of a batch by the base agent loops: AgentLoopManager and     *)
(* AgentLoopWorker (experimental/agent_loop/agent_loop.py), the server     *)
(* manager of each worker, the state machine of ToolAgentLoop, the replicas'*)
(* sleep and wake-up, and the score of every conversation by the worker's  *)
(* rate limited reward loop.                                               *)
(***************************************************************************)
EXTENDS RateLimit

CONSTANTS
  NServers,     \* rollout replicas
  Configs,      \* the configurations explored, see Configuration
  MaxMessage    \* bound: tokens of a turn of the model, a tool response, a user message

Servers == 1..NServers

\* rows of a batch, batches, agent loop workers, max_cache_size, response_length, the part of
\* prompt_length the prompts leave free, max_assistant_turns and max_user_turns (0: none),
\* whether interactions are configured, whether tools and interactions may give what their
\* handler raises on, the limits of the reward loop, and the keys of what the reward function
\* returns ({"acc"} for a number).
Configuration ==
  [rows : Nat \ {0}, batches : Nat \ {0}, workers : Nat \ {0}, cache : Nat \ {0},
   response_length : Nat \ {0}, free : Nat, assistant : Nat, user : Nat,
   interactions : BOOLEAN, raises : BOOLEAN, buckets : Seq(Bucket), concurrent : Nat \ {0},
   sync : BOOLEAN, keys : {{"acc"}, {"score"}, {"acc", "score"}}]
ASSUME ServingAssumption ==
  /\ {NServers, MaxMessage} \subseteq Nat \ {0}
  /\ Configs \subseteq Configuration
  /\ \A c \in Configs : c.rows % c.workers = 0   \* chunk asserts it

VARIABLES
  manager,      \* what generate_sequences of the manager is at
  batch,
  awake, weights,   \* per replica, and the step of the weights it holds
  state,        \* AgentState of each row's agent loop, and what surrounds it
  server,       \* where its request is
  mask,         \* length of its response_mask
  assistant_turns, user_turns,
  counts,       \* weighted_serveres of each worker's manager
  request_id_to_server,  \* its LRU cache: <<batch, row, server>>, least recent first
  visited       \* history: the servers each row's conversation has been on

managerVars == <<manager, batch, awake, weights>>
turnVars == <<mask, assistant_turns, user_turns>>
chooseVars == <<server, counts, request_id_to_server, visited>>
vars == <<config, managerVars, state, turnVars, chooseVars, limitVars>>

States == {"idle", "generating", "waiting", "tools", "interacting", "terminated", "scoring", "done"}

TypeOK ==
  /\ config \in Configuration
  /\ LimitTypeOK
  /\ manager \in {"wake_up", "serve", "sleep", "done", "failed"}
  /\ batch \in 1..config.batches
  /\ awake \in [Servers -> BOOLEAN]
  /\ weights \in [Servers -> 0..batch]
  /\ state \in [Rows -> States]
  /\ server \in [Rows -> Servers]
  /\ mask \in [Rows -> 0..config.response_length + AtLeast(config.free, MaxMessage - 1)]
  /\ {assistant_turns, user_turns} \subseteq [Rows -> Nat]
  /\ counts \in [Workers -> [Servers -> Nat]]
  /\ request_id_to_server \in [Workers -> Seq((1..batch) \X Rows \X Servers)]
  /\ visited \in [Rows -> SUBSET Servers]

Init ==
  /\ config \in Configs
  /\ LimitInit
  /\ manager = "wake_up" /\ batch = 1
  /\ awake = [s \in Servers |-> FALSE] /\ weights = [s \in Servers |-> 0]
  /\ state = [r \in Rows |-> "idle"]
  /\ server = [r \in Rows |-> 1]
  /\ mask = [r \in Rows |-> 0]
  /\ assistant_turns = mask /\ user_turns = mask
  /\ counts = [w \in Workers |-> [s \in Servers |-> 0]]
  /\ request_id_to_server = [w \in Workers |-> <<>>]
  /\ visited = [r \in Rows |-> {}]

-----------------------------------------------------------------------------
(* AgentLoopManager.generate_sequences *)

\* A replica wakes up, and in hybrid mode takes over the trainer's weights.
WakeUp(s) ==
  /\ manager = "wake_up" /\ ~awake[s]
  /\ awake' = [awake EXCEPT ![s] = TRUE]
  /\ weights' = [weights EXCEPT ![s] = batch]
  /\ UNCHANGED <<config, manager, batch, state, turnVars, chooseVars, limitVars>>

\* A plausible fault: the calls of wake_up are not awaited.
SomeAwake == \E s \in Servers : awake[s]

AllAwake == \A s \in Servers : awake[s]

\* The workers get their chunks and start a task for every row, with a request id of its own.
StartRows ==
  /\ manager = "wake_up" /\ AllAwake
  /\ manager' = "serve"
  /\ state' = [r \in Rows |-> "generating"]
  /\ mask' = [r \in Rows |-> 0]
  /\ assistant_turns' = mask' /\ user_turns' = mask'
  /\ visited' = [r \in Rows |-> {}]
  /\ step' = [r \in Rows |-> NotCalled]
  /\ UNCHANGED <<config, batch, awake, weights, server, counts, request_id_to_server,
                 timeVars, paid, holders, calls>>

\* The worker a row is dispatched to by chunk, and the rows of a worker.
WorkerOf(r) == (r - 1) \div (config.rows \div config.workers) + 1
RowsOf(w) == {r \in Rows : WorkerOf(r) = w}
First(w) == (w - 1) * (config.rows \div config.workers) + 1

\* _postprocess of a worker looks up the first row's keys in every row's reward_extra_info.
FindsKeys(w) == \A r \in RowsOf(w) : ExtraKeys(First(w)) \subseteq ExtraKeys(r)

\* A worker's gather returns and _postprocess raises KeyError; so does ray.get, whatever the
\* other workers still do.
PostprocessRaises(w) ==
  /\ manager = "serve" /\ \A r \in RowsOf(w) : state[r] = "done"
  /\ ~FindsKeys(w)
  /\ manager' = "failed"
  /\ UNCHANGED <<config, batch, awake, weights, state, turnVars, chooseVars, limitVars>>

\* ray.get returns what every worker has made of its rows, which concat only takes when all
\* have the same keys; then the replicas are put to sleep.
Gather ==
  /\ manager = "serve" /\ \A r \in Rows : state[r] = "done"
  /\ \A w \in Workers : FindsKeys(w)
  /\ manager' = IF \A w \in Workers : ExtraKeys(First(w)) = ExtraKeys(First(1))
                 THEN "sleep" ELSE "failed"
  /\ UNCHANGED <<config, batch, awake, weights, state, turnVars, chooseVars, limitVars>>

Sleep(s) ==
  /\ manager = "sleep" /\ awake[s]
  /\ awake' = [awake EXCEPT ![s] = FALSE]
  /\ UNCHANGED <<config, manager, batch, weights, state, turnVars, chooseVars, limitVars>>

\* The batch is returned; the trainer makes a step and calls with the next one.
Return ==
  /\ manager = "sleep" /\ \A s \in Servers : ~awake[s]
  /\ IF batch < config.batches
     THEN manager' = "wake_up" /\ batch' = batch + 1
     ELSE manager' = "done" /\ UNCHANGED batch
  /\ UNCHANGED <<config, awake, weights, state, turnVars, chooseVars, limitVars>>

-----------------------------------------------------------------------------
(* AsyncLLMServerManager *)

\* The entry of row r's request id in its worker's cache.
Entries(r) ==
  LET cache == request_id_to_server[WorkerOf(r)]
  IN  {k \in DOMAIN cache : cache[k][1] = batch /\ cache[k][2] = r}

Without(cache, k) == SubSeq(cache, 1, k - 1) \o SubSeq(cache, k + 1, Len(cache))

\* Server s is on top of the heap of [count, idx, server].
Least(w, s) ==
  \A q \in Servers :
    counts[w][s] < counts[w][q] \/ (counts[w][s] = counts[w][q] /\ s <= q)

\* A plausible fault: the cache evicts its newest entry.
EvictsNewest(cache) == IF Len(cache) = config.cache THEN SubSeq(cache, 1, Len(cache) - 1) ELSE cache

\* LRUCache makes room for an entry.
MakesRoom(cache) == IF Len(cache) = config.cache THEN Tail(cache) ELSE cache

\* _choose_server: the server of this request id, which becomes the most recent one, or else
\* the least used one, whose count goes up and never down again.
_choose_server(r) ==
  LET w == WorkerOf(r)
      cache == request_id_to_server[w]
  IN  /\ \/ \E k \in Entries(r) :
              /\ server' = [server EXCEPT ![r] = cache[k][3]]
              /\ request_id_to_server' = [request_id_to_server EXCEPT
                                            ![w] = Append(Without(cache, k), cache[k])]
              /\ UNCHANGED counts
         \/ \E s \in Servers :
              /\ Entries(r) = {} /\ Least(w, s)
              /\ server' = [server EXCEPT ![r] = s]
              /\ counts' = [counts EXCEPT ![w][s] = @ + 1]
              /\ request_id_to_server' = [request_id_to_server EXCEPT
                                            ![w] = Append(MakesRoom(cache), <<batch, r, s>>)]
      /\ visited' = [visited EXCEPT ![r] = @ \cup {server'[r]}]

-----------------------------------------------------------------------------
(* ToolAgentLoop *)

\* A plausible fault: max_tokens does not count what the conversation holds already.
MaxTokensOfTurn(r) == config.response_length

\* The server's max_tokens, with max_model_len = prompt_length + response_length.
MaxTokens(r) == config.response_length + config.free - mask[r]

\* AgentState.GENERATING: the server is chosen and called.
Generate(r) ==
  /\ manager = "serve" /\ state[r] = "generating"
  /\ _choose_server(r)
  /\ state' = [state EXCEPT ![r] = "waiting"]
  /\ UNCHANGED <<config, managerVars, turnVars, limitVars>>

\* The limits that end a conversation after a turn of the model.
Enough(r, len) ==
  \/ len >= config.response_length
  \/ config.assistant # 0 /\ assistant_turns[r] + 1 >= config.assistant
  \/ config.user # 0 /\ user_turns[r] >= config.user

\* The server answers with a turn of t tokens, which holds tool calls or not.
ServerAnswers(r) ==
  /\ manager = "serve" /\ state[r] = "waiting" /\ MaxTokens(r) >= 0
  /\ \E t \in (IF MaxTokens(r) = 0 THEN {0} ELSE 1..AtMost(MaxMessage, MaxTokens(r))), tools \in BOOLEAN :
       /\ mask' = [mask EXCEPT ![r] = @ + t]
       /\ assistant_turns' = [assistant_turns EXCEPT ![r] = @ + 1]
       /\ state' = [state EXCEPT ![r] =
            IF Enough(r, mask[r] + t) THEN "terminated" ELSE IF tools THEN "tools"
            ELSE IF config.interactions THEN "interacting" ELSE "terminated"]
  /\ UNCHANGED <<config, managerVars, user_turns, chooseVars, limitVars>>

\* The server raises on a prompt longer than max_model_len (the engine may as well when no
\* token is left); so do the task, the gather of the worker, and ray.get of the manager.
ServerRaises(r) ==
  /\ manager = "serve" /\ state[r] = "waiting" /\ MaxTokens(r) <= 0
  /\ manager' = "failed"
  /\ UNCHANGED <<config, batch, awake, weights, state, turnVars, chooseVars, limitVars>>

\* PROCESSING_TOOLS: all calls have answered, errors included; a response that does not fit
\* is dropped and ends the conversation.
ProcessTools(r) ==
  /\ manager = "serve" /\ state[r] = "tools"
  /\ \E t \in 1..MaxMessage :
       IF mask[r] + t >= config.response_length
       THEN /\ state' = [state EXCEPT ![r] = "terminated"]
            /\ UNCHANGED <<mask, user_turns>>
       ELSE /\ state' = [state EXCEPT ![r] = "generating"]
            /\ mask' = [mask EXCEPT ![r] = @ + t]
            /\ user_turns' = [user_turns EXCEPT ![r] = @ + 1]
  /\ UNCHANGED <<config, managerVars, assistant_turns, chooseVars, limitVars>>

\* The handler raises: on a video, on an image without a processor, when a tool's release or
\* an interaction's generate_response does.  The task, the gather and ray.get follow.
HandlerRaises(r) ==
  /\ manager = "serve" /\ state[r] \in {"tools", "interacting"} /\ config.raises
  /\ manager' = "failed"
  /\ UNCHANGED <<config, batch, awake, weights, state, turnVars, chooseVars, limitVars>>

\* INTERACTING: the user's message is taken in whole, whatever its length.
Interact(r) ==
  /\ manager = "serve" /\ state[r] = "interacting"
  /\ \E t \in 1..MaxMessage, should_terminate \in BOOLEAN :
       /\ mask' = [mask EXCEPT ![r] = @ + t]
       /\ user_turns' = [user_turns EXCEPT ![r] = @ + 1]
       /\ state' = [state EXCEPT ![r] = IF should_terminate THEN "terminated" ELSE "generating"]
  /\ UNCHANGED <<config, managerVars, assistant_turns, chooseVars, limitVars>>

\* _agent_loop_postprocess: the response is cut to response_length and scored.
ComputeScore(r) ==
  /\ manager = "serve" /\ state[r] = "terminated"
  /\ state' = [state EXCEPT ![r] = "scoring"]
  /\ mask' = [mask EXCEPT ![r] = AtMost(config.response_length, @)]
  /\ CallScore(r)
  /\ UNCHANGED <<config, managerVars, assistant_turns, user_turns, chooseVars,
                 timeVars, paid, holders, calls>>

ScoreArrives(r) ==
  /\ manager = "serve" /\ state[r] = "scoring" /\ step[r] \in Over
  /\ state' = [state EXCEPT ![r] = "done"]
  /\ UNCHANGED <<config, managerVars, turnVars, chooseVars, limitVars>>

\* The reward loop worker of row r goes on with it.
Limiter(r) ==
  /\ LET w == WorkerOf(r)
     IN  \/ Acquire(w, r) \/ Enter(w, r) \/ ThreadEnds(w, r)
         \/ \E end \in Over : Leave(w, r, end)
  /\ UNCHANGED <<config, managerVars, state, turnVars, chooseVars>>

TimePasses ==
  /\ Tick
  /\ UNCHANGED <<config, managerVars, state, turnVars, chooseVars>>

-----------------------------------------------------------------------------

Row(r) ==
  \/ Generate(r) \/ ServerAnswers(r) \/ ServerRaises(r) \/ ProcessTools(r) \/ HandlerRaises(r)
  \/ Interact(r) \/ ComputeScore(r) \/ ScoreArrives(r) \/ Limiter(r)

Next ==
  \/ \E s \in Servers : WakeUp(s) \/ Sleep(s)
  \/ \E w \in Workers : PostprocessRaises(w)
  \/ StartRows \/ Gather \/ Return \/ TimePasses
  \/ \E r \in Rows : Row(r)

\* Whatever can go on does, in some order.
Spec == Init /\ [][Next]_vars /\ WF_vars(Next)

-----------------------------------------------------------------------------
(* Properties *)

\* No request is on a replica that sleeps or still has the weights of an earlier step: the
\* manager wakes all before the first and puts none to sleep before the last is over.
AwakeAndFresh ==
  \A r \in Rows : state[r] = "waiting" => awake[server[r]] /\ weights[server[r]] = batch

\* Sticky sessions: the turns of a conversation stay on one server as long as the cache has
\* room for the rows a worker serves at a time, whatever it still holds of earlier batches.
\* Load: a worker's conversations, evictions included, are spread over the servers evenly.
StickyAndSpread ==
  /\ config.cache >= config.rows \div config.workers =>
       \A r \in Rows : Cardinality(visited[r]) <= 1
  /\ \A w \in Workers : \A s, q \in Servers : counts[w][s] <= counts[w][q] + 1

\* The limits of the reward loop, per worker process.
LimitsHold == RateHolds /\ ConcurrencyHolds

\* A conversation waits for a server that has no token left for its answer, which only the
\* whole message of a user can do, or is at a handler that may raise.
AnswerRaises ==
  \E r \in Rows :
    \/ config.interactions /\ state[r] = "waiting" /\ MaxTokens(r) <= 0
    \/ config.raises /\ state[r] \in {"tools", "interacting"}

\* The rewards of two rows ended in different ways (a number, a timeout, an error).
RewardsDiffer ==
  \E r, q \in Rows : state[r] = "done" /\ state[q] = "done" /\ ExtraKeys(r) # ExtraKeys(q)

\* Every batch comes back, whatever limits hold it up: no token bucket, semaphore, timed-out
\* call or full cache keeps it for ever, and the job only fails on an answer that raises or
\* on rewards of one batch that ended differently.
Served ==
  <>(manager = "done" \/ (manager = "failed" /\ (AnswerRaises \/ RewardsDiffer)))

=============================================================================
