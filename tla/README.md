# TeamTR: a TLA+ verification project

TeamTR is a fork of verl: reinforcement learning of language models with
several trainable agents on top of a distributed RL framework. Most of the
repository is tensor code. What is hard to get right is the control around it:
actors with an asyncio event loop each, which hand samples, weights, pauses and
cancellations to each other. This project models that control from the source
(`src/verl/...`), checks it with TLC and proves the central invariants with
TLAPS. All paths below are relative to `src/verl/`; `FA/` is
`experimental/fully_async_policy/`.

## 1. Inventory

| Component | State it keeps | Operations | Hard behaviour | What makes it correct |
|---|---|---|---|---|
| MessageQueue actor, `FA/message_queue.py` | deque, counters, `running`, validation results | `put_sample`, `get_sample`, `update_param_version`, `clear_queue`, `shutdown`, `put_validate`, `get_validate` | a put on a full queue drops the oldest; `get_sample` waits on a condition; wake-ups race | FIFO, bounded, no lost wake-up, `shutdown` releases everybody |
| FullyAsyncRollouter, `FA/fully_async_rollouter.py` | `pending_queue`, `cancel_queue`, `active_tasks`, `paused`, `running`, `staleness_samples`, `monitor_loop_trigger`, lock and condition | feeder, processor, one task per sample, monitor, `pause`, `resume`, `update_param_version`, end signal | six kinds of coroutine share a FIFO lock that some hold across awaits; checks and effects are separated by lock waits | never more samples out than agreed, no sample lost, no deadlock, pauses last until resume |
| FullyAsyncTrainer, `FA/fully_async_trainer.py` | batch, `local_trigger_step`, `current_param_version` | `_get_samples_from_queue`, `fit`, `_trigger_parameter_sync_after_step` | ends when the final None arrives, with a last synchronisation | freshness of what it trains on, it terminates |
| ParameterSynchronizer, `FA/param_sync.py` | references to the last `update_param_version` and `resume` | `sync_weights`, `wait_last_valid` | leaves two calls running in the background | weights change under no running request |
| FullyAsyncTaskRunner, `FA/fully_async_main.py` | handles | initialises, runs both `fit` | - | - |
| Partial rollout servers, `FA/vllm_rollout`, `FA/sglang_rollout` | `paused`, an event and an output per request | `generate_for_partial`, `cancel`, `resume` | end of a generation races with its cancellation | every open request is interrupted, nothing complete is called cancelled |
| Partial agent loops and manager, `FA/agent_loop` | `AgentData` and state per trajectory, `cancellation_event` per worker | state machine, `generate_sequences_no_post`, `cancel`, `resume` | cancel reaches servers and workers in any order; resumption from a saved state | tokens and masks aligned, calls executed, pause and sample finish |
| Checkpoint managers and `_save_checkpoint`, `utils/checkpoint/`, `trainer/ppo/ray_trainer.py` | directories per step, manager and rank; list of saved paths; tracker file | make room, write, register and prune, track; load | a crash between any two files; pruning while others still save | the tracked checkpoint is whole and of one moment |
| PPO trainer loop, `trainer/ppo/ray_trainer.py` | global step, dataloader position, the batch | route, filter, generate, balance, log-probs, update, save, resume | resumption in the middle of an epoch; skipped steps | no batch twice, none lost, the end is saved |
| One-step-off trainer, `experimental/one_step_off_policy/` | one generation in flight | generate the next batch while training on this one | off-by-one at start, restart and end | at most one step off |
| TeamTR routing, `trainer/ppo/ray_trainer.py`, `teamtr/` | agent of each row | repair ids, force, filter by target | rows of several agents in one batch | each row trains the agent that wrote it |
| Multi-agent workers, `workers/fsdp_workers.py`, `workers/actor/dp_actor.py`, `workers/rollout/multi_agent_hf_rollout.py` | one sharded model per agent | per-agent passes, stitching | all ranks must enter the same collectives in the same order | no mismatch, rows back in place |
| Single controller, DataProto, sequence balancing | the rows | chunk, concat, pad, reorder, partition | sizes nothing divides | no row lost or doubled, even parts |
| Base agent loop and server manager, `experimental/agent_loop/` | state per conversation; heap of servers and LRU of request ids per worker | wake, serve, sleep; choose a server; turns, tools, interactions | eviction while conversations run; limits that end one; an exception fails the batch | one conversation, one server; no batch waits for ever |
| Rollout replicas, `workers/rollout/replica.py` | awake or asleep, weights | `wake_up`, `sleep` around every batch | requests to a replica that sleeps | none |
| Reward loop, `experimental/reward_loop/` | token buckets and semaphore per worker | acquire, call with a timeout | debt, concurrent sleepers, threads that outlive their timeout | rate and concurrency bounds, progress |
| Checkpoint engines, `FA/checkpoint_engine.py`, `checkpoint_engine/` | two buffers, buckets | bucketed broadcast | buffer reuse across ranks | every tensor arrives once and whole |
| Core algorithms, model engines, datasets, tools, tracking | | | floating point, I/O | |

How they interact: the rollouter calls the servers through its agent loop
manager and puts results into the message queue; the trainer takes batches from
the queue, trains, and calls the synchronizer, which calls `pause` on the
rollouter, transfers weights, and launches `update_param_version` and `resume`
(the latter depends on the former) without waiting; before its next
synchronisation the trainer waits for both. The synchronous trainers call the
agent loop manager for a whole batch, which wakes the replicas, spreads the rows
over agent loop workers and puts the replicas to sleep again; each worker scores
its rows through a reward loop worker of its own. What the trainer does with the
batch it does through worker groups: each operation goes to every rank with an
equal chunk. Between steps the trainers write checkpoints, and after a crash the
job is started again and reads them.

The hazards of this code, each at its line, are listed in `PROJECT.json`.

## 2. Modules

| Module | Models | Kind |
|---|---|---|
| `DropQueue` | the deque of the message queue as operators | shared data structure |
| `MessageQueue` | the message queue actor, one action per method (`get_sample`: one per stretch between suspensions) | component |
| `LossyFifo` | what a message queue of that kind promises | abstract specification of `MessageQueue` |
| `MC_MessageQueue` | two consumers | MC module |
| `MessageQueue_proofs` | theorems about `MessageQueue` | proofs |
| `Rollouter` | the rollouter's event loop, coroutine by coroutine | component |
| `FullyAsync` | rollouter, trainer, synchronizer and queue together | composition |
| `Rounds` | what training with `staleness_threshold = 0` promises: on-policy rounds | abstract specification of `FullyAsync` |
| `PartialRollout` | servers, worker, tool-agent trajectories, cancel and resume | component |
| `PartialRollout_proofs` | theorems about `PartialRollout` | proofs |
| `FullyAsync_proofs` | theorems about `FullyAsync` with `Rollouter` | proofs |
| `Checkpoint` | saving, pruning and loading on disk, file by file | component |
| `Training` | the three training loops over `Checkpoint`, with crashes and restarts | composition |
| `Restartable` | what checkpointing promises: going on from the last durable state | abstract specification of `Training` |
| `MC_Training` | seven configurations | MC module |
| `Training_proofs` | theorems about `Training` | proofs |
| `Balance` | `karmarkar_karp` as a machine that merges two states of its heap | component |
| `Balance_proofs` | lemmas about `Balance`: choices from sorted sets, the heap's invariant | proofs |
| `TeamStep` | one batch of a team on the ranks, over `Balance` | composition |
| `MC_TeamStep` | labellings, routers and targets | MC module |
| `TeamStep_proofs` | theorems about `TeamStep` with `Balance` | proofs |
| `RateLimit` | token buckets, semaphore and timeouts of the reward loop | component |
| `Serving` | manager, workers, servers and conversations, over `RateLimit` | composition |
| `MC_Serving` | four configurations | MC module |
| `Serving_proofs` | types, sleeping replicas, limits | proofs |
| `Stickiness_proofs` | the server manager's cache and load | proofs |

The modules form three families that share no state: the fully asynchronous
pipeline (`MessageQueue`, `Rollouter`, `FullyAsync`, `PartialRollout`), the training
loops around a checkpoint (`Checkpoint`, `Training`), and what happens inside one
batch (`TeamStep` on the ranks, `Serving` on the servers). Where one needs the
other it takes it as one step: `Training` takes a batch's generation as the moment
it is awaited, `FullyAsync` a server's generation as an answer.

`FullyAsync` and `PartialRollout` are run directly with their `.cfg` files, as all
their constants are plain values.

### MessageQueue

`queue`, `val_queue`, `running` and the counters are the actor's fields. A sample
is its put number, so the order of the deque can be stated. Methods that hold
the lock without suspending are one action. `get_sample(c)` is the entry,
`ResumeGet(c)` the stretch after a notification; both look at the queue again
(`LookAgain`), as the code's `while` does. `getter[c]` says where the call is.
The actor admits `max_concurrency` calls; `QueueAssumption` says that fewer
consumers than that block in it (one in the program, twenty admitted), without
which puts could not get in. `delivered` and the mapping `Gone` are there for the
refinement only. The `deque` has a bound of its own (`maxlen`), which discards the
oldest element as well (`Within`); `put_sample` makes room first, so that it never
acts, but a put that forgot to would drop a sample nobody counts.

### Rollouter and FullyAsync

An asyncio event loop is deterministic between suspensions, and the races in
this code live in what happens *at* them. So the model has the loop: `ready` is
its FIFO of runnable coroutines; an action of the rollouter is a stretch of the
coroutine at the head (`Runs(c)`), which either goes on (`Goes`), suspends
(`Suspends`) or wakes others. The lock is FIFO with direct hand-over to the first
waiter (`lockQ`), as `asyncio.Lock` behaves; the condition has one waiter. Other
processes (queue actor, servers, timers, trainer) step at any time.

| Code | Model |
|---|---|
| `_feed_samples` | `Feed`; `pending_queue` holds `taken+1 .. fed` |
| `_processor_worker` | `ppc` and `goal`: the three loops that wait for tasks (to drain before a pause, to get below `max_concurrent_samples`, to finish at the end) are one set of actions with three goals |
| `asyncio.wait(FIRST_COMPLETED)` | `WaitReturns`: the callback that wakes the processor runs as a loop step of its own, so that tasks may end in between |
| `_process_single_sample_streaming` | `phase[i]` of sample `i`; its server and its put are `ServerAnswers`, `QueuePuts`, `QueueAnswers` |
| `pause`, `update_param_version`, `resume` | `spc`, one call at a time, as the synchronizer makes them |
| `_async_monitor_loop` | `MonitorChecks`, then, after the lock, `MonitorUnpauses` |
| end of `_streaming_generation_main` | `MainCalls`, `MainNonePut`, `MainAsksLock`, `MainStops` |
| `active_tasks` | `NActive`: the unfinished tasks and those finished but not yet removed |
| trainer | `Collect`, `Train`, `SyncWeights`, `TransferBegins`, `TransferEnds`, `LastBatchDone`, `FitEnds` |

Abstractions: the first synchronisation is the initial state (it precedes both
`fit` calls); the argument of `resume` is resolved by Ray before the call, so
`resume` enters after `update_param_version` returned, and since the calls of one
synchronisation have one `spc`, the next cannot begin before they are over, as
`wait_last_valid` has it; the monitor's other lock
acquisition, at the top of its loop, only reads `running` and is merged into the
timer; validation is the await it costs. When `pause` has emptied `active_tasks` while
the processor waited for the lock, the code awaits `done_tasks` of the last wait again,
which does nothing, or, before the first wait, reads a name that is not bound, which
ends the processor (`waited`, `ProcAwait`). `used[i]` is the version that the servers had for
the last segment of sample `i`; with partial rollout the code keeps the first one too
(`param_version_start`). Whether a server is cancelled is decided when the task sends
its request; `PartialRollout` has what may happen on the way.

### PartialRollout

One sample with its trajectories, from rollouter's point of view a single task.
`at[t]` is where trajectory `t` is suspended, `state[t]` its `AgentState`,
`kept[t]` the tokens of the current turn already in `prompt_ids`, `req_output[t]`
those the engine produced for the open request. `cancel` and `resume` are a set of
calls, `open_calls`, that servers and worker execute in any order. `Submit` may
happen during a pause, since the monitor can undo one (finding 2). A server's lock
is never held across a suspension, so its two sections are actions. A tool call is
the position of its first token in its turn; it is complete when the turn ends.

### Checkpoint and Training

A step's directory `global_step_<s>` holds a directory per manager (`dirs[m]`: one
manager for each actor agent, and the critic) with a file per rank
(`shard[s][<<m, r>>]`: `{}` when missing or torn), and `data.pt` (`data[s]`). `stage`
is where `_save_checkpoint` is; `previous_saved_paths` is in memory and empty after
a restart, as in the code. A model's weights are the history of the batches it was
updated with, so that equal weights mean an equal past.

| Code | Model |
|---|---|
| `ensure_checkpoint_capacity`, `register_checkpoint` | `EnsureCapacity`, `Register`, both through `Prune` |
| `FSDPCheckpointManager.save_checkpoint` on a rank | `WriteBegins`, `WriteEnds`, ranks in any order between the two barriers |
| `torch.save(data.pt)` | `SaveData` |
| `open(tracker, "w")` and the write | `TruncateTracker`, `WriteTracker` |
| `_load_checkpoint` | `FromScratch`, `Resume`, `CannotResume` |
| `fit`, synchronous | `NextBatch`, `Train`, `Save` or `NoSave`, `DataEnds` |
| `fit`, one step off | `SyncWeights`, `Launch`, `Await`, `AwaitNone` besides |
| `fit`, fully asynchronous, and `_feed_samples` | `Feed`, `Await`, `AwaitNone`, `LastCheckpoint` besides |
| the job dies, and is started again | `Crash` |

Abstractions: the fully asynchronous mode has one batch and one step for each
parameter version, and `Ahead` bounds the feeder's lead (pending queue and samples
in flight); its one sample beyond the total is left out. After its loop one more
synchronisation may follow, with a version number but no update (`FinalVersion`), before
the last chance to save (`LastCheckpoint`). `should_save_ckpt_esi`
(an instance about to expire) may be true at any step. `data.pt` is one action
because nobody reads it before the tracker names its step. Whether an iterator
restored at the end of an epoch is over at once or begins a new one is the
library's business and left open. The folder of the tracked step is never removed
as a whole (each manager removes its own part), so the fallback of
`_load_checkpoint` for a missing folder is never taken. `durable` is a history
variable: what memory held when the tracker was last written.

### Balance and TeamStep

The state is the batch itself: `rows[i]` has the prompt, the agent, whose output and
which prompt's response it holds, and which agents computed its log-probs and
trained on it. `phase` is the driver's place in `fit` or `_validate`; `todo[r]` and
`passes[r]` say which agents rank `r` still works on and how many collectives it has
been through. A forward or backward pass of a sharded model is a collective of all
ranks: `Collective` is taken only if all ranks enter the same one, `Mismatch`
otherwise.

| Code | Model |
|---|---|
| `_ensure_agent_ids`, `teamtr_agent_id` | `EnsureAgentIds` |
| target filter and `repeat` in `fit` | `Select` |
| `pad_dataproto_to_divisor`, `unpad_dataproto` | `Pad`, `Unpadded` |
| `dispatch_dp_compute_data_proto` | `Dispatch`, `Collect` |
| `_iter_agent_batches`, micro- and mini-batches of `dp_actor.py` | `Turn`, `PassesOf`, `Entering` |
| the stitching of `multi_agent_hf_rollout.py` | `Answer` |
| `_balance_batch`, `karmarkar_karp` | `BalanceStarts`, `BalanceMerges`, `Reorder` |

Facts of the code the model keeps, though a reader may not expect them: the
stitching gives every row of an agent on a rank the first output of that agent
there; `random_batch` overwrites valid ids too; a router the code does not know
(the documented `round_robin` is one) sends unlabelled rows to agent 0; batches of
several agents (as README's `teamtr_router: random` makes) may put ranks into
different collectives. An update goes through its rows `PpoEpochs` times. Generation is
one call of the library's `generate` for each agent and counts as one collective: with a
sharded model each token is a forward pass, and a rank whose responses are shorter
must go on with the others. The library does so (`synced_gpus`, which it chooses itself
under FSDP); the model trusts it, so `NeverMismatched` and `StepEnds` hold as far as it
does. Left out: the critic, REMAX, the reward model, dynamic batch
sizes and offloading.

### RateLimit and Serving

`manager` is where `AgentLoopManager.generate_sequences` is, `state[r]` the
`AgentState` of a row's conversation, `mask[r]` the length of its `response_mask`.
The server manager of a worker is `counts` (the heap) and `request_id_to_server` (the
LRU cache, least recent first). `step[r]` says at which bucket, or in the semaphore,
the reward call of row `r` is; `tokens`, `sleep`, `paid` are the buckets and their
sleepers.

| Code | Model |
|---|---|
| `wake_up`, `_run_all`, chunks, gathers, `sleep` | `WakeUp`, `StartRows`, `Gather`, `Sleep`, `Return` |
| `_postprocess` of a worker, `DataProto.concat` of their outputs | `PostprocessRaises`, the other branch of `Gather` |
| `_choose_server` | `_choose_server`, part of `Generate` |
| `_handle_generating_state` | `Generate`, `ServerAnswers`, `ServerRaises` |
| `_handle_processing_tools_state`, `_handle_interacting_state` | `ProcessTools`, `Interact`; what raises in them: `HandlerRaises` |
| `_compute_score` | `ComputeScore`, `ScoreArrives` |
| `AsyncTokenBucket.acquire` between two suspensions | `Acquire` |
| `run_single` at the semaphore and in the call | `Enter`, `Leave` with how the call ended, `ThreadEnds`; the keys it returns: `ExtraKeys` |
| the clock | `Tick` |

Tokens are counted in units of what a bucket's rate gives in a tick, so that every
rate is 1 and waits are exact. A row whose sleep is over runs before time goes on.
`_postprocess` and `concat` are there for what they require of the rows' keys: a
reward that timed out or raised has other keys than one that was computed.
An exception in a row's task goes through the worker's `gather` and the manager's
`ray.get` and ends the job (`manager = "failed"`); what other rows still do then is of
no consequence.
Replicas are hybrid ones, so waking one up also brings the trainer's weights. Buckets and semaphore are
class attributes of a worker process, so the limits hold for each worker, not for
all together as the docstring of `limited.py` says.

## 3. What the runs check

| Run | Instance | Shows |
|---|---|---|
| `message_queue` | 2 consumers, size 2, 5 puts | `Contents`: exactly the newest samples in order; `NoLostWakeup`; `Accounting`; `ShutdownReleases` (liveness); `ImplementsFifo` (refinement of `LossyFifo`) |
| `synchronous` | 6 samples, batches of 1, 2 batches per synchronisation, limit 2 | staleness 0: `NoGenerationDuringTransfer`, `Terminates`, `ImplementsRounds` |
| `stale` | 6 samples, 1 batch per synchronisation, limit 3, 2 concurrent, `PendingCap` 1 | `FreshnessControl`, `LagBound`, `Terminates` |
| `partial` | 5 samples, batches of 2, limit 3, 2 concurrent, partial rollout, one failing generation | interruption, requeueing and a generation that raises: `TypeOK`, `Accounted`, `Terminates` |
| `partial_rollout` | 2 trajectories, 1 server, 2 synchronisations, turns of 2 tokens, response of 4 | `CancelReaches`, `QuietWhilePaused`, `EndedTurnsStay`, `TokensKept`, `PauseEnds`, `SampleFinishes` |
| `training` | 2 agents and the critic, 2 ranks, 3 steps, epochs of 3 batches, `save_freq` 2, critic warm-up 2, 2 runs of the job; 7 configurations over the three modes and 0 to 3 kept checkpoints | `TrackedRestorable`, `NoRepeatAndBoundedLoss`, `AtMostOneStepOff`, `UnsavedTail`, `ImplementsRestartable` (refinement of `Restartable`), `Recovers` (liveness) |
| `team_step` | 2 agents, 2 ranks, 2 epochs per update, every labelling of 3 or 4 prompts with three routers, forced and target agents, and a batch of 6 rows of one agent | `NeverMismatched`, `OwnAgent`, `SamplesKept`, `SpreadBound`, `StepEnds` (liveness) |
| `serving` | 3 servers; 4 configurations: single turns through two buckets, tools over two batches, interactions with a cache that is too small, two workers | `AwakeAndFresh`, `StickyAndSpread`, `LimitsHold`, `Served` (liveness) |
| `rollout_num`, `transfer`, `interrupted`, `tool_call` | as small as shows it | four disagreements of code and README, section 4 |

Each of the component families has its type invariant checked as well.

The pipeline. The synchronous modes are exact: generation, training
and transfer alternate; every batch is trained with the weights it was generated
with. The asynchronous modes terminate, whatever is paused, cancelled or fails,
but their limit is off by one: the counter reset misses the sample in the
processor's hand, so one sample more than `max_required_samples` is out, and as
the message queue has exactly that size, a put can then drop the oldest sample.
`Accounted` says that this, and a generation that raised, are the only ways to
lose one before the end signal. `LagBound` has one version more than the limit
implies for the reason in finding 2, and the limit is rounded up to whole
synchronisations: with a limit of 5 and batches of 2, a sample can be four versions
old when it is trained on (it takes 14 samples to get there). For an interrupted sample
the age is that of its last segment; its first one may be older. In `stale` a synchronisation can also come before the processor's
first wait for a task: then `done_tasks` is not bound, the processor ends, and training
ends early, but it ends.

Training. A checkpoint that is tracked is whole and of one moment at every instant
of later saves and prunings, but for two windows. While the tracker file is empty
(between its truncation and its closing), a crash makes every restart raise. And
with `max_ckpt_to_keep = 1` a manager deletes its part of the tracked checkpoint
before the other managers have written theirs. Through crashes no batch is
trained on twice. What a restart may skip are the batches taken from the
dataloader before the save and not trained on by then: none in the synchronous
loop, one in the one-step-off loop, the feeder's lead in the fully asynchronous
one. A job that ends, and filters nothing, has all its work on disk, but for up to `save_freq - 1`
versions of the fully asynchronous trainer, which has no last step. It ends after
every crash, except in the two windows and where the one-step-off trainer comes to
the end of its data before its last step and unpacks a `None`. Also visible in the
model: steps skipped by the target filter check neither `save_freq` nor the last step; directories of
earlier runs are never pruned.

A team's batch. With one agent per batch (one agent in all, a forced or target
agent, `random_batch` over unlabelled rows, or equal labels) no rank is ever in
another collective than the others and the step ends; only a batch the target
filter leaves indivisible fails, in the dispatch. For every batch, rows are
processed by their own agent, and none is lost or doubled by padding, chunking,
stitching and balancing. The partitions differ by no more than the widest group
`karmarkar_karp` starts with.

Serving. Conversations stay on one server as long as the cache holds a worker's
chunk, although old batches' entries are in it and a membership test does not
refresh one (a hit does); loads differ by one at most. The rate bound is stated by
a leaky bucket that everything let through is poured into; debts of oversized
calls and all who sleep on them are included. Threads of synchronous reward
functions that timed out run on outside the semaphore; all other calls are
bounded. No batch waits for ever, but not every batch comes back. `Served` names
the only ways for the job to fail instead. The rewards of a batch may end differently: `run_single`
answers `{acc}` or the reward function's own dict, `{timeout, acc}` after a timeout
and `{error, acc}` after an exception (limited.py:441-467). `_postprocess` looks up the first
row's keys in every row (agent_loop.py:774-777), so a batch whose first row timed out
while another succeeded is a `KeyError`; in the other order the keys are lost if the
row has all of the first one's, and when two workers disagree, `concat` fails. So a
single timeout, which `run_single` takes care to turn into a reward of 0, can end the job. The other failures are
those of a row's own handlers: a user message, taken in without the length check that
tool responses get, which leaves the model no room, and tools or interactions that raise.

Bounds and why they are enough. Six samples with a limit of 2 or 3 give at
least three synchronisations, so that a stale counter, a stale batch and a late
monitor each meet a later round; two concurrent samples make "some ended, some
not" possible; `PendingCap` 2 (128 in the code) makes the feeder block, and 1 the processor
wait for each sample. Failures
are at most one because the first ends the processor or is swallowed by `pause`.
In `message_queue` five puts overflow a queue of two several times. In
`partial_rollout` two interruptions cover "interrupted again while resuming", two
trajectories cover "one complete, one cancelled", and turns of two tokens cover an
interruption before, inside and at the end of a turn. In `training` two ranks and
three managers give every order of files and managers at a crash; two runs give a
restart from every state, and saves at steps 2 and 3 (with expiring instances at
every step) prune at every number of kept checkpoints; `MaxStep` is beyond every
step a run reaches. In `team_step` two ranks with three or four prompts, up to nine
rows after repetition, give ranks with equal and different agents, incomplete
mini-batches, and batches with and without padding. In `serving` a bucket holds two calls and
another less than one, so that rows sleep for tokens and for debts; the cache has
the chunk's size or less; `MaxMessage` 2 reaches every limit before, at and beyond
its value. Every bound is a constant or a field of a configuration.

Fairness. Weak fairness of the event loop (asyncio runs what is ready), of
each remote answer (servers, queue actor, synchronizer calls), of the monitor's
timer and of the trainer; in `MessageQueue` only of resuming a notified call, so a
consumer of a queue nobody fills may wait for ever; in `PartialRollout` of every
process but the start of a synchronisation. In `Training` of the driver (each of its
calls returns, and ranks it waits for do), of the feeder and of each rank
that writes; a crash is never forced. `TeamStep` and `Serving` have weak fairness of
their whole next-state relation only: something goes on as long as anything can,
which suffices because every one of their steps makes progress. `Tick` is enabled
only when it changes something and no row is due, as an event loop sleeps until
its next timer. No strong fairness is needed. The
engine ends every turn because its length is bounded.

Deadlock checking is off: training ends, and the finished system stops.

## 4. Findings

1. `rollout_num`: `update_param_version` resets `staleness_samples` without the
   sample in the processor's hand (rollouter:238), so more than README's
   `rollout_num` samples are out.
2. `transfer`: the monitor tests before it waits for the lock (rollouter:711-713)
   and undoes a pause that completed meanwhile; samples are generated during the
   weight transfer. With partial rollout the cancelled servers prevent that
   (`QuietWhilePaused`), without it nothing does.
3. `interrupted`: a sample interrupted after the processor took the end signal is
   put into `cancel_queue`, which nobody reads any more (rollouter:531-539, 596).
4. `tool_call`: after an interruption the tool parser sees only the tokens of the
   last answer (partial_tool_agent_loop:207, 220); a tool call cut in two is never
   executed and the trajectory ends.

Noted as hazards without a property: the final None can drop the oldest sample
(rollouter:644); `done_tasks` can be unbound (rollouter:506), which ends the processor and
with it the job, without an error of the job; with parallel
validation `asyncio.Task.get` does not exist (rollouter:285); the vLLM server keeps
the entries of requests cancelled before their first output; steps that the target
filter skips check nothing (ray_trainer:1205). `rollout.test_freq = 0` divides by
zero (trainer:353), which `TestFreqAssumption` excludes.

## 5. What is proved

All theorems hold for every value of the constants that the named assumptions
admit.

`MessageQueue_proofs`, from `QueueAssumption`. `IInv` is `TypeOK /\ Contents /\
NoLostWakeup /\ Accounting`: the contents need the types, the counters need the
length bound. `EnqueueLemma` says what a put does to the deque, `TakeLemma` and
`HeadLemma` what a get does; one lemma per action. Theorems: `TypeCorrect`,
`ContentsHolds`, `NoLostWakeupHolds`, `AccountingHolds`, and `Implements`: under the
mapping `gone <- total_produced - Len(queue)` the actor implements `LossyFifo`; a
get is a receive because `Contents` says that the head is the put number after
`Gone`.

`PartialRollout_proofs`, from `PartialAssumption`. None of the invariants is
inductive alone. `IInv` adds `Handshake` (calls are open only while made; a called
server stays cancelled until resume; a sample that is not running has no running
coroutine), `Turn(t)` (a trajectory with a request is generating, and a turn that
is over is neither asked for nor answered as cancelled), and `Tokens(t)` (tools are
called only after tokens). Theorems: `TypeCorrect`, `CancelReachesHolds`,
`QuietWhilePausedHolds`, `EndedTurnsStayHolds`, `TokensKeptHolds`.

`FullyAsync_proofs`, from `RollouterAssumption` and `TestFreqAssumption`. The counter
is reset from numbers read while other coroutines run; what makes the reset right
up to one sample is that `update_param_version` holds the lock across its awaits
and the processor submits nothing without it. `IInv` has that in layers: `LoopInv`
(nobody waits for the lock twice, and the synchronizer's call is in the lock's
queue or ready, not both), `ProcInv` and `SyncInv` (who holds the lock in which
place), and `OutInv`: the counter is at most one below what is out, and while
the size of the message queue is awaited the partial sum `ssum` first bounds what
is in tasks and in `cancel_queue`, then everything. `Accounted` is stated by the states of
the tasks, but why it holds is a matter of places: a sample that was taken is in a
task, in the processor's hand, in `cancel_queue`, in the message queue, in the
batch or trained on, and in one of them only (`PlaceInv`, with the places without
repetitions), and the samples that were put and are in none (`Lost`) are as many
as the queue dropped. The hand is full only where the processor is between taking
and submitting (`HandInv`). Each step is one of the moves of `MoveFlow` from place to
place. Theorems: `TypeCorrect`, `FreshnessHolds`, `SamplesAccounted`.

`LagHolds` bounds the age of a batch, in every mode; with partial rollout the age of a
sample counts from its last segment. A pause waits for all tasks, so a
request is at most one version behind the servers (`AgeInv`). A sample that is put
finds at most the limit in the queue (a full queue drops its oldest), and
what is queued is trained on in order; so each sample has a deadline `Due`, counted
in samples trained on, and is in time for it wherever it is in queue and batch (`LagInv`).
What turns samples into versions is `ChainInv`: when batches are complete, when a
synchronisation begins, and when the trainer is ahead of the servers. `EndInv`
says that the end signal comes after the processor's end, so that nothing follows it.

With `staleness_threshold = 0`, that is `max_required_samples = required_samples *
Trigger`, the coroutines take turns, although no lock or test says so: what is out,
collected and used up since the last reset of the counter never exceeds
the limit, nor the counter (`RoundInv`); from the end of a pause to the reset no
task is left (`IdleInv`), and the reset is over before a batch is complete (`CallInv`).
Theorem: `TransferHolds`, with partial rollout and without. `SynchronousRefines` adds
what makes it rounds: nothing is interrupted (`CutInv`), what is out, queued or
collected was generated with the weights that the servers have (`FreshInv`), the counter limits
the samples begun in a round (`CountInv`) and the trainer's steps count those used
up (`TrainedInv`). It has the hypothesis `~Partial`, modes 1 and 2 of the fully
asynchronous README: with partial rollout the pause at the end, when the
processor has ended, may interrupt a sample, which then counts as not begun, and
no step of `Rounds` does that. `OnPolicyBatches` restates the result for
the trainer: when it trains, all samples of its batch are of its own version.

`Training_proofs`, from `CheckpointAssumption` and `TrainingAssumption`.
`TrackedRestorable` is not inductive: it holds because a save takes a step beyond
the tracked one (`SaveInv`, `LoopInv`), because the tracked step is the newest of
each list that knows it and pruning leaves room for it (`ListInv`), and because
what has been written of a save are the current weights, in directories that exist
(`DiskInv`). `CutList` and its companions say what pruning does to a list.
Theorems: `TypeCorrect`, `Restorable`, `Implements` (every step maps to work, a
persist, a restart or a stutter of `Restartable`), and `OneStepOffHolds`, whose
invariant `AheadInv` says that there is one batch in flight at most and of which
version it is at each place of the loop. `NoRepeatAndBoundedLossHolds`: a batch in
front of the dataloader's position is in flight, in hand or in the weights, and
only once, or it was missed by an earlier run (`DataInv`); what is missing is at
most the lookahead for each of these runs, because the same is true of the weights
and the dataloader's state in the tracked checkpoint, and of those a save is
about to track (`SavedInv`, `Good`). `UnsavedTailHolds`: with every row kept the
weights have as many updates as the loop has steps (one fewer than versions after the
fully asynchronous trainer's last synchronisation), and the tracked weights as many
as their step's number, so that what is not saved can be counted (`TailInv`). The
synchronous loop must reach its last step, where it saves, before the data end
(`SyncInv`). That needs a hypothesis, `DataSuffice`: no more steps than batches in all
epochs. The code computes `total_training_steps` that way unless it is configured
(ray_trainer:644); a larger number configured ends the loop with steps unsaved.

`Serving_proofs`, from `ServingAssumption`. `IInv` is `TypeInv` (with the room left
in an open conversation), `AwakeInv`, `PhaseInv` (a reward call is under way only
while its row is being scored), `ConcInv` (holders are the calls somebody waits
for) and `RateInv`. The last is the argument for the rate: the leaky bucket's level
and the tokens left never make more than the larger of the bucket and one call
(`LevelInv`); a sleeper of a debt wakes up no later than it is paid off, and no
earlier than what went through before it has drained (`DebtInv`); two sleepers wake
up at least one call apart (`ApartInv`). Theorems: `TypeCorrect`,
`AwakeAndFreshHolds`, `LimitsHoldAlways`.

`Stickiness_proofs`, from `ServingAssumption` and the invariant of `Serving_proofs`. The
entries of the current batch are the most recent ones of the cache, one for each
row (`CacheInv`). So if the oldest entry, the one to be evicted, is a current one,
all are, and with the new row they would be more rows than the chunk has: a full
cache that is large enough evicts only entries of earlier batches (`ChunkRows`,
`Evicted`). Hence a conversation that has been on a server is in the cache with it
(`StickyInv`). Theorem: `StickyAndSpreadHolds`.

`Balance_proofs`. `karmarkar_karp` merges two entries of a heap of partitions until
one is left. The invariant of the heap (`Heap`): each entry has its sets in
descending order of their sums and of one size, the sets of all entries are
apart and cover the items, sums are right, and no entry is less even than the widest
first one. `MergeLemma` says that a merge, largest to smallest, keeps it. The
choices of the code from sorted lists are `CHOOSE`s over orders here; `RankOrder`
and its companions show that they exist and what they return.

`TeamStep_proofs`, from `TeamAssumption`. The rows move three times, and `IInv` says
after each move where they are: `FreshInv` that they are the configuration's prompts
before it, with valid agents, `CountInv` how many rows each prompt has and that
padding repeats the first ones; `TodoInv` and `TrainedInv` which agents a rank still has
to work on and which rows have been trained; `HeapInv` what the balancing holds;
`OwnAgent`; and for one agent `TeamInv`, that all rows have it (`Uniform`), that
all ranks are equally far (`InStep`) and so never meet in different collectives. Theorems: `TypeCorrect`, `OneAgentNeverMismatched`,
`OwnAgentOnly`, `NoSampleLost`, `SpreadBounded`.

Every safety property, action property and refinement that a passing run checks is
stated by a theorem. Only model-checked are the liveness properties
(`ShutdownReleases`, `Terminates`, `PauseEnds`, `SampleFinishes`, `Recovers`, `StepEnds`
and `Served`): liveness under fairness and ENABLED are out of this prover's reach.
## 6. Not modelled

Tensor computation, tokenisation, losses and advantages, logging, metrics and
profiling; Ray's placement and failures of whole actors (the program does not
restart them; a job that dies is started again as a whole, which is `Crash`); the
client classes, which forward calls. This is most of the repository by lines, and
has no protocol that a model checker could say anything about.

Not modelled although they have control of their own:

- the checkpoint engines: double-buffered broadcast with a loader thread. A weight
  transfer is one interval in `FullyAsync` and one step in `Training`. An exception
  of `load_weights` in the loader thread leaves the ranks waiting for one another;
- the Megatron checkpoint manager, remote copies of checkpoints, and
  `del_local_after_load`;
- the naive router and HTTP retries of the reward loop, and its other managers;
- parallel validation of the fully asynchronous rollouter;
- dispatch modes of the single controller other than data-parallel ones;
- `teamtr/router.py` and `teamtr/context_rollout.py`, which no trainer calls.

`PROJECT.json` lists every component with what is left out of it.

## 7. What is left

In order of what it would add:

1. proofs: `Rounds` for partial rollout too, for which `Rounds` has to say what the
   pause after the end may undo; that `Rounds` and `Restartable`, the abstract
   specifications, have the properties their comments promise;
2. the checkpoint engine as a machine of buffers, with "every tensor arrives once
   and whole" as its abstract specification;
3. parallel validation in `FullyAsync`;
4. the dynamic-batch variants of balancing and their synchronised numbers of
   micro-batches over the ranks, in `TeamStep`.
