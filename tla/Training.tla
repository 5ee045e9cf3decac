------------------------------ MODULE Training ------------------------------
(***************************************************************************)
(* The training loops that take checkpoints, with crashes and restarts:    *)
(*   "sync"          fit of trainer/ppo/ray_trainer.py                     *)
(*   "one_step_off"  experimental/one_step_off_policy/ray_trainer.py: the  *)
(*                   next batch is generated while this one is trained on  *)
(*   "fully_async"   fit of fully_async_trainer.py with the feeder of      *)
(*                   fully_async_rollouter.py, for one step and one batch  *)
(*                   per parameter version                                 *)
(* Batches are named by their position in the data, counted over all       *)
(* epochs; a model's weights are the history of the updates it received.   *)
(***************************************************************************)
EXTENDS Checkpoint

CONSTANTS
  Configs,         \* the configurations explored, see ConfigsAssumption
  EpochLen,        \* batches per epoch
  TotalSteps,      \* total_training_steps
  SaveFreq,        \* trainer.save_freq
  CriticWarmup,    \* trainer.critic_warmup
  Ahead,           \* batches the fully asynchronous feeder may be ahead by
  MaxRuns          \* bound: runs of the job, restarts included

Critic == NManagers
Agents == Managers \ {Critic}

\* mode; max_ckpt_to_keep per manager; total_epochs; the agents of the batch at each place
\* of an epoch, after routing; teamtr_target_agent_id as the set of agents it lets pass;
\* test_freq (fully_async).
ConfigsAssumption ==
  Configs \subseteq [mode : {"sync", "one_step_off", "fully_async"},
                     keep : [Managers -> Nat], epochs : Nat \ {0},
                     routed : [0..EpochLen - 1 -> (SUBSET Agents) \ {{}}],
                     target : SUBSET Agents, test_freq : Nat \ {0}]
ASSUME TrainingAssumption ==
  /\ ConfigsAssumption
  /\ {EpochLen, TotalSteps, SaveFreq, Ahead, MaxRuns} \subseteq Nat \ {0}
  /\ CriticWarmup \in Nat

VARIABLES
  config,        \* the configuration, chosen once
  run,           \* runs of the job so far
  pc,            \* where the driver is
  global_steps,  \* fully_async: current_param_version + 1
  position, left,\* dataloader: batches it gave, batches until its iterator ends
  weights,       \* per model and rank: the updates received, <<position, run>>
  served,        \* step of the weights the rollout servers hold
  inflight,      \* batches being generated or generated: [pos, ver]
  batch,         \* the batch in hand: [pos, ver]
  durable        \* history: step and weights when the tracker was last written

loopVars == <<run, pc, global_steps, position, left, weights, served, inflight, batch>>
vars == <<config, loopVars, durable, checkpointVars>>

NoBatch == [pos |-> 0, ver |-> 0]
Fresh == [f \in Shards |-> <<>>]

Histories == Seq((Nat \ {0}) \X (1..MaxRuns))

TypeOK ==
  /\ CheckpointTypeOK(Histories)
  /\ config \in Configs
  /\ run \in 1..MaxRuns
  /\ pc \in {"start", "sync", "launch", "loop", "train", "check", "save", "final", "done", "failed"}
  /\ {global_steps, position, left, served} \subseteq Nat
  /\ weights \in [Shards -> Histories]
  /\ inflight \subseteq [pos : Nat \ {0}, ver : Nat]
  /\ batch \in [pos : Nat \ {0}, ver : Nat] \cup {NoBatch}
  /\ durable \in [step : Nat, weights : [Shards -> Histories]]

Init ==
  /\ CheckpointInit
  /\ config \in Configs
  /\ run = 1 /\ pc = "start"
  /\ global_steps = 0 /\ position = 0 /\ left = 0
  /\ weights = Fresh
  /\ served = 0 /\ inflight = {} /\ batch = NoBatch
  /\ durable = [step |-> 0, weights |-> Fresh]

Sync == config.mode = "sync"
OneStepOff == config.mode = "one_step_off"
FullyAsync == config.mode = "fully_async"

\* total_training_steps is reached (read before the step's global_steps += 1).
IsLast == global_steps >= TotalSteps

\* The agents whose rows of the batch at `pos' train: _ensure_agent_ids and the target filter.
Trained(pos) ==
  LET routed == config.routed[(pos - 1) % EpochLen]
  IN  IF Sync THEN routed \cap config.target ELSE routed

-----------------------------------------------------------------------------
(* Start: _load_checkpoint *)

\* After loading, the distributed trainers first send the weights to the rollout servers.
Begins == pc' = IF Sync THEN "loop" ELSE "sync"

FromScratch ==
  /\ pc = "start" /\ NothingSaved
  /\ global_steps' = 1 /\ position' = 0
  /\ left' = config.epochs * EpochLen
  /\ weights' = Fresh
  /\ Begins
  /\ UNCHANGED <<config, run, served, inflight, batch, durable, checkpointVars>>

\* Batches left in the epoch the dataloader state `p' is in.  At the end of an epoch the
\* restored iterator may be over at once, or begin a new epoch (library, left open).
FirstPass(p) == IF p % EpochLen = 0 THEN {0, EpochLen} ELSE {EpochLen - (p % EpochLen)}

\* A plausible fault: data.pt is not read.
FromTheBeginning == 0

\* Where the dataloader goes on: at its saved state, or without one at the beginning.
RestoredPosition == IF data[tracker] = NoFile THEN 0 ELSE data[tracker]

\* The epoch loop starts at 0 again, with the dataloader where the checkpoint left it.
Resume ==
  /\ pc = "start" /\ Loadable
  /\ global_steps' = tracker + 1
  /\ position' = RestoredPosition
  /\ \E first \in FirstPass(RestoredPosition) :
       left' = first + (config.epochs - 1) * EpochLen
  /\ weights' = [f \in Shards |-> Loaded(f)]
  /\ Begins
  /\ UNCHANGED <<config, run, served, inflight, batch, durable, checkpointVars>>

\* int('') of an empty tracker file, or a missing or torn file: the job raises, and every
\* restart does again.
CannotResume ==
  /\ pc = "start" /\ ~NothingSaved /\ ~Loadable
  /\ pc' = "failed"
  /\ UNCHANGED <<config, run, global_steps, position, left, weights, served, inflight,
                 batch, durable, checkpointVars>>

-----------------------------------------------------------------------------
(* Rollout: weights and generation *)

\* The steps the weights have behind them when global_steps is under way.
Version == global_steps - 1

\* A plausible fault: weights are sent at the start only.
SentOnce == IF batch = NoBatch THEN Version ELSE served

\* The weights sent are the current ones; the fully asynchronous trainer has counted the step
\* behind them already.
Sent == IF FullyAsync /\ batch # NoBatch THEN global_steps ELSE Version

\* sync_rollout_weights (and the initial sync_weights of fully_async_main.py).
SyncWeights ==
  /\ pc = "sync"
  /\ served' = Sent
  /\ pc' = CASE OneStepOff -> "launch" [] FullyAsync /\ batch = NoBatch -> "loop"
             [] OTHER -> "check"
  /\ UNCHANGED <<config, run, global_steps, position, left, weights, inflight, batch,
                 durable, checkpointVars>>

\* The next batch is taken from the dataloader, for generation with the weights served.
Take ==
  /\ position' = position + 1 /\ left' = left - 1
  /\ inflight' = inflight \cup {[pos |-> position + 1, ver |-> served]}

\* A plausible fault: the end of the data is not noticed.
OnlyAtLastStep == batch # NoBatch /\ IsLast

\* The iterator is over, or (read before the step) this is the last step.
NothingToLaunch == left = 0 \/ (batch # NoBatch /\ IsLast)

\* one_step_off: create_task(_async_gen_next_batch) unless this is the last step; the task
\* returns None when the iterator is over.
Launch ==
  /\ pc = "launch"
  /\ IF NothingToLaunch
     THEN UNCHANGED <<position, left, inflight>>
     ELSE Take
  /\ pc' = IF batch = NoBatch THEN "loop" ELSE "train"
  /\ UNCHANGED <<config, run, global_steps, weights, served, batch, durable, checkpointVars>>

\* fully_async: _feed_samples ends with the data or with total_rollout_steps.
InHand == IF batch = NoBatch THEN 0 ELSE 1
FedAll == left = 0 \/ Version + InHand + Cardinality(inflight) >= TotalSteps

Feed ==
  /\ FullyAsync /\ pc \notin {"start", "done", "failed"}
  /\ pc = "sync" => batch # NoBatch   \* fit begins after the initial sync_weights
  /\ ~FedAll /\ Cardinality(inflight) < Ahead
  /\ Take
  /\ UNCHANGED <<config, run, pc, global_steps, weights, served, batch, durable, checkpointVars>>

-----------------------------------------------------------------------------
(* A training step *)

\* sync: the loop takes a batch and generates it itself, with the weights it trains; a batch
\* without a row of the target agent is a step that does nothing and checks nothing.
NextBatch ==
  /\ Sync /\ pc = "loop" /\ left > 0
  /\ position' = position + 1 /\ left' = left - 1
  /\ IF Trained(position + 1) = {}
     THEN global_steps' = global_steps + 1 /\ UNCHANGED <<pc, batch>>
     ELSE /\ batch' = [pos |-> position + 1, ver |-> Version]
          /\ pc' = "train" /\ UNCHANGED global_steps
  /\ UNCHANGED <<config, run, weights, served, inflight, durable, checkpointVars>>

\* sync: the epoch loop is over.
DataEnds ==
  /\ Sync /\ pc = "loop" /\ left = 0
  /\ pc' = "done"
  /\ UNCHANGED <<config, run, global_steps, position, left, weights, served, inflight,
                 batch, durable, checkpointVars>>

\* The batch awaited, or any one of those generated into the message queue, when it is done.
Await(b) ==
  /\ ~Sync /\ pc = "loop" /\ b \in inflight
  /\ batch' = b
  /\ inflight' = inflight \ {b}
  /\ pc' = IF OneStepOff THEN "sync" ELSE "train"
  /\ UNCHANGED <<config, run, global_steps, position, left, weights, served, durable,
                 checkpointVars>>

\* one_step_off: unpacking the None of an iterator that is over raises TypeError.
\* fully_async: the final None of the queue ends the loop.
AwaitNone ==
  /\ pc = "loop" /\ inflight = {}
  /\ \/ OneStepOff /\ pc' = "failed"
     \/ FullyAsync /\ FedAll /\ pc' = "final"
  /\ UNCHANGED <<config, run, global_steps, position, left, weights, served, inflight,
                 batch, durable, checkpointVars>>

\* update_critic, and update_actor of the batch's agents when the critic is warm.
Train ==
  /\ pc = "train"
  /\ LET updated == {Critic} \cup
           IF CriticWarmup <= global_steps THEN Trained(batch.pos) ELSE {}
     IN  weights' = [f \in Shards |->
           IF f[1] \in updated THEN Append(weights[f], <<batch.pos, run>>) ELSE weights[f]]
  /\ pc' = IF FullyAsync THEN "sync" ELSE "check"
  /\ UNCHANGED <<config, run, global_steps, position, left, served, inflight, batch,
                 durable, checkpointVars>>

-----------------------------------------------------------------------------
(* Checkpoints of the loop *)

\* The step is over; the loops over steps return after the last one.
StepEnds ==
  /\ global_steps' = global_steps + 1
  /\ batch' = NoBatch
  /\ pc' = IF ~FullyAsync /\ IsLast THEN "done" ELSE "loop"

\* A plausible fault: the last step is forgotten.
OnlyMultiples == global_steps % SaveFreq = 0

\* save_freq and, but for the fully asynchronous trainer, the last step.
MustSave == global_steps % SaveFreq = 0 \/ (~FullyAsync /\ IsLast)

\* A checkpoint may be taken at any step: should_save_ckpt_esi, when the instance expires.
Save ==
  /\ pc = "check" /\ global_steps \in Steps
  /\ SaveStarts(global_steps)
  /\ pc' = "save"
  /\ UNCHANGED <<config, run, global_steps, position, left, weights, served, inflight,
                 batch, durable>>

NoSave ==
  /\ pc = "check" /\ ~MustSave
  /\ StepEnds
  /\ UNCHANGED <<config, run, position, left, weights, served, inflight, durable,
                 checkpointVars>>

\* One more synchronisation after the loop, under a version of its own but with no update
\* behind it, when the last version was not one to validate.
FinalVersion == IF Version % config.test_freq # 0 THEN Version + 1 ELSE Version

\* fully_async, after the loop: that synchronisation, and _check_save_checkpoint once more,
\* unless the version is last_ckpt_version already.
LastCheckpoint ==
  /\ pc = "final"
  /\ global_steps' = FinalVersion + 1
  /\ served' = FinalVersion
  /\ LET last == IF tracker = NoFile THEN 0 ELSE tracker
     IN  \/ /\ FinalVersion # last /\ FinalVersion \in Steps
            /\ SaveStarts(FinalVersion) /\ pc' = "save"
         \/ /\ FinalVersion = last \/ FinalVersion % SaveFreq # 0
            /\ pc' = "done" /\ UNCHANGED checkpointVars
  /\ UNCHANGED <<config, run, position, left, weights, inflight, batch, durable>>

\* The ranks write in any order and at any pace.
RankWrites(r) ==
  /\ WriteBegins(r) \/ WriteEnds(r, weights[<<mgr, r>>])
  /\ UNCHANGED <<config, loopVars, durable>>

\* What the rest of _save_checkpoint does before the tracker is written.
SaveGoesOn ==
  /\ EnsureCapacity(config.keep) \/ Register(config.keep) \/ SaveData(position) \/ TruncateTracker
  /\ UNCHANGED <<config, loopVars, durable>>

SaveEnds ==
  /\ WriteTracker
  /\ durable' = [step |-> save_step, weights |-> weights]
  /\ IF batch = NoBatch THEN pc' = "done" /\ UNCHANGED <<global_steps, batch>> ELSE StepEnds
  /\ UNCHANGED <<config, run, position, left, weights, served, inflight>>

-----------------------------------------------------------------------------
(* The system *)

\* The job dies at any moment, or has failed, and is started again.
Crash ==
  /\ pc \notin {"start", "done"} /\ run < MaxRuns
  /\ run' = run + 1 /\ pc' = "start"
  /\ global_steps' = 0 /\ position' = 0 /\ left' = 0
  /\ weights' = Fresh
  /\ served' = 0 /\ inflight' = {} /\ batch' = NoBatch
  /\ ForgetSaves
  /\ UNCHANGED <<config, durable>>

Driver ==
  \/ FromScratch \/ Resume \/ CannotResume
  \/ SyncWeights \/ Launch \/ NextBatch \/ DataEnds \/ (\E b \in inflight : Await(b)) \/ AwaitNone
  \/ Train \/ NoSave \/ LastCheckpoint \/ SaveGoesOn \/ SaveEnds

Next ==
  \/ Driver \/ Save \/ Feed \/ Crash
  \/ \E r \in Ranks : RankWrites(r)

\* The driver goes on (generation ends), the feeder too, every rank writes its files.
Fairness ==
  /\ WF_vars(Driver \/ Save) /\ WF_vars(Feed)
  /\ \A r \in Ranks : WF_vars(RankWrites(r))

Spec == Init /\ [][Next]_vars /\ Fairness

-----------------------------------------------------------------------------
(* Properties *)

\* With keep = 1 register_checkpoint deletes the old directory of a manager while the other
\* managers, data.pt and the tracker are still to be written.
OnlyCopyGone ==
  \E m \in Managers : config.keep[m] = 1 /\ tracker \notin dirs[m]

\* Whenever the job may die: the checkpoint the tracker names is whole, of one moment on every
\* rank of every model, and the very state of when it was tracked, whatever was written,
\* overwritten and pruned since.  The exceptions are the instant the tracker file is empty
\* and keeping one checkpoint only.
TrackedRestorable ==
  IF tracker = NoFile THEN durable = [step |-> 0, weights |-> Fresh]
  ELSE \/ tracker = Torn
       \/ OnlyCopyGone
       \/ /\ durable.step = tracker
          /\ \A f \in Shards : shard[tracker][f] = {durable.weights[f]}

\* The positions a model was trained on.
Positions(f) == {weights[f][k][1] : k \in 1..Len(weights[f])}

\* Batches a restart may lose: those taken from the dataloader when it was saved and not
\* trained on (README and comment of the rollouter's save_checkpoint warn of them).
Lookahead == IF Sync THEN 0 ELSE IF OneStepOff THEN 1 ELSE Ahead

\* Through any crashes and restarts, no batch is trained on twice, and a restart loses none
\* but those ahead of training in the checkpoint.
NoRepeatAndBoundedLoss ==
  LET f == <<Critic, 0>>
      missing == {p \in 1..position : p \notin Positions(f) /\ Trained(p) # {}}
                   \ ({b.pos : b \in inflight} \cup {batch.pos})
  IN  /\ Cardinality(Positions(f)) = Len(weights[f])
      /\ Cardinality(missing) <= Lookahead * (run - 1)

\* One step off: a batch is trained with weights at most one step after those it was
\* generated with, at the start, after a restart and at the end as well.
AtMostOneStepOff == OneStepOff /\ pc = "train" => Version - batch.ver <= 1

\* A job that ends has its work on disk: all of it, or with the fully asynchronous trainer,
\* which has no last step, all but the versions since the last multiple of save_freq.
UnsavedTail ==
  pc = "done" /\ config.target = Agents =>
    Len(weights[<<Critic, 0>>]) - Len(durable.weights[<<Critic, 0>>])
      <= IF FullyAsync THEN SaveFreq - 1 ELSE 0

Memory == IF pc \in {"start", "failed"} THEN durable.weights ELSE weights

Abstract == INSTANCE Restartable WITH
  Parts <- Shards, mem <- Memory, durable <- durable.weights

\* Training with checkpoints is a computation that restarts from its last durable state:
\* what a run resumes is exactly what some earlier moment had, never a mixture.
ImplementsRestartable == Abstract!Spec

\* After any crashes the job ends, unless the crash fell into one of the two windows of
\* TrackedRestorable, or the one-step-off trainer ran out of data.
Excused == tracker = Torn \/ OnlyCopyGone \/ (OneStepOff /\ left = 0)
Recovers == <>(pc = "done" \/ (pc = "failed" /\ Excused))

=============================================================================
