----------------------------- MODULE FullyAsync -----------------------------
(***************************************************************************)
(* Fully asynchronous training: the rollouter of module Rollouter, the     *)
(* trainer (fully_async_trainer.py), the parameter synchronizer            *)
(* (param_sync.py) and the message queue between them, each a process of   *)
(* its own.  The trainer and the synchronizer it calls are one sequential  *)
(* chain, tpc; the calls update_param_version and resume are left running  *)
(* when sync_weights returns and awaited before the next synchronisation.  *)
(***************************************************************************)
EXTENDS Rollouter

CONSTANT TestFreq   \* rollout.test_freq, for the final synchronisation
ASSUME TestFreqAssumption == TestFreq \in Nat \ {0}

VARIABLES
  tpc,                 \* where the trainer is
  buf,                 \* samples collected for the next training step
  local_trigger_step,
  tver,                \* the trainer's current_param_version
  final,               \* the synchronisation after the last batch is under way
  trained              \* history: samples trained on

trainerVars == <<buf, local_trigger_step, tver, final, trained>>
rollouterVars == <<loopVars, procVars, cancel_queue, taskVars, flagVars, statVars, mpc, epc,
                   syncVars, mqVars, serverVars>>
vars == <<rollouterVars, tpc, trainerVars>>

\* What the trainer chain leaves alone in the rollouter, apart from calls and weights.
RollouterRest == <<lockQ, procVars, cancel_queue, taskVars, flagVars, statVars, mpc, epc,
                   ssum, dropped>>

TypeOK ==
  /\ RollouterTypeOK
  /\ tpc \in {"collect", "train", "wait", "pause", "weights", "endwait", "finwait", "done"}
  /\ buf \in Seq(Samples)
  /\ local_trigger_step \in 1..Trigger
  /\ tver \in Nat
  /\ final \in BOOLEAN
  /\ trained \subseteq Samples

Init ==
  /\ RollouterInit
  /\ tpc = "collect" /\ buf = <<>> /\ local_trigger_step = 1
  /\ tver = 0 /\ final = FALSE /\ trained = {}

\* _get_samples_from_queue: one blocking get_sample; None ends training, and what was
\* collected so far is given up.
Collect ==
  /\ tpc = "collect" /\ mq # <<>>
  /\ mq' = Tail(mq)
  /\ IF Head(mq) = NoSample
     THEN tpc' = "endwait" /\ buf' = <<>>
     ELSE /\ buf' = Append(buf, Head(mq))
          /\ tpc' = IF Len(buf') = required_samples THEN "train" ELSE "collect"
  /\ UNCHANGED <<RollouterRest, ready, spc, sver, serverVars, local_trigger_step, tver, final, trained>>

\* A plausible fault: a synchronisation per step, whatever the trigger.
DueAlways == TRUE

\* A plausible fault: the comparison is off by one.
DueLate == local_trigger_step > Trigger

\* _trigger_parameter_sync_after_step: a synchronisation is due.
SyncDue == local_trigger_step = Trigger

\* A training step on a full batch, up to the wait for the last synchronisation.
Train ==
  /\ tpc = "train"
  /\ trained' = trained \cup {buf[k] : k \in 1..Len(buf)}
  /\ buf' = <<>>
  /\ IF SyncDue
     THEN tver' = tver + 1 /\ local_trigger_step' = 1 /\ tpc' = "wait"
     ELSE local_trigger_step' = local_trigger_step + 1 /\ tpc' = "collect" /\ UNCHANGED tver
  /\ UNCHANGED <<rollouterVars, final>>

\* wait_last_valid: the last update_param_version and resume have returned.
LastSyncDone == spc = "idle"

\* wait_last_valid, then sync_weights calls pause.
SyncWeights ==
  /\ tpc = "wait" /\ LastSyncDone
  /\ sver' = tver
  /\ spc' = "pause" /\ Wakes(sync)
  /\ tpc' = "pause"
  /\ UNCHANGED <<RollouterRest, mq, serverVars, trainerVars>>

\* pause returned: the weight transfer begins.
TransferBegins ==
  /\ tpc = "pause" /\ spc = "paused"
  /\ tpc' = "weights"
  /\ UNCHANGED <<rollouterVars, trainerVars>>

\* A plausible fault: the weights of the version before are sent.
LoadedBefore == sver - 1

\* The version of the weights that the servers load.
Loaded == sver

\* The transfer is complete; update_param_version and resume are launched.
TransferEnds ==
  /\ tpc = "weights"
  /\ wver' = Loaded
  /\ spc' = "update" /\ Wakes(sync)
  /\ tpc' = IF final THEN "finwait" ELSE "collect"
  /\ UNCHANGED <<RollouterRest, sver, mq, serverPaused, trainerVars>>

\* After the loop: a last synchronisation if the trained weights are not validated yet.
LastBatchDone ==
  /\ tpc = "endwait" /\ LastSyncDone
  /\ IF tver % TestFreq # 0 \/ local_trigger_step > 1
     THEN tver' = tver + 1 /\ local_trigger_step' = 1 /\ final' = TRUE /\ tpc' = "wait"
     ELSE tpc' = "done" /\ UNCHANGED <<local_trigger_step, tver, final>>
  /\ UNCHANGED <<rollouterVars, buf, trained>>

FitEnds ==
  /\ tpc = "finwait" /\ LastSyncDone
  /\ tpc' = "done"
  /\ UNCHANGED <<rollouterVars, trainerVars>>

TrainerNext ==
  \/ Collect \/ Train \/ SyncWeights \/ TransferBegins \/ TransferEnds
  \/ LastBatchDone \/ FitEnds

\* What happens outside the event loop and makes a coroutine ready.
Event ==
  \/ PauseGathered \/ SyncAnswer \/ MonitorTimer \/ MainNonePut
  \/ \E i \in Samples : TaskEvent(i)

Next ==
  \/ (LoopStep \/ Event) /\ UNCHANGED <<tpc, trainerVars>>
  \/ TrainerNext

\* The event loop runs what is ready; callbacks, answers of the servers and of the queue
\* actor arrive, the timer fires, and the trainer goes on.
Fairness ==
  /\ WF_vars(LoopStep /\ UNCHANGED <<tpc, trainerVars>>)
  /\ WF_vars((PauseGathered \/ SyncAnswer \/ MainNonePut)
             /\ UNCHANGED <<tpc, trainerVars>>)
  /\ \A i \in Samples : WF_vars(TaskEvent(i) /\ UNCHANGED <<tpc, trainerVars>>)
  /\ WF_vars(MonitorTimer /\ UNCHANGED <<tpc, trainerVars>>)
  /\ WF_vars(TrainerNext)

Spec == Init /\ [][Next]_vars /\ Fairness

-----------------------------------------------------------------------------
(* Properties *)

\* Weights are replaced under no request: while the transfer runs, no rollout server
\* generates (README.md:237: rollouter waits for its tasks and adds no new ones).
NoGenerationDuringTransfer == tpc = "weights" => \A i \in Samples : phase[i] # "gen"

\* Samples submitted for generation that the trainer has not taken.
InFlight ==
  Cardinality({i \in Samples : phase[i] \in {"new", "gen", "ret", "cut", "put"}})
    + Len(cancel_queue) + Cardinality({k \in 1..Len(mq) : mq[k] # NoSample})

\* What README.md:139 promises: rollouter never has more than rollout_num samples out.
AtMostRolloutNum == InFlight <= max_required_samples

\* Freshness control: the staleness counter, however the reset of update_param_version
\* interleaves with the processor taking samples, lets at most one sample more than the
\* limit out, and that one is or was in the processor's hand during the reset.
FreshnessControl ==
  InFlight + (IF hand \in Samples THEN 1 ELSE 0) <= max_required_samples + 1

\* Freshness of a batch: versions between the weights a sample was generated with (an
\* interrupted one: its last segment) and those that train on it.  A pause waits for every
\* task, so only what the queue holds delays a sample: as many synchronisations as it takes
\* to use up the limit, rounded up, and one more for a generation that began during a transfer.
LagBound ==
  tpc = "train" =>
    \A k \in 1..Len(buf) :
      LET perSync == required_samples * Trigger
      IN  tver - used[buf[k]] <= (max_required_samples + perSync - 1) \div perSync + 1

\* Where sample i can be: in the processor's hand, interrupted and waiting, in a task
\* that has not stored it yet, in the message queue, in the trainer's batch, trained on.
Places(i) ==
  Cardinality({k \in 1..Len(cancel_queue) : cancel_queue[k] = i})
  + Cardinality({k \in 1..Len(mq) : mq[k] = i})
  + Cardinality({k \in 1..Len(buf) : buf[k] = i})
  + Cardinality({p \in {"hand", "task", "trained"} :
      \/ p = "hand" /\ hand = i
      \/ p = "task" /\ phase[i] \in {"new", "gen", "ret", "cut", "put"}
      \/ p = "trained" /\ i \in trained})

\* Nothing is lost or duplicated unnoticed while the rollouter works: through pauses,
\* interruptions and requeueing every sample it took is in exactly one place, except
\* those whose generation raised and as many as the queue's dropped_samples says.
Accounted ==
  epc = "run" =>
    /\ \A i \in Samples : Places(i) <= 1
    /\ Cardinality({i \in Samples : i <= taken /\ phase[i] # "failed" /\ Places(i) = 0}) = dropped

\* What README.md:246 promises: interrupted samples continue to be generated, so none is
\* left in cancel_queue when the rollouter has ended.
InterruptedContinue == epc = "done" => cancel_queue = <<>>

\* No deadlock and no lost wake-up between the pauses, the lock, the condition, the
\* limits and the waiting trainer: training ends, whatever fails, is paused or cancelled.
Terminates == <>(tpc = "done" /\ epc = "done")

\* With staleness_threshold = 0, training is on policy, in rounds.
OnPolicy == INSTANCE Rounds WITH
  RoundSize <- max_required_samples, BatchSize <- required_samples,
  version <- wver,
  generated <- Cardinality({i \in Samples : used[i] = wver /\ phase[i] \notin {"idle", "new"}}),
  consumed <- Cardinality({i \in trained : used[i] = wver}),
  over <- final /\ tpc \in {"finwait", "done"}

\* Every step of the synchronous modes is a step of Rounds or a stutter.
ImplementsRounds == OnPolicy!Spec

=============================================================================
