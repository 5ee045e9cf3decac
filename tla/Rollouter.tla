----------------------------- MODULE Rollouter -----------------------------
(***************************************************************************)
(* The FullyAsyncRollouter actor                                           *)
(* (experimental/fully_async_policy/fully_async_rollouter.py): one asyncio *)
(* event loop whose coroutines feed prompts, submit them for generation,   *)
(* put the results into the message queue, pause and resume generation     *)
(* around a weight synchronisation, and undo a pause from a timer.         *)
(*                                                                         *)
(* `ready' is the event loop's FIFO of coroutines that can run.  The one   *)
(* at its head runs until it really suspends, which may take several       *)
(* actions; meanwhile only other processes (queue actor, trainer, rollout  *)
(* servers, timers) step, and what they send is appended to `ready'.       *)
(* asyncio.Lock is FIFO too: lockQ is its holder followed by its waiters.  *)
(***************************************************************************)
EXTENDS DropQueue, FiniteSets

CONSTANTS
  TotalSamples,     \* total_rollout_steps: samples 1..TotalSamples are fed
  required_samples,
  Trigger,          \* trigger_parameter_sync_step
  max_required_samples,
  max_concurrent_samples,
  PendingCap,       \* maxsize of pending_queue (128 in the code)
  Partial,          \* async_training.partial_rollout
  MaxFailures       \* bound: generations that raise

ASSUME RollouterAssumption ==
  /\ {TotalSamples, required_samples, Trigger, max_required_samples,
      max_concurrent_samples, PendingCap} \subseteq Nat \ {0}
  /\ max_required_samples >= required_samples * Trigger  \* staleness_threshold >= 0
  /\ max_concurrent_samples <= max_required_samples
  /\ Partial \in BOOLEAN
  /\ MaxFailures \in Nat

Samples == 1..TotalSamples
DONE == TotalSamples + 1   \* the end signal in pending_queue
NoSample == 0              \* nothing in hand; in the message queue: the final None

\* Names of coroutines; the task of sample i is named i.
processor == -1
sync == -2
monitor == -3
main == -4
feeder == -5
waiter == -6   \* the done-callback of asyncio.wait
Locking == {processor, sync, monitor, main}
Coroutines == Locking \cup {feeder, waiter} \cup Samples

VARIABLES
  ready, lockQ,
  \* pending_queue holds taken+1..fed; the processor is at ppc, for goal, with hand;
  \* waited: asyncio.wait has returned once, so that done_tasks is bound
  fed, taken, ppc, goal, hand, waited,
  cancel_queue,
  \* phase[i]: where sample i is; finished, failed: the done tasks still in active_tasks
  phase, finished, failed, failures,
  paused, running, monitor_loop_trigger,
  current_param_version, staleness_samples,
  mpc, epc,
  \* calls of the synchronizer: spc, its version argument, a partial sum
  spc, sver, ssum,
  \* the message queue actor
  mq, dropped,
  \* rollout servers: weights loaded, cancelled, and used[i]: weights sample i was generated
  \* with, those of its last segment if it was interrupted
  wver, serverPaused, used

loopVars == <<ready, lockQ>>
procVars == <<fed, taken, ppc, goal, hand, waited>>
taskVars == <<phase, finished, failed, failures, used>>
flagVars == <<paused, running, monitor_loop_trigger>>
statVars == <<current_param_version, staleness_samples>>
syncVars == <<spc, sver, ssum>>
mqVars == <<mq, dropped>>
serverVars == <<wver, serverPaused>>

\* new: created; gen: at a server; ret, cut: answered, complete or interrupted;
\* put: put_sample called; stored: executed; ack: answered
Live == {"new", "gen", "ret", "cut", "put", "stored", "ack"}
Unfinished == {i \in Samples : phase[i] \in Live}
\* len(active_tasks): the unfinished tasks and the finished ones nobody removed yet
NActive == Cardinality(Unfinished) + finished

RollouterTypeOK ==
  /\ ready \in Seq(Coroutines) /\ lockQ \in Seq(Locking)
  /\ fed \in 0..DONE /\ taken \in 0..DONE /\ hand \in 0..DONE
  /\ ppc \in {"top", "setpause", "drain", "await", "waiting", "condlock",
              "cwait", "get", "getwait", "exit", "dead"}
  /\ goal \in {"pause", "limit", "done"}
  /\ cancel_queue \in Seq(Samples)
  /\ phase \in [Samples -> Live \cup {"idle", "done", "failed"}]
  /\ finished \in Nat /\ failed \in BOOLEAN /\ failures \in 0..MaxFailures
  /\ {waited, paused, running, monitor_loop_trigger, serverPaused} \subseteq BOOLEAN
  /\ {current_param_version, staleness_samples, sver, ssum, dropped, wver} \subseteq Nat
  /\ used \in [Samples -> Nat]
  /\ mpc \in {"sleep", "unpause"} /\ epc \in {"run", "put", "sent", "lock", "done"}
  /\ spc \in {"idle", "pause", "pauseL", "cancel", "gather", "kv", "paused", "update",
              "updL", "size", "report", "resume", "resL", "server"}
  /\ mq \in Seq(Samples \cup {NoSample})

RollouterInit ==
  /\ ready = <<feeder, processor>> /\ lockQ = <<>>
  /\ fed = 0 /\ taken = 0 /\ hand = NoSample
  /\ ppc = "top" /\ goal = "pause" /\ waited = FALSE
  /\ cancel_queue = <<>>
  /\ phase = [i \in Samples |-> "idle"]
  /\ finished = 0 /\ failed = FALSE /\ failures = 0
  /\ paused = FALSE /\ running = TRUE /\ monitor_loop_trigger = TRUE
  /\ current_param_version = 0 /\ staleness_samples = 0
  /\ used = [i \in Samples |-> 0]
  /\ mpc = "sleep" /\ epc = "run"
  /\ spc = "idle" /\ sver = 0 /\ ssum = 0
  /\ mq = <<>> /\ dropped = 0
  /\ wver = 0 /\ serverPaused = FALSE

-----------------------------------------------------------------------------
(* The event loop and the lock *)

Runs(c) == ready # <<>> /\ Head(ready) = c
Asleep(c) == \A k \in 1..Len(ready) : ready[k] # c

Goes == UNCHANGED ready
Suspends == ready' = Tail(ready)
Wakes(c) == ready' = Append(ready, c)

\* `async with lock': goes on at once when it is free, else suspends behind the others.
Acquire(c) ==
  /\ lockQ' = Append(lockQ, c)
  /\ IF lockQ = <<>> THEN Goes ELSE Suspends

Holds(c) == lockQ # <<>> /\ Head(lockQ) = c

\* A release makes the next waiter ready.  extra: who else the same stretch of code wakes.
NextWaiter == IF Len(lockQ) > 1 THEN <<lockQ[2]>> ELSE <<>>
Release(extra) == lockQ' = Tail(lockQ) /\ ready' = ready \o extra \o NextWaiter
ReleaseAndSuspend(extra) == lockQ' = Tail(lockQ) /\ ready' = Tail(ready) \o extra \o NextWaiter

\* condition.notify_all: only the processor ever waits on the condition.
Notified == IF ppc = "cwait" /\ Asleep(processor) THEN <<processor>> ELSE <<>>

-----------------------------------------------------------------------------
(* _feed_samples: fills pending_queue without suspending until it is full. *)

FeedLimit == IF taken + PendingCap < DONE THEN taken + PendingCap ELSE DONE

Feed ==
  /\ Runs(feeder)
  /\ fed' = FeedLimit
  /\ ready' = Tail(ready) \o IF ppc = "getwait" /\ Asleep(processor) THEN <<processor>> ELSE <<>>
  /\ UNCHANGED <<lockQ, taken, ppc, goal, hand, waited, cancel_queue, taskVars, flagVars,
                 statVars, mpc, epc, syncVars, mqVars, serverVars>>

-----------------------------------------------------------------------------
(* _processor_worker *)

ProcRest == <<cancel_queue, taskVars, flagVars, statVars, mpc, epc, syncVars, mqVars, serverVars>>

\* A plausible fault: only a full queue pauses generation.
PauseOnlyWhenFull == IsFull(mq, max_required_samples)

_should_pause_generation ==
  \/ IsFull(mq, max_required_samples)
  \/ staleness_samples >= max_required_samples

\* Top of the loop.  To pause, it first needs the lock.
ProcTop ==
  /\ ppc = "top" /\ Runs(processor)
  /\ IF paused \/ _should_pause_generation
     THEN ppc' = "setpause" /\ Acquire(processor)
     ELSE ppc' = "get" /\ Goes /\ UNCHANGED lockQ
  /\ UNCHANGED <<fed, taken, goal, hand, waited, ProcRest>>

ProcSetPause ==
  /\ ppc = "setpause" /\ Runs(processor) /\ Holds(processor)
  /\ paused' = TRUE
  /\ Release(<<>>)
  /\ ppc' = "drain" /\ goal' = "pause"
  /\ UNCHANGED <<fed, taken, hand, waited, cancel_queue, taskVars, running, monitor_loop_trigger,
                 statVars, mpc, epc, syncVars, mqVars, serverVars>>

\* A sample that an earlier synchronisation interrupted goes first.
ProcTakeCancelled ==
  /\ ppc = "get" /\ Runs(processor)
  /\ cancel_queue # <<>>
  /\ hand' = Head(cancel_queue) /\ cancel_queue' = Tail(cancel_queue)
  /\ ppc' = "drain" /\ goal' = "limit"
  /\ UNCHANGED <<loopVars, fed, taken, waited, taskVars, flagVars, statVars, mpc, epc, syncVars,
                 mqVars, serverVars>>

\* pending_queue.get(): every item taken counts as stale, the end signal included; a
\* feeder blocked on the full queue is woken.
ProcTakePending ==
  /\ ppc = "getwait" \/ (ppc = "get" /\ cancel_queue = <<>>)
  /\ Runs(processor) /\ taken < fed
  /\ hand' = taken + 1 /\ taken' = taken + 1
  /\ staleness_samples' = staleness_samples + 1
  /\ ppc' = "drain" /\ goal' = IF hand' = DONE THEN "done" ELSE "limit"
  /\ IF fed < DONE /\ fed = taken + PendingCap THEN Wakes(feeder) ELSE Goes
  /\ UNCHANGED <<lockQ, fed, waited, cancel_queue, taskVars, flagVars, current_param_version, mpc, epc,
                 syncVars, mqVars, serverVars>>

ProcGetWaits ==
  /\ ppc = "get" /\ Runs(processor)
  /\ cancel_queue = <<>> /\ taken = fed
  /\ ppc' = "getwait" /\ Suspends
  /\ UNCHANGED <<lockQ, fed, taken, goal, hand, waited, ProcRest>>

\* The condition of the three loops that wait for tasks to complete.
MustWait == IF goal = "limit" THEN NActive >= max_concurrent_samples ELSE NActive > 0

ProcDrain ==
  /\ ppc = "drain" /\ Runs(processor)
  /\ IF goal = "done" /\ ~MustWait
     THEN ppc' = "exit" /\ ready' = Append(Tail(ready), main) /\ UNCHANGED lockQ
     ELSE ppc' = (IF MustWait THEN "await" ELSE "condlock") /\ Acquire(processor)
  /\ UNCHANGED <<fed, taken, goal, hand, waited, ProcRest>>

\* With the lock: suspends in asyncio.wait and keeps it, unless pause() emptied active_tasks.
\* Then the loop awaits done_tasks again, which are done; before the first wait it is not
\* bound, which ends the processor.  The callbacks of tasks that are done already run next.
ProcAwait ==
  /\ ppc = "await" /\ Runs(processor) /\ Holds(processor)
  /\ IF NActive = 0
     THEN IF waited THEN ppc' = "drain" /\ Release(<<>>)
          ELSE ppc' = "dead" /\ ReleaseAndSuspend(<<main>>)
     ELSE /\ ppc' = "waiting" /\ UNCHANGED lockQ
          /\ ready' = Tail(ready) \o IF finished > 0 THEN <<waiter>> ELSE <<>>
  /\ UNCHANGED <<fed, taken, goal, hand, waited, ProcRest>>

\* asyncio.wait returns two callbacks after the first task completed ...
WaitReturns ==
  /\ Runs(waiter)
  /\ ready' = Append(Tail(ready), processor)
  /\ UNCHANGED <<lockQ, procVars, ProcRest>>

\* ... with every task done by then, which leaves active_tasks.  One that raised ends
\* the processor, which releases the lock on its way out.
ProcCollect ==
  /\ ppc = "waiting" /\ Runs(processor)
  /\ finished' = 0 /\ failed' = FALSE /\ waited' = TRUE
  /\ IF failed
     THEN ppc' = "dead" /\ ReleaseAndSuspend(<<main>>)
     ELSE ppc' = "drain" /\ Release(<<>>)
  /\ UNCHANGED <<fed, taken, goal, hand, cancel_queue, phase, failures, used, flagVars,
                 statVars, mpc, epc, syncVars, mqVars, serverVars>>

\* The condition of the waits on the condition variable.
StaysPaused == paused

\* The two condition waits: after a drain (then back to the top), and before a submission.
ProcCondition ==
  /\ ppc = "condlock" /\ Runs(processor) /\ Holds(processor)
  /\ IF StaysPaused
     THEN ppc' = "cwait" /\ ReleaseAndSuspend(<<>>) /\ UNCHANGED <<phase, hand>>
     ELSE IF goal = "limit"
     THEN /\ ppc' = "top" /\ Release(<<hand>>)
          /\ phase' = [phase EXCEPT ![hand] = "new"]
          /\ hand' = NoSample
     ELSE ppc' = "top" /\ Release(<<>>) /\ UNCHANGED <<phase, hand>>
  /\ UNCHANGED <<fed, taken, goal, waited, cancel_queue, finished, failed, failures, used,
                 flagVars, statVars, mpc, epc, syncVars, mqVars, serverVars>>

\* Notified: asks for the lock again.
ProcWoken ==
  /\ ppc = "cwait" /\ Runs(processor)
  /\ Acquire(processor)
  /\ ppc' = "condlock"
  /\ UNCHANGED <<fed, taken, goal, hand, waited, ProcRest>>

Processor ==
  \/ ProcTop \/ ProcSetPause \/ ProcTakeCancelled \/ ProcTakePending \/ ProcGetWaits
  \/ ProcDrain \/ ProcAwait \/ WaitReturns \/ ProcCollect \/ ProcCondition \/ ProcWoken

-----------------------------------------------------------------------------
(* _process_single_sample_streaming: one task per submitted sample *)

\* The task that runs ends: the first to do so triggers the callback of asyncio.wait.
Ends ==
  /\ finished' = finished + 1
  /\ ready' = Tail(ready) \o
       IF ppc = "waiting" /\ Asleep(waiter) /\ Asleep(processor) THEN <<waiter>> ELSE <<>>

TaskRest == <<lockQ, procVars, flagVars, statVars, mpc, epc, syncVars>>

\* The first stretch of the task sends the request; a server that was cancelled answers
\* at once that the request is cancelled.  The way there counts as part of this step
\* (PartialRollout has it).  A sample resumed after an interruption is used with the weights
\* of this segment: the code records its first version and its last one.
TaskStart(i) ==
  /\ phase[i] = "new" /\ Runs(i)
  /\ IF serverPaused
     THEN phase' = [phase EXCEPT ![i] = "cut"] /\ ready' = Append(Tail(ready), i) /\ UNCHANGED used
     ELSE phase' = [phase EXCEPT ![i] = "gen"] /\ Suspends /\ used' = [used EXCEPT ![i] = wver]
  /\ UNCHANGED <<TaskRest, cancel_queue, finished, failed, failures, mqVars, serverVars>>

\* A rollout server completes a request, or interrupts it when it is cancelled.
ServerAnswers(i) ==
  /\ phase[i] = "gen"
  /\ \E answer \in {"ret"} \cup IF serverPaused THEN {"cut"} ELSE {} :
       phase' = [phase EXCEPT ![i] = answer]
  /\ Wakes(i)
  /\ UNCHANGED <<TaskRest, cancel_queue, finished, failed, failures, used, mqVars, serverVars>>

\* Generation is complete: put_sample is called.
TaskPuts(i) ==
  /\ phase[i] = "ret" /\ Runs(i)
  /\ phase' = [phase EXCEPT ![i] = "put"]
  /\ Suspends
  /\ UNCHANGED <<TaskRest, cancel_queue, finished, failed, failures, used, mqVars, serverVars>>

\* The queue actor executes the call ...
QueuePuts(i) ==
  /\ phase[i] = "put"
  /\ mq' = Enqueue(mq, i, max_required_samples)
  /\ dropped' = dropped + IF IsFull(mq, max_required_samples) THEN 1 ELSE 0
  /\ phase' = [phase EXCEPT ![i] = "stored"]
  /\ UNCHANGED <<TaskRest, ready, cancel_queue, finished, failed, failures, used, serverVars>>

\* ... and the answer arrives.
QueueAnswers(i) ==
  /\ phase[i] = "stored"
  /\ phase' = [phase EXCEPT ![i] = "ack"]
  /\ Wakes(i)
  /\ UNCHANGED <<TaskRest, cancel_queue, finished, failed, failures, used, mqVars, serverVars>>

TaskEnds(i) ==
  /\ phase[i] = "ack" /\ Runs(i)
  /\ phase' = [phase EXCEPT ![i] = "done"] /\ Ends
  /\ UNCHANGED <<TaskRest, cancel_queue, failed, failures, used, mqVars, serverVars>>

\* A plausible fault: the interrupted sample is not kept for the next round.
KeepNothing(i) == cancel_queue

KeepCancelled(i) == Append(cancel_queue, i)

TaskRequeues(i) ==
  /\ phase[i] = "cut" /\ Runs(i)
  /\ cancel_queue' = KeepCancelled(i)
  /\ phase' = [phase EXCEPT ![i] = "idle"] /\ Ends
  /\ UNCHANGED <<TaskRest, failed, failures, used, mqVars, serverVars>>

\* Generation raised: the task ends with the exception, which whoever awaits it sees.
TaskFails(i) ==
  /\ phase[i] = "ret" /\ Runs(i) /\ failures < MaxFailures
  /\ failures' = failures + 1
  /\ phase' = [phase EXCEPT ![i] = "failed"] /\ Ends /\ failed' = TRUE
  /\ UNCHANGED <<TaskRest, cancel_queue, used, mqVars, serverVars>>

Task(i) == TaskStart(i) \/ TaskPuts(i) \/ TaskEnds(i) \/ TaskRequeues(i) \/ TaskFails(i)

TaskEvent(i) == ServerAnswers(i) \/ QueuePuts(i) \/ QueueAnswers(i)

-----------------------------------------------------------------------------
(* pause, update_param_version and resume, which the synchronizer calls one after  *)
(* the other: at most one "sync" coroutine at a time.                              *)

SyncRest == <<procVars, cancel_queue, phase, failures, used, running, mpc, epc, sver, mqVars>>
SyncSame == <<finished, failed, paused, monitor_loop_trigger, statVars, ssum, serverVars>>

\* `async with self.lock' at the start of each of the three.
SyncEnters ==
  /\ Runs(sync)
  /\ \/ spc = "pause" /\ spc' = "pauseL"
     \/ spc = "update" /\ spc' = "updL"
     \/ spc = "resume" /\ spc' = "resL"
  /\ Acquire(sync)
  /\ UNCHANGED <<SyncRest, SyncSame>>

PauseLocked ==
  /\ spc = "pauseL" /\ Runs(sync) /\ Holds(sync)
  /\ paused' = TRUE
  /\ spc' = IF Partial THEN "cancel" ELSE "gather"
  /\ Suspends
  /\ UNCHANGED <<SyncRest, lockQ, finished, failed, monitor_loop_trigger, statVars, ssum, serverVars>>

\* gather(*active_tasks): every task has ended.
Gathered == Unfinished = {}

\* gather(..., return_exceptions=True) swallows failures; active_tasks is cleared.
PauseGathered ==
  /\ spc = "gather" /\ Gathered
  /\ finished' = 0 /\ failed' = FALSE
  /\ spc' = "kv"
  /\ UNCHANGED <<SyncRest, loopVars, paused, monitor_loop_trigger, statVars, ssum, serverVars>>

\* clear_kv_cache has returned; only now is the monitor told to keep still.
PauseReturns ==
  /\ spc = "kv" /\ Runs(sync)
  /\ monitor_loop_trigger' = FALSE
  /\ ReleaseAndSuspend(<<>>)
  /\ spc' = "paused"
  /\ UNCHANGED <<SyncRest, finished, failed, paused, statVars, ssum, serverVars>>

Outstanding == NActive + Len(cancel_queue)

\* len(active_tasks) and cancel_queue.qsize() are read before the queue size is awaited.
UpdateLocked ==
  /\ spc = "updL" /\ Runs(sync) /\ Holds(sync)
  /\ current_param_version' = sver
  /\ ssum' = Outstanding
  /\ spc' = "size" /\ Suspends
  /\ UNCHANGED <<SyncRest, lockQ, finished, failed, paused, monitor_loop_trigger,
                 staleness_samples, serverVars>>

\* A plausible fault: the reset forgets the samples still in the message queue.
CountNothing == 0

QueueSize == Len(mq)

\* A plausible fault: the counter is increased where it should be reset.
Accumulated == staleness_samples + ssum

Reset == ssum

UpdateCounted ==
  /\ spc = "size" /\ Runs(sync)
  /\ staleness_samples' = Reset
  /\ spc' = "report" /\ Suspends
  /\ UNCHANGED <<SyncRest, lockQ, finished, failed, paused, monitor_loop_trigger,
                 current_param_version, ssum, serverVars>>

\* put_validate has returned.
UpdateReturns ==
  /\ spc = "report" /\ Runs(sync)
  /\ ReleaseAndSuspend(<<>>)
  /\ spc' = "resume"
  /\ UNCHANGED <<SyncRest, SyncSame>>

\* With partial rollout the servers are told first, and that suspends.
ResumeLocked ==
  /\ spc = "resL" /\ Runs(sync) /\ Holds(sync)
  /\ spc' = "server" /\ IF Partial THEN Suspends ELSE Goes
  /\ UNCHANGED <<SyncRest, lockQ, SyncSame>>

ResumeNotifies == Notified

ResumeReturns ==
  /\ spc = "server" /\ Runs(sync) /\ Holds(sync)
  /\ paused' = FALSE /\ monitor_loop_trigger' = TRUE
  /\ ReleaseAndSuspend(ResumeNotifies)
  /\ spc' = "idle"
  /\ UNCHANGED <<SyncRest, finished, failed, statVars, ssum, serverVars>>

\* What sync waits for happens: the servers are cancelled, the tasks have ended and the
\* cache is cleared, the queue size is read, the result is stored, resume is called (it
\* depends on the result of update_param_version), the servers go on.
SyncAnswer ==
  /\ Asleep(sync)
  /\ spc \in {"cancel", "kv", "size", "report", "resume", "server"}
  /\ IF spc = "cancel" THEN spc' = "gather" /\ UNCHANGED ready ELSE Wakes(sync) /\ UNCHANGED spc
  /\ serverPaused' = CASE spc = "cancel" -> TRUE [] spc = "server" -> FALSE [] OTHER -> serverPaused
  /\ ssum' = IF spc = "size" THEN ssum + QueueSize ELSE ssum
  /\ UNCHANGED <<SyncRest, lockQ, finished, failed, paused, monitor_loop_trigger, statVars, wver>>

Sync ==
  \/ SyncEnters \/ PauseLocked \/ PauseReturns \/ UpdateLocked \/ UpdateCounted
  \/ UpdateReturns \/ ResumeLocked \/ ResumeReturns

-----------------------------------------------------------------------------
(* _async_monitor_loop and the end of _streaming_generation_main *)

MonitorRest == <<procVars, cancel_queue, taskVars, running, monitor_loop_trigger,
                 statVars, epc, syncVars, mqVars, serverVars>>

\* The 10 s timer fires at any time.
MonitorTimer ==
  /\ mpc = "sleep" /\ Asleep(monitor) /\ running
  /\ Wakes(monitor)
  /\ UNCHANGED <<MonitorRest, lockQ, mpc, paused>>

\* The check and the effect are separated by the lock.
MonitorChecks ==
  /\ mpc = "sleep" /\ Runs(monitor)
  /\ IF monitor_loop_trigger /\ ~_should_pause_generation
     THEN mpc' = "unpause" /\ Acquire(monitor)
     ELSE Suspends /\ UNCHANGED <<mpc, lockQ>>
  /\ UNCHANGED <<MonitorRest, paused>>

MonitorUnpauses ==
  /\ mpc = "unpause" /\ Runs(monitor) /\ Holds(monitor)
  /\ paused' = FALSE
  /\ ReleaseAndSuspend(Notified)
  /\ mpc' = "sleep"
  /\ UNCHANGED MonitorRest

MainRest == <<procVars, cancel_queue, taskVars, paused, monitor_loop_trigger, statVars, mpc,
              syncVars, serverVars>>

\* The processor has ended, normally or with an exception: the final None is put,
MainCalls ==
  /\ epc = "run" /\ Runs(main)
  /\ epc' = "put" /\ Suspends
  /\ UNCHANGED <<MainRest, lockQ, running, mqVars>>

MainNonePut ==
  /\ epc = "put"
  /\ mq' = Enqueue(mq, NoSample, max_required_samples)
  /\ dropped' = dropped + IF IsFull(mq, max_required_samples) THEN 1 ELSE 0
  /\ epc' = "sent" /\ Wakes(main)
  /\ UNCHANGED <<MainRest, lockQ, running>>

MainAsksLock ==
  /\ epc = "sent" /\ Runs(main)
  /\ Acquire(main)
  /\ epc' = "lock"
  /\ UNCHANGED <<MainRest, running, mqVars>>

\* and the monitor is told to end.
MainStops ==
  /\ epc = "lock" /\ Runs(main) /\ Holds(main)
  /\ running' = FALSE
  /\ ReleaseAndSuspend(<<>>)
  /\ epc' = "done"
  /\ UNCHANGED <<MainRest, mqVars>>

\* One stretch of the coroutine at the head of the event loop.
LoopStep ==
  \/ Feed \/ Processor \/ Sync \/ MonitorChecks \/ MonitorUnpauses
  \/ MainCalls \/ MainAsksLock \/ MainStops
  \/ \E i \in Samples : Task(i)

=============================================================================
