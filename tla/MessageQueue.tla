---------------------------- MODULE MessageQueue ----------------------------
(***************************************************************************)
(* The MessageQueue actor between the rollouter and the trainer            *)
(* (experimental/fully_async_policy/message_queue.py).  The actor is one   *)
(* asyncio event loop that admits max_concurrency calls at a time.  Every  *)
(* method takes the same lock and only get_sample suspends while it is     *)
(* inside (condition.wait gives the lock up), so a method is one atomic    *)
(* step, and get_sample is one step per stretch between two suspensions.   *)
(* A sample is represented by its put number.                              *)
(***************************************************************************)
EXTENDS DropQueue, FiniteSets

CONSTANTS
  Consumers,        \* callers of get_sample
  max_queue_size,
  max_concurrency,  \* calls the actor admits at a time (20 in the code)
  MaxPuts           \* bound: puts the environment makes

ASSUME QueueAssumption ==
  /\ max_queue_size \in Nat \ {0}
  /\ MaxPuts \in Nat
  /\ IsFiniteSet(Consumers)
  /\ max_concurrency \in Nat
  /\ Cardinality(Consumers) < max_concurrency

VARIABLES
  queue,                  \* the deque, oldest first
  val_queue,              \* number of validation results waiting
  running,
  total_produced, total_consumed, dropped_samples,
  current_param_version,
  getter,                 \* getter[c]: where c's get_sample call is
  delivered               \* history: the sample get_sample returned last, 0 if none

vars == <<queue, val_queue, running, total_produced, total_consumed, dropped_samples,
          current_param_version, getter, delivered>>

\* Samples, by put number.
Puts == Nat \ {0}

TypeOK ==
  /\ queue \in Seq(Puts)
  /\ val_queue \in Nat
  /\ running \in BOOLEAN
  /\ total_produced \in Nat /\ total_consumed \in Nat /\ dropped_samples \in Nat
  /\ current_param_version \in Nat
  /\ getter \in [Consumers -> {"idle", "waiting", "notified"}]
  /\ delivered \in Nat

Init ==
  /\ queue = <<>> /\ val_queue = 0
  /\ running = TRUE
  /\ total_produced = 0 /\ total_consumed = 0 /\ dropped_samples = 0
  /\ current_param_version = 0
  /\ getter = [c \in Consumers |-> "idle"]
  /\ delivered = 0

\* Calls suspended inside the actor, and whether it admits one more.
Blocked == {c \in Consumers : getter[c] # "idle"}
SlotFree == Cardinality(Blocked) < max_concurrency

\* A plausible fault: the notification is forgotten.
NotifyNobody(g) == g

\* condition.notify_all: every waiter will re-acquire the lock and look again.
NotifyAll(g) == [c \in Consumers |-> IF g[c] = "waiting" THEN "notified" ELSE g[c]]

put_sample ==
  /\ SlotFree
  /\ total_produced < MaxPuts
  /\ queue' = Enqueue(queue, total_produced + 1, max_queue_size)
  /\ dropped_samples' = dropped_samples + IF IsFull(queue, max_queue_size) THEN 1 ELSE 0
  /\ total_produced' = total_produced + 1
  /\ getter' = NotifyAll(getter)
  /\ UNCHANGED <<val_queue, running, total_consumed, current_param_version, delivered>>

\* The part of get_sample after its wait loop: closed and empty returns None.
Return(c) ==
  /\ getter' = [getter EXCEPT ![c] = "idle"]
  /\ \/ /\ queue # <<>>
        /\ delivered' = Head(queue)
        /\ queue' = Tail(queue)
        /\ total_consumed' = total_consumed + 1
     \/ /\ queue = <<>> /\ ~running
        /\ UNCHANGED <<queue, delivered, total_consumed>>

\* A plausible fault: a notified call takes a sample without looking at the queue again.
ResumeUnchecked(c) ==
  /\ getter[c] = "notified"
  /\ getter' = [getter EXCEPT ![c] = "idle"]
  /\ delivered' = total_consumed + dropped_samples + 1
  /\ queue' = IF queue = <<>> THEN queue ELSE Tail(queue)
  /\ total_consumed' = total_consumed + 1
  /\ UNCHANGED <<val_queue, running, total_produced, dropped_samples, current_param_version>>

\* The head of get_sample's wait loop, on entry and after each notification.
LookAgain(c) ==
  /\ \/ Return(c)
     \/ /\ queue = <<>> /\ running
        /\ getter' = [getter EXCEPT ![c] = "waiting"]
        /\ UNCHANGED <<queue, delivered, total_consumed>>
  /\ UNCHANGED <<val_queue, running, total_produced, dropped_samples, current_param_version>>

get_sample(c) == getter[c] = "idle" /\ SlotFree /\ LookAgain(c)

ResumeGet(c) == getter[c] = "notified" /\ LookAgain(c)

\* The synchronizer passes the trainer's versions on, one per batch at most.
update_param_version ==
  /\ SlotFree
  /\ current_param_version < total_consumed
  /\ current_param_version' = current_param_version + 1
  /\ UNCHANGED <<queue, val_queue, running, total_produced, total_consumed, dropped_samples,
                 getter, delivered>>

clear_queue ==
  /\ SlotFree
  /\ queue' = <<>>
  /\ UNCHANGED <<val_queue, running, total_produced, total_consumed, dropped_samples,
                 current_param_version, getter, delivered>>

shutdown ==
  /\ SlotFree
  /\ running' = FALSE
  /\ getter' = NotifyAll(getter)
  /\ UNCHANGED <<queue, val_queue, total_produced, total_consumed, dropped_samples,
                 current_param_version, delivered>>

\* One validation result per parameter version is ever put.
put_validate ==
  /\ SlotFree
  /\ val_queue < current_param_version
  /\ val_queue' = val_queue + 1
  /\ UNCHANGED <<queue, running, total_produced, total_consumed, dropped_samples,
                 current_param_version, getter, delivered>>

\* A plausible fault: a result is taken without looking whether there is one.
GetValidateUnchecked ==
  /\ SlotFree
  /\ val_queue' = val_queue - 1
  /\ UNCHANGED <<queue, running, total_produced, total_consumed, dropped_samples,
                 current_param_version, getter, delivered>>

\* get_validate never waits: on an empty queue it answers None and changes nothing.
get_validate ==
  /\ SlotFree
  /\ val_queue > 0
  /\ val_queue' = val_queue - 1
  /\ UNCHANGED <<queue, running, total_produced, total_consumed, dropped_samples,
                 current_param_version, getter, delivered>>

Next ==
  \/ put_sample
  \/ \E c \in Consumers : get_sample(c) \/ ResumeGet(c)
  \/ update_param_version \/ clear_queue \/ shutdown
  \/ put_validate \/ get_validate

\* The event loop resumes a notified call sooner or later.
Fairness == \A c \in Consumers : WF_vars(ResumeGet(c))

Spec == Init /\ [][Next]_vars /\ Fairness

-----------------------------------------------------------------------------
(* Properties *)

\* The deque never exceeds its bound and holds exactly the newest samples, in put
\* order, whatever mix of drops, gets and clears came before: the numbers are
\* contiguous and end at the last put.
Contents ==
  /\ Len(queue) <= max_queue_size
  /\ \A i \in 1..Len(queue) : queue[i] = total_produced - Len(queue) + i

\* No lost wake-up: while a sample is there, or after shutdown, no get_sample call
\* sleeps without a notification on its way, although notifications are sent before
\* the callers run and another caller may take the sample first.
NoLostWakeup ==
  queue # <<>> \/ ~running => \A c \in Consumers : getter[c] # "waiting"

\* The counters of get_statistics never claim more than was put: every put is
\* consumed, dropped, still queued, or was cleared.
Accounting == total_consumed + dropped_samples + Len(queue) <= total_produced

\* Every get_sample call that is open after shutdown returns, with a sample or with
\* None: no consumer is left hanging on a queue that nobody fills any more.
ShutdownReleases ==
  \A c \in Consumers : ~running /\ getter[c] # "idle" ~> getter[c] = "idle"

\* Messages that have left, whichever way.
Gone == total_produced - Len(queue)

\* The abstract queue, under the mapping that counts what has left.
Fifo == INSTANCE LossyFifo WITH
          Cap <- max_queue_size, sent <- total_produced,
          gone <- Gone, last <- delivered

\* The actor implements the abstract lossy FIFO.
ImplementsFifo == Fifo!Spec

=============================================================================
