------------------------ MODULE MessageQueue_proofs ------------------------
(***************************************************************************)
(* Proofs about the message queue actor, for every set of consumers, queue *)
(* size and number of puts: its invariants, and that it implements the     *)
(* abstract lossy FIFO.                                                    *)
(***************************************************************************)
EXTENDS MessageQueue, SequenceTheorems, TLAPS

-----------------------------------------------------------------------------
(* The deque *)

\* A put leaves the new element last and shifts the others by one when it drops one.
LEMMA EnqueueLemma ==
  ASSUME NEW S, NEW q \in Seq(S), NEW x \in S, NEW cap \in Nat, cap > 0, Len(q) <= cap
  PROVE  /\ Enqueue(q, x, cap) \in Seq(S)
         /\ Len(Enqueue(q, x, cap)) = IF Len(q) = cap THEN Len(q) ELSE Len(q) + 1
         /\ \A i \in 1..Len(Enqueue(q, x, cap)) :
              Enqueue(q, x, cap)[i] =
                IF i = Len(Enqueue(q, x, cap)) THEN x
                ELSE IF Len(q) = cap THEN q[i + 1] ELSE q[i]
<1>1. /\ MakeRoom(q, cap) \in Seq(S)
      /\ Len(MakeRoom(q, cap)) = IF Len(q) = cap THEN Len(q) - 1 ELSE Len(q)
      /\ \A i \in 1..Len(MakeRoom(q, cap)) :
           MakeRoom(q, cap)[i] = IF Len(q) = cap THEN q[i + 1] ELSE q[i]
  <2>1. CASE Len(q) = cap
    <3>1. q # <<>> /\ MakeRoom(q, cap) = Tail(q)
      BY <2>1 DEF MakeRoom, IsFull
    <3> QED
      BY <2>1, <3>1, HeadTailProperties
  <2>2. CASE Len(q) # cap
    BY <2>2 DEF MakeRoom, IsFull
  <2> QED
    BY <2>1, <2>2
<1>2. PICK room : room = MakeRoom(q, cap)
  OBVIOUS
<1>3. /\ Append(room, x) \in Seq(S) /\ Len(Append(room, x)) = Len(room) + 1
      /\ \A i \in 1..Len(room) : Append(room, x)[i] = room[i]
      /\ Append(room, x)[Len(room) + 1] = x
  BY <1>1, <1>2, AppendProperties
<1>4. Len(q) \in Nat /\ Len(room) \in Nat /\ Len(room) + 1 <= cap
  BY <1>1, <1>2, LenProperties
<1>5. Enqueue(q, x, cap) = Append(room, x)
  BY <1>2, <1>3, <1>4 DEF Enqueue, Within
<1> QED
  BY <1>1, <1>2, <1>3, <1>4, <1>5

-----------------------------------------------------------------------------
(* Invariants *)

\* The conjunction is inductive: the contents need the types, and the counters the
\* bound on the length.
IInv == TypeOK /\ Contents /\ NoLostWakeup /\ Accounting

LEMMA InitIInv == Init => IInv
BY QueueAssumption DEF Init, IInv, TypeOK, Contents, NoLostWakeup, Accounting

LEMMA PutIInv == IInv /\ put_sample => IInv'
<1> SUFFICES ASSUME IInv, put_sample PROVE IInv'
  OBVIOUS
<1> USE QueueAssumption DEF IInv, TypeOK, put_sample
<1>1. Len(queue) <= max_queue_size /\ total_produced + 1 \in Puts
  BY DEF Contents, Puts
<1> DEFINE q == Enqueue(queue, total_produced + 1, max_queue_size)
<1>2. /\ q \in Seq(Puts)
      /\ Len(q) = IF Len(queue) = max_queue_size THEN Len(queue) ELSE Len(queue) + 1
      /\ \A i \in 1..Len(q) :
           q[i] = IF i = Len(q) THEN total_produced + 1
                  ELSE IF Len(queue) = max_queue_size THEN queue[i + 1] ELSE queue[i]
  <2> HIDE DEF put_sample, TypeOK, IInv
  <2>1. queue \in Seq(Puts) /\ max_queue_size \in Nat /\ max_queue_size > 0
    BY DEF TypeOK, IInv
  <2> QED
    BY <1>1, <2>1, EnqueueLemma
<1>3. queue' = q
  OBVIOUS
<1>4. TypeOK'
  <2>1. dropped_samples' \in Nat
    BY DEF IsFull
  <2>2. getter' \in [Consumers -> {"idle", "waiting", "notified"}]
    BY DEF NotifyAll
  <2> QED
    BY <1>2, <1>3, <2>1, <2>2
<1>5. Contents'
  <2>1. Len(queue) \in Nat /\ Len(queue') \in Nat /\ total_produced \in Nat
    BY <1>2, <1>3, LenProperties
  <2>2. Len(queue') <= max_queue_size
    BY <1>1, <1>2, <1>3
  <2>3. ASSUME NEW i \in 1..Len(queue')
        PROVE  queue'[i] = total_produced' - Len(queue') + i
    <3>1. CASE i = Len(queue')
      BY <1>2, <1>3, <2>1, <3>1
    <3>2. CASE i # Len(queue') /\ Len(queue) = max_queue_size
      <4>1. i + 1 \in 1..Len(queue) /\ queue'[i] = queue[i + 1]
        BY <1>2, <1>3, <2>1, <3>2
      <4>2. queue[i + 1] = total_produced - Len(queue) + (i + 1)
        BY <4>1 DEF Contents
      <4> QED
        BY <1>2, <1>3, <2>1, <3>2, <4>1, <4>2
    <3>3. CASE i # Len(queue') /\ Len(queue) # max_queue_size
      <4>1. i \in 1..Len(queue) /\ queue'[i] = queue[i]
        BY <1>2, <1>3, <2>1, <3>3
      <4>2. queue[i] = total_produced - Len(queue) + i
        BY <4>1 DEF Contents
      <4> QED
        BY <1>2, <1>3, <2>1, <3>3, <4>1, <4>2
    <3> QED
      BY <3>1, <3>2, <3>3
  <2> QED
    BY <2>2, <2>3 DEF Contents
<1>6. NoLostWakeup'
  BY DEF NoLostWakeup, NotifyAll
<1>7. Accounting'
  BY <1>1, <1>2, <1>3 DEF Accounting, IsFull
<1> QED
  BY <1>4, <1>5, <1>6, <1>7

\* Taking the head keeps the contents contiguous.
LEMMA TakeLemma ==
  ASSUME IInv, queue # <<>>, queue' = Tail(queue), UNCHANGED total_produced
  PROVE  queue' \in Seq(Puts) /\ Contents' /\ Len(queue') = Len(queue) - 1
<1> USE DEF IInv, TypeOK
<1>1. /\ Tail(queue) \in Seq(Puts) /\ Len(Tail(queue)) = Len(queue) - 1
      /\ \A i \in 1..Len(Tail(queue)) : Tail(queue)[i] = queue[i + 1]
  BY HeadTailProperties
<1> QED
  BY <1>1, QueueAssumption DEF Contents

\* What get_sample hands out is the oldest sample held.
LEMMA HeadLemma ==
  ASSUME IInv, queue # <<>>
  PROVE  Head(queue) = total_produced - Len(queue) + 1 /\ Len(queue) > 0
<1>1. Head(queue) = queue[1] /\ Len(queue) \in Nat \ {0}
  BY EmptySeq DEF IInv, TypeOK
<1> QED
  BY <1>1 DEF IInv, Contents, TypeOK

LEMMA LookAgainIInv ==
  ASSUME NEW c \in Consumers, IInv, LookAgain(c)
  PROVE  IInv'
<1> USE DEF IInv, TypeOK
<1>1. CASE Return(c) /\ queue # <<>>
  <2>1. queue' = Tail(queue) /\ delivered' = Head(queue) /\ total_consumed' = total_consumed + 1
    BY <1>1 DEF Return
  <2>2. queue' \in Seq(Puts) /\ Contents' /\ Len(queue') = Len(queue) - 1
    BY <1>1, <2>1, TakeLemma DEF LookAgain
  <2>3. delivered' \in Nat
    BY <1>1, <2>1, HeadTailProperties DEF Puts
  <2>4. getter' = [getter EXCEPT ![c] = "idle"]
    BY <1>1 DEF Return
  <2>5. NoLostWakeup'
    BY <1>1, <2>4 DEF NoLostWakeup
  <2>6. Accounting'
    <3>1. Len(queue) \in Nat /\ UNCHANGED <<dropped_samples, total_produced>>
      BY LenProperties DEF LookAgain
    <3> QED
      BY <2>1, <2>2, <3>1 DEF Accounting
  <2>7. TypeOK'
    <3>1. /\ UNCHANGED <<val_queue, running, total_produced, dropped_samples, current_param_version>>
          /\ total_consumed' \in Nat /\ getter' \in [Consumers -> {"idle", "waiting", "notified"}]
      BY <2>1, <2>4 DEF LookAgain
    <3> QED
      BY <2>2, <2>3, <3>1
  <2> QED
    BY <2>2, <2>5, <2>6, <2>7
<1>2. CASE Return(c) /\ queue = <<>>
  <2>1. getter' = [getter EXCEPT ![c] = "idle"] /\ UNCHANGED <<queue, delivered, total_consumed>>
    BY <1>2 DEF Return
  <2> QED
    BY <2>1 DEF LookAgain, Contents, NoLostWakeup, Accounting
<1>3. CASE ~Return(c)
  <2>1. /\ queue = <<>> /\ running
        /\ getter' = [getter EXCEPT ![c] = "waiting"]
        /\ UNCHANGED <<queue, delivered, total_consumed>>
    BY <1>3 DEF LookAgain
  <2> QED
    BY <2>1 DEF LookAgain, Contents, NoLostWakeup, Accounting
<1> QED
  BY <1>1, <1>2, <1>3

LEMMA OtherIInv ==
  ASSUME IInv, update_param_version \/ clear_queue \/ shutdown \/ put_validate \/ get_validate
  PROVE  IInv'
<1> USE QueueAssumption DEF IInv, TypeOK, Contents, NoLostWakeup, Accounting
<1>1. CASE update_param_version
  BY <1>1 DEF update_param_version
<1>2. CASE clear_queue
  BY <1>2, EmptySeq DEF clear_queue
<1>3. CASE shutdown
  BY <1>3 DEF shutdown, NotifyAll
<1>4. CASE put_validate
  BY <1>4 DEF put_validate
<1>5. CASE get_validate
  BY <1>5 DEF get_validate
<1> QED
  BY <1>1, <1>2, <1>3, <1>4, <1>5

LEMMA NextIInv == IInv /\ [Next]_vars => IInv'
<1> SUFFICES ASSUME IInv, [Next]_vars PROVE IInv'
  OBVIOUS
<1>1. CASE put_sample
  BY <1>1, PutIInv
<1>2. ASSUME NEW c \in Consumers, get_sample(c) \/ ResumeGet(c) PROVE IInv'
  BY <1>2, LookAgainIInv DEF get_sample, ResumeGet
<1>3. CASE update_param_version \/ clear_queue \/ shutdown \/ put_validate \/ get_validate
  BY <1>3, OtherIInv
<1>4. CASE UNCHANGED vars
  BY <1>4 DEF vars, IInv, TypeOK, Contents, NoLostWakeup, Accounting
<1> QED
  BY <1>1, <1>2, <1>3, <1>4 DEF Next

THEOREM Invariance == Spec => []IInv
BY InitIInv, NextIInv, PTL DEF Spec

\* The state of the actor keeps its types: every number is a count.
THEOREM TypeCorrect == Spec => []TypeOK
<1>1. IInv => TypeOK
  BY DEF IInv
<1> QED
  BY <1>1, Invariance, PTL

\* The queue holds the newest samples, in put order, within its bound.
THEOREM ContentsHolds == Spec => []Contents
<1>1. IInv => Contents
  BY DEF IInv
<1> QED
  BY <1>1, Invariance, PTL

\* No get_sample call sleeps on a sample, or on a queue that was shut down.
THEOREM NoLostWakeupHolds == Spec => []NoLostWakeup
<1>1. IInv => NoLostWakeup
  BY DEF IInv
<1> QED
  BY <1>1, Invariance, PTL

\* The statistics never claim more than was put.
THEOREM AccountingHolds == Spec => []Accounting
<1>1. IInv => Accounting
  BY DEF IInv
<1> QED
  BY <1>1, Invariance, PTL

-----------------------------------------------------------------------------
(* The actor implements the lossy FIFO *)

LEMMA InitFifo == Init => Fifo!Init
<1> SUFFICES ASSUME Init PROVE Fifo!Init
  OBVIOUS
<1>1. Len(queue) = 0
  BY DEF Init
<1>2. total_produced = 0
  BY DEF Init
<1>3. Gone = 0
  BY <1>1, <1>2 DEF Gone
<1> QED
  BY <1>3 DEF Init, Fifo!Init

\* A step of get_sample hands out the oldest message or changes nothing the FIFO sees.
LEMMA LookAgainFifo ==
  ASSUME NEW c \in Consumers, IInv, LookAgain(c)
  PROVE  [Fifo!Next]_Fifo!vars
<1>1. CASE Return(c) /\ queue # <<>>
  <2>1. queue' = Tail(queue) /\ delivered' = Head(queue) /\ UNCHANGED total_produced
    BY <1>1 DEF Return, LookAgain
  <2>2. Len(queue') = Len(queue) - 1
    BY <1>1, <2>1, TakeLemma
  <2>3. Head(queue) = total_produced - Len(queue) + 1 /\ Len(queue) > 0
    BY <1>1, HeadLemma
  <2>4. total_produced \in Nat /\ Len(queue) \in Nat
    BY DEF IInv, TypeOK
  <2>5. Gone < total_produced /\ Gone' = Gone + 1 /\ delivered' = Gone + 1
    <3>1. delivered' = total_produced - Len(queue) + 1 /\ total_produced' = total_produced
      BY <2>1, <2>3
    <3> QED
      BY <2>2, <2>3, <2>4, <3>1 DEF Gone
  <2>6. Fifo!Receive
    BY <2>1, <2>5 DEF Fifo!Receive
  <2> QED
    BY <2>6 DEF Fifo!Next
<1>2. CASE ~(Return(c) /\ queue # <<>>)
  BY <1>2 DEF LookAgain, Return, Fifo!vars, Gone
<1> QED
  BY <1>1, <1>2

LEMMA StepFifo == IInv /\ [Next]_vars => [Fifo!Next]_Fifo!vars
<1> SUFFICES ASSUME IInv, [Next]_vars PROVE [Fifo!Next]_Fifo!vars
  OBVIOUS
<1>1. CASE put_sample
  <2>1. /\ total_produced \in Nat /\ Len(queue) \in Nat /\ Len(queue) <= max_queue_size
        /\ queue \in Seq(Puts) /\ total_produced + 1 \in Puts
    BY DEF IInv, TypeOK, Contents, Puts
  <2>2. Len(queue') = IF Len(queue) = max_queue_size THEN Len(queue) ELSE Len(queue) + 1
    BY <1>1, <2>1, EnqueueLemma, QueueAssumption DEF put_sample
  <2>3. /\ total_produced' = total_produced + 1 /\ UNCHANGED delivered
        /\ Gone' = IF total_produced - Gone = max_queue_size THEN Gone + 1 ELSE Gone
    <3>1. total_produced' = total_produced + 1 /\ UNCHANGED delivered
      BY <1>1 DEF put_sample
    <3>2. max_queue_size \in Nat /\ total_produced \in Nat /\ Len(queue) \in Nat
      BY <2>1, QueueAssumption
    <3> QED
      BY <2>2, <3>1, <3>2 DEF Gone
  <2>4. Fifo!Send
    BY <2>3 DEF Fifo!Send
  <2> QED
    BY <2>4 DEF Fifo!Next
<1>2. ASSUME NEW c \in Consumers, get_sample(c) \/ ResumeGet(c)
      PROVE  [Fifo!Next]_Fifo!vars
  BY <1>2, LookAgainFifo DEF get_sample, ResumeGet
<1>3. CASE clear_queue
  <2>1. Gone' = total_produced /\ UNCHANGED <<total_produced, delivered>>
    BY <1>3 DEF clear_queue, Gone, IInv, TypeOK
  <2>2. Fifo!Clear
    BY <2>1 DEF Fifo!Clear
  <2> QED
    BY <2>2 DEF Fifo!Next
<1>4. CASE update_param_version \/ shutdown \/ put_validate \/ get_validate
  BY <1>4 DEF update_param_version, shutdown, put_validate, get_validate, Fifo!vars, Gone
<1>5. CASE UNCHANGED vars
  BY <1>5 DEF vars, Fifo!vars, Gone
<1> QED
  BY <1>1, <1>2, <1>3, <1>4, <1>5 DEF Next

\* Whatever the consumers, the queue size and the number of puts, messages leave the
\* actor in the order they came, each at most once, and only the oldest are lost.
THEOREM Implements == Spec => ImplementsFifo
<1>1. Init => Fifo!Init
  BY InitFifo
<1>2. IInv /\ [Next]_vars => [Fifo!Next]_Fifo!vars
  BY StepFifo
<1> QED
  BY <1>1, <1>2, Invariance, PTL DEF Spec, ImplementsFifo, Fifo!Spec

=============================================================================
