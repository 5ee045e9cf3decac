----------------------------- MODULE DropQueue -----------------------------
(***************************************************************************)
(* The deque of the message queue actor as a data structure: a bounded     *)
(* FIFO whose put never blocks and makes room by dropping the oldest       *)
(* element.  MessageQueue models the actor around it; FullyAsync uses it   *)
(* where the rollouter's and the trainer's calls reach the actor.          *)
(***************************************************************************)
EXTENDS Integers, Sequences

IsFull(q, cap) == Len(q) >= cap

\* A plausible fault: room is made at the wrong end (pop instead of popleft).
MakeRoomNewest(q, cap) == IF IsFull(q, cap) THEN SubSeq(q, 1, Len(q) - 1) ELSE q

\* A plausible fault: room is made one put early, so that a sample is lost although there is room.
MakeRoomEarly(q, cap) == IF Len(q) + 1 >= cap /\ q # <<>> THEN Tail(q) ELSE q

\* put_sample's first step: popleft when the queue is full.
MakeRoom(q, cap) == IF IsFull(q, cap) THEN Tail(q) ELSE q

\* An append to a deque(maxlen) that holds maxlen elements discards the oldest as well.
Within(q, cap) == IF Len(q) > cap THEN Tail(q) ELSE q

Enqueue(q, x, cap) == Within(Append(MakeRoom(q, cap), x), cap)

=============================================================================
