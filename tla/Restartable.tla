---------------------------- MODULE Restartable ----------------------------
(***************************************************************************)
(* What checkpointing promises: a computation whose state is lost at a     *)
(* restart, and which then goes on from the state it last made durable,    *)
(* all of it and nothing of any other moment.                              *)
(*                                                                         *)
(* A state is a history per part (per model and rank): what it was made    *)
(* from, in order.                                                         *)
(***************************************************************************)
EXTENDS Naturals, Sequences

CONSTANT Parts

VARIABLES mem, durable

Extends(s, t) == Len(t) <= Len(s) /\ SubSeq(s, 1, Len(t)) = t

Init ==
  /\ mem = [p \in Parts |-> <<>>]
  /\ durable = mem

\* The computation goes on: histories grow.
Work ==
  /\ \A p \in Parts : Extends(mem'[p], mem[p])
  /\ UNCHANGED durable

\* A checkpoint of the whole state, in one step.
Persist == durable' = mem /\ UNCHANGED mem

\* What was done since the last checkpoint is lost.
Restart == mem' = durable /\ UNCHANGED durable

Next == Work \/ Persist \/ Restart

Spec == Init /\ [][Next]_<<mem, durable>>

=============================================================================
