----------------------------- MODULE LossyFifo -----------------------------
(***************************************************************************)
(* What the message queue promises: messages, numbered in the order they   *)
(* are put, leave in that order; each is handed out at most once; at most  *)
(* Cap are held; one that is never handed out was the oldest of a full     *)
(* queue or was cleared on purpose.  How calls wait is not part of it.     *)
(***************************************************************************)
EXTENDS Integers

CONSTANT Cap
VARIABLES
  sent,   \* messages put so far: message k is the k-th put
  gone,   \* messages that have left, whichever way: 1..gone
  last    \* the message handed out last, 0 before the first

vars == <<sent, gone, last>>

TypeOK == sent \in Nat /\ gone \in Nat /\ last \in Nat

Init == sent = 0 /\ gone = 0 /\ last = 0

Send ==
  /\ sent' = sent + 1
  /\ gone' = IF sent - gone = Cap THEN gone + 1 ELSE gone
  /\ UNCHANGED last

Receive ==
  /\ gone < sent
  /\ gone' = gone + 1
  /\ last' = gone + 1
  /\ UNCHANGED sent

Clear == gone' = sent /\ UNCHANGED <<sent, last>>

Next == Send \/ Receive \/ Clear

Spec == Init /\ [][Next]_vars

\* At most Cap messages are held, and what was handed out has left.
Bounded == last <= gone /\ gone <= sent /\ sent - gone <= Cap

=============================================================================
