------------------------------- MODULE Rounds -------------------------------
(***************************************************************************)
(* What fully asynchronous training promises with staleness_threshold = 0  *)
(* (modes 1 and 2 of its README): it proceeds in rounds.  In a round the   *)
(* weights stay as they are, at most RoundSize samples are generated with  *)
(* them, and the trainer takes batches of exactly these samples; the       *)
(* weights change when the round is used up, and once more at the end.     *)
(***************************************************************************)
EXTENDS Integers

CONSTANTS RoundSize, BatchSize   \* BatchSize \in 1..RoundSize

VARIABLES
  version,    \* of the weights
  generated,  \* samples whose generation with these weights has begun
  consumed,   \* samples of these trained on
  over

vars == <<version, generated, consumed, over>>

Init == version = 0 /\ generated = 0 /\ consumed = 0 /\ over = FALSE

Generate ==
  /\ ~over /\ generated < RoundSize
  /\ generated' = generated + 1
  /\ UNCHANGED <<version, consumed, over>>

Train ==
  /\ ~over /\ consumed + BatchSize <= generated
  /\ consumed' = consumed + BatchSize
  /\ UNCHANGED <<version, generated, over>>

Synchronize ==
  /\ ~over /\ consumed = RoundSize
  /\ version' = version + 1 /\ generated' = 0 /\ consumed' = 0
  /\ UNCHANGED over

\* The synchronisation after the last batch, which may cut a round short.
Finish ==
  /\ ~over /\ over' = TRUE
  /\ version' = version + 1 /\ generated' = 0 /\ consumed' = 0

Next == Generate \/ Train \/ Synchronize \/ Finish

Spec == Init /\ [][Next]_vars

=============================================================================
