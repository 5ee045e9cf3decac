---------------------------- MODULE MC_Serving ----------------------------
(***************************************************************************)
(* Serving for TLC: three servers; rows that compete for two buckets and a *)
(* semaphore, and conversations of several turns in two batches with a     *)
(* cache that has room for a worker's rows, or not.                        *)
(***************************************************************************)
EXTENDS Serving

Limit(max, cost) == [max |-> max, cost |-> cost]

MCConfigs == {
  \* single turns, and a bucket that holds two calls, then one that holds less than a call
  [rows |-> 3, batches |-> 1, workers |-> 1, cache |-> 3, response_length |-> 1, free |-> 0,
   assistant |-> 1, user |-> 0, interactions |-> FALSE,
   buckets |-> <<Limit(2, 1), Limit(2, 3)>>, concurrent |-> 1, sync |-> TRUE,
   keys |-> {"acc"}, raises |-> FALSE],
  \* tools, two batches, a cache with room for the rows
  [rows |-> 2, batches |-> 2, workers |-> 1, cache |-> 2, response_length |-> 4, free |-> 0,
   assistant |-> 0, user |-> 2, interactions |-> FALSE,
   buckets |-> <<>>, concurrent |-> 1, sync |-> FALSE,
   keys |-> {"score"}, raises |-> TRUE],
  \* interactions, a cache without room
  [rows |-> 2, batches |-> 1, workers |-> 1, cache |-> 1, response_length |-> 3, free |-> 1,
   assistant |-> 0, user |-> 0, interactions |-> TRUE,
   buckets |-> <<Limit(2, 2)>>, concurrent |-> 2, sync |-> FALSE,
   keys |-> {"acc"}, raises |-> TRUE],
  \* two workers
  [rows |-> 2, batches |-> 2, workers |-> 2, cache |-> 1, response_length |-> 3, free |-> 0,
   assistant |-> 2, user |-> 0, interactions |-> FALSE,
   buckets |-> <<Limit(1, 1)>>, concurrent |-> 1, sync |-> TRUE,
   keys |-> {"acc", "score"}, raises |-> FALSE]}

=============================================================================
