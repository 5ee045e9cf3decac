---------------------------- MODULE MC_Training ----------------------------
(***************************************************************************)
(* Training for TLC: two agents and the critic, two ranks, three steps and *)
(* epochs of three batches.                                                *)
(***************************************************************************)
EXTENDS Training

\* keep a checkpoints of the actors and c of the critic.
Keep(a, c) == [m \in Managers |-> IF m = Critic THEN c ELSE a]

Both == [place \in 0..EpochLen - 1 |-> Agents]
Alternating == [place \in 0..EpochLen - 1 |-> {(place % Cardinality(Agents)) + 1}]

MCConfigs == {
  [mode |-> "sync", keep |-> Keep(2, 3), epochs |-> 2, routed |-> Alternating, target |-> Agents,
   test_freq |-> 3],
  [mode |-> "sync", keep |-> Keep(1, 1), epochs |-> 2, routed |-> Alternating, target |-> {1},
   test_freq |-> 3],
  [mode |-> "sync", keep |-> Keep(1, 1), epochs |-> 1, routed |-> Alternating, target |-> {2},
   test_freq |-> 3],
  [mode |-> "one_step_off", keep |-> Keep(2, 1), epochs |-> 2, routed |-> Both, target |-> Agents,
   test_freq |-> 3],
  [mode |-> "one_step_off", keep |-> Keep(0, 0), epochs |-> 1, routed |-> Both, target |-> Agents,
   test_freq |-> 3],
  [mode |-> "fully_async", keep |-> Keep(2, 2), epochs |-> 2, routed |-> Both, target |-> Agents,
   test_freq |-> 3],
  [mode |-> "fully_async", keep |-> Keep(2, 2), epochs |-> 2, routed |-> Both, target |-> Agents,
   test_freq |-> 2]}

=============================================================================
