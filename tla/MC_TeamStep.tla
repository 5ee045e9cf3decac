---------------------------- MODULE MC_TeamStep ----------------------------
(***************************************************************************)
(* TeamStep for TLC: two agents on two ranks; batches of up to four        *)
(* prompts with every assignment of labels, and a larger single-agent one. *)
(***************************************************************************)
EXTENDS TeamStep

Batch(kind, ids, forced, router, target, n) ==
  [kind |-> kind, agents |-> 2, ids |-> ids, forced |-> forced, router |-> router,
   target |-> target, n |-> n, rollout |-> "multi_agent_hf", lens |-> {1, 3}]

Routers == {"random_batch", "random", "other"}
Labels(b) == [1..b -> {None, 0, 1}]

MCConfigs ==
  {Batch("train", ids, None, router, target, 1) :
     ids \in Labels(4), router \in {"random_batch", "other"}, target \in {None, 1}}
  \cup {Batch("train", ids, None, "random", 1, 2) : ids \in Labels(3)}
  \cup {Batch("train", ids, 0, "random_batch", 0, 2) : ids \in Labels(3)}
  \cup {Batch("train", <<0, 2, 1>>, None, router, None, 2) : router \in Routers}
  \cup {Batch("validate", ids, None, router, 1, n) :
          ids \in Labels(3), router \in Routers, n \in {1, 3}}
  \cup {[kind |-> "train", agents |-> 1, ids |-> <<None, None, 0>>, forced |-> None,
         router |-> "random_batch", target |-> None, n |-> 2, rollout |-> "single", lens |-> 1..3]}

=============================================================================
