------------------------------ MODULE TeamStep ------------------------------
(***************************************************************************)
(* One batch of a team: fit and _validate of trainer/ppo/ray_trainer.py    *)
(* from the batch to its last use, with the workers (fsdp_workers.py,      *)
(* dp_actor.py, multi_agent_hf_rollout.py) that serve it.                  *)
(*                                                                         *)
(* The driver gives every row an agent, drops those of other agents than   *)
(* the target, and calls an operation on all ranks, each with an equal     *)
(* chunk of the rows.  A rank works on one agent after the other: those it *)
(* has rows of.  Their models are sharded over all ranks, so that every    *)
(* pass is a collective: ranks go on together or not at all.               *)
(***************************************************************************)
EXTENDS Integers, Sequences, FiniteSets, Balance

CONSTANTS
  NAgents,         \* at most so many agents
  NRanks,          \* world_size
  Configs,         \* the configurations and batches explored, see Configuration
  PpoEpochs,       \* ppo_epochs: an update goes through its rows so many times
  MiniBatch,       \* ppo_mini_batch_size of a rank, in rows
  MicroBatch,      \* ppo_micro_batch_size_per_gpu
  LogProbMicro     \* log_prob_micro_batch_size_per_gpu

Agents == 0..NAgents - 1
Ranks == 0..NRanks - 1
None == -1

\* kind of batch; number of agents; the agent_id of each prompt; teamtr_agent_id;
\* teamtr_router; teamtr_target_agent_id; rollout.n or val_kwargs.n; the rollout; and the
\* lengths in tokens that its rows may have.
Configuration ==
  [kind : {"train", "validate"}, agents : 1..NAgents, ids : Seq(Int),
   forced : Agents \cup {None}, router : {"random_batch", "random", "other"},
   target : Agents \cup {None}, n : Nat \ {0},
   rollout : {"multi_agent_hf", "single"}, lens : SUBSET Nat]
ASSUME TeamAssumption ==
  /\ {NAgents, NRanks, PpoEpochs, MiniBatch, MicroBatch, LogProbMicro} \subseteq Nat \ {0}
  /\ K = NRanks
  /\ Configs \subseteq Configuration
  /\ \A c \in Configs : Len(c.ids) > 0 /\ c.forced < c.agents /\ c.lens # {}

VARIABLES
  config,
  phase,     \* what the driver is about to do, or how the step ended
  called,    \* the operation `phase' is running on the ranks
  rows,      \* the batch
  padding,   \* rows added by pad_dataproto_to_divisor
  todo,      \* per rank: the agents it still has to work on
  passes     \* per rank: collectives it has been through for the agent it works on

driverVars == <<config, phase, padding>>
vars == <<driverVars, called, rows, todo, passes, balanceVars>>

\* A row: its prompt, its agent, the prompt its response answers and the agent that
\* generated it, its length, the agents its log-probs are of, and those it trained.
Row == [prompt : Nat, agent : Int, answer : Nat, by : Int, len : Nat, old : Int, ref : Int,
        trained : Seq(Agents)]
Fresh(p, a) == [prompt |-> p, agent |-> a, answer |-> 0, by |-> None, len |-> 0,
                old |-> None, ref |-> None, trained |-> <<>>]

Ops == {"generate", "log_prob", "ref", "update"}
Ends == {"done", "skipped", "failed", "stuck", "mixed"}
Phases == {"route", "select", "balance", "merge"} \cup Ops \cup Ends

TypeOK ==
  /\ config \in Configuration
  /\ phase \in Phases
  /\ called \in BOOLEAN
  /\ rows \in Seq(Row)
  /\ padding \in Nat
  /\ todo \in [Ranks -> SUBSET Agents]
  /\ passes \in [Ranks -> Nat]
  /\ states_pq \subseteq State(Len(rows)) /\ widest \in Nat

Init ==
  /\ config \in Configs
  /\ phase = "route" /\ called = FALSE
  /\ rows = [p \in 1..Len(config.ids) |-> Fresh(p, config.ids[p])]
  /\ padding = 0
  /\ todo = [r \in Ranks |-> {}] /\ passes = [r \in Ranks |-> 0]
  /\ BalanceInit

workVars == <<called, padding, todo, passes, balanceVars>>

-----------------------------------------------------------------------------
(* Which agent a row is of *)

\* A plausible fault: the number of agents passes for an id.
InvalidAbove(id) == id < 0 \/ id > config.agents

Invalid(id) == id < 0 \/ id >= config.agents
Valid == 0..config.agents - 1

\* A plausible fault: random_batch samples for each row.
RoutedEach(new) ==
  IF \A p \in DOMAIN rows : ~Invalid(rows[p].agent) THEN new = [p \in DOMAIN rows |-> rows[p].agent]
  ELSE new \in [DOMAIN rows -> Valid]

\* What _ensure_agent_ids makes of ids some of which are invalid: with random_batch one
\* agent for the whole batch, valid ids included; with random one for each invalid row;
\* otherwise the nearest valid one.
Routed(new) ==
  IF \A p \in DOMAIN rows : ~Invalid(rows[p].agent) THEN new = [p \in DOMAIN rows |-> rows[p].agent]
  ELSE CASE config.router = "random_batch" -> \E a \in Valid : new = [p \in DOMAIN rows |-> a]
         [] config.router = "random" ->
              /\ new \in [DOMAIN rows -> Valid]
              /\ \A p \in DOMAIN rows : ~Invalid(rows[p].agent) => new[p] = rows[p].agent
         [] OTHER -> new = [p \in DOMAIN rows |->
              IF rows[p].agent < 0 THEN 0
              ELSE IF Invalid(rows[p].agent) THEN config.agents - 1 ELSE rows[p].agent]

EnsureAgentIds ==
  /\ phase = "route"
  /\ \E new \in [DOMAIN rows -> Valid \cup {rows[p].agent : p \in DOMAIN rows}] :
       /\ IF config.forced # None THEN new = [p \in DOMAIN rows |-> config.forced] ELSE Routed(new)
       /\ rows' = [p \in DOMAIN rows |-> [rows[p] EXCEPT !.agent = new[p]]]
  /\ phase' = "select"
  /\ UNCHANGED <<config, workVars>>

\* repeat(n, interleave=True).
Repeat(s, n) == [i \in 1..Len(s) * n |-> s[((i - 1) \div n) + 1]]

OfTarget(row) == config.target = None \/ row.agent = config.target

\* keep_mask, as the places it keeps.
Kept == {p \in DOMAIN rows : OfTarget(rows[p])}

\* fit: the rows of the target agent, if there are any, n times.
Select ==
  /\ phase = "select" /\ config.kind = "train"
  /\ IF Kept # {}
     THEN /\ rows' = Repeat([k \in 1..Cardinality(Kept) |-> rows[NthOf(Kept, k)]], config.n)
          /\ phase' = "generate"
     ELSE phase' = "skipped" /\ UNCHANGED rows
  /\ UNCHANGED <<config, workVars>>

\* A plausible fault: the batch is not padded.
NoPadding(len) == 0

\* The rows a batch of `len' lacks to be divisible.
PadSize(len) == IF len % NRanks = 0 THEN 0 ELSE NRanks - (len % NRanks)

\* _validate: all rows n times, padded with the first rows, over and over if need be.
Pad ==
  /\ phase = "select" /\ config.kind = "validate"
  /\ LET test == Repeat(rows, config.n)
     IN  /\ padding' = PadSize(Len(test))
         /\ rows' = [i \in 1..Len(test) + padding' |->
                       IF i <= Len(test) THEN test[i] ELSE test[((i - 1) % Len(test)) + 1]]
  /\ phase' = "generate"
  /\ UNCHANGED <<config, called, todo, passes, balanceVars>>

-----------------------------------------------------------------------------
(* An operation on the ranks *)

Chunk == Len(rows) \div NRanks
Local(r) == r * Chunk + 1..(r + 1) * Chunk
RankOf(i) == (i - 1) \div Chunk

\* The rows a rank has of agent a: the mask of _iter_agent_batches, the bucket of the rollout.
Mine(r, a) == {i \in Local(r) : rows[i].agent = a}

\* dispatch_dp_compute_data_proto: equal chunks, or an AssertionError.
Dispatch ==
  /\ phase \in Ops /\ ~called
  /\ IF Len(rows) % NRanks = 0
     THEN /\ called' = TRUE
          /\ todo' = [r \in Ranks |-> {rows[i].agent : i \in Local(r)}]
          /\ UNCHANGED phase
     ELSE phase' = "failed" /\ UNCHANGED <<called, todo>>
  /\ UNCHANGED <<config, rows, padding, passes, balanceVars>>

First(set) == CHOOSE i \in set : \A j \in set : i <= j

\* The agent rank r works on: the rollout takes them by their first rows, the actor by id.
Turn(r) ==
  CHOOSE a \in todo[r] : \A b \in todo[r] :
    IF phase = "generate" THEN First(Mine(r, a)) <= First(Mine(r, b)) ELSE a <= b

CeilDiv(a, b) == (a + b - 1) \div b

\* Passes of a whole mini-batch, with the optimizer step that ends it.
PerMini == CeilDiv(MiniBatch, MicroBatch) + 1

\* Passes of one epoch of an update over n rows.
PerEpoch(n) ==
  (n \div MiniBatch) * PerMini
    + IF n % MiniBatch = 0 THEN 0 ELSE CeilDiv(n % MiniBatch, MicroBatch) + 1

\* The collectives of the operation for n rows of an agent.  Generation is one call of the
\* library's generate, which is trusted to take the ranks of a sharded model through equally
\* many forward passes, however long their responses are (its synced_gpus), so that it
\* counts as one collective.
PassesOf(n) ==
  CASE phase = "generate" -> 1
    [] phase \in {"log_prob", "ref"} -> CeilDiv(n, LogProbMicro)
    [] OTHER -> PpoEpochs * PerEpoch(n)

\* The collective rank r enters next: of which model, and is it an optimizer step.
Entering(r) ==
  LET a == Turn(r)
      epoch == PerEpoch(Cardinality(Mine(r, a)))
      k == (passes[r] % epoch) + 1
  IN  <<a, phase = "update" /\ (k % PerMini = 0 \/ k = epoch)>>

LastPass(r) == passes[r] + 1 = PassesOf(Cardinality(Mine(r, Turn(r))))

\* The prompt that the response stitched into row i answers: the multi-agent rollout takes
\* the first output of the row's agent on that rank for every row.
Answer(i) ==
  IF config.rollout = "multi_agent_hf" THEN rows[First(Mine(RankOf(i), rows[i].agent))].prompt
  ELSE rows[i].prompt

\* What agent a's part of the operation leaves in row i.
Worked(i, a) ==
  CASE phase = "generate" -> [rows[i] EXCEPT !.answer = Answer(i), !.by = a]
    [] phase = "log_prob" -> [rows[i] EXCEPT !.old = a]
    [] phase = "ref" -> [rows[i] EXCEPT !.ref = a]
    [] phase = "update" -> [rows[i] EXCEPT !.trained = Append(@, a)]

\* All ranks are in the same collective, and go through it.
Meet == \A r \in Ranks : todo[r] # {} /\ \A q \in Ranks : todo[q] # {} /\ Entering(q) = Entering(r)

Collective ==
  /\ called /\ Meet
  /\ passes' = [r \in Ranks |-> IF LastPass(r) THEN 0 ELSE passes[r] + 1]
  /\ todo' = [r \in Ranks |-> IF LastPass(r) THEN todo[r] \ {Turn(r)} ELSE todo[r]]
  /\ rows' = [i \in DOMAIN rows |->
       LET r == RankOf(i)
       IN  IF LastPass(r) /\ i \in Mine(r, Turn(r)) THEN Worked(i, Turn(r)) ELSE rows[i]]
  /\ UNCHANGED <<driverVars, called, balanceVars>>

\* Ranks in different collectives, or some already out of the operation: they wait for ever,
\* or, as collectives are matched by their order only, exchange what does not belong together.
Mismatch ==
  /\ called /\ ~Meet /\ \E r \in Ranks : todo[r] # {}
  /\ \/ phase' = "stuck"
     \/ (\A r \in Ranks : todo[r] # {}) /\ phase' = "mixed"
  /\ called' = FALSE
  /\ UNCHANGED <<config, rows, padding, todo, passes, balanceVars>>

\* The ranks return; collect concatenates.  The lengths of the responses show now: those
\* of rows with the same response are the same.
SameResponse(i, j) ==
  i = j \/ (config.rollout = "multi_agent_hf" /\ RankOf(i) = RankOf(j) /\ rows[i].by = rows[j].by)

\* A plausible fault: the padding stays.
PaddingKept == rows

\* unpad_dataproto.
Unpadded == SubSeq(rows, 1, Len(rows) - padding)

AfterOp == [generate |-> "balance", log_prob |-> "ref", ref |-> "update", update |-> "done"]

Collect ==
  /\ called /\ \A r \in Ranks : todo[r] = {}
  /\ called' = FALSE
  /\ IF phase = "generate" /\ config.kind = "validate"
     THEN phase' = "done" /\ rows' = Unpadded
     ELSE /\ phase' = AfterOp[phase]
          /\ IF phase = "generate"
             THEN \E len \in [DOMAIN rows -> config.lens] :
                    /\ \A i, j \in DOMAIN rows : SameResponse(i, j) => len[i] = len[j]
                    /\ rows' = [i \in DOMAIN rows |-> [rows[i] EXCEPT !.len = len[i]]]
             ELSE UNCHANGED rows
  /\ UNCHANGED <<config, padding, todo, passes, balanceVars>>

-----------------------------------------------------------------------------
(* _balance_batch *)

Lengths == [i \in DOMAIN rows |-> rows[i].len]

BalanceStarts ==
  /\ phase = "balance"
  /\ StartBalance(Lengths)
  /\ phase' = "merge"
  /\ UNCHANGED <<config, rows, called, padding, todo, passes>>

BalanceMerges ==
  /\ phase = "merge" /\ MergeTwo
  /\ UNCHANGED <<driverVars, rows, called, todo, passes>>

\* A plausible fault: agent_id is left out of the reordering.
AllButIds(i) == [rows[NthOf(Partition(RankOf(i) + 1), ((i - 1) % Chunk) + 1)]
                   EXCEPT !.agent = rows[i].agent]

\* The row that comes to place i: the partitions one after the other, each in batch order.
Reordered(i) == rows[NthOf(Partition(RankOf(i) + 1), ((i - 1) % Chunk) + 1)]

Reorder ==
  /\ phase = "merge" /\ Balanced
  /\ rows' = [i \in DOMAIN rows |-> Reordered(i)]
  /\ phase' = "log_prob"
  /\ states_pq' = {} /\ UNCHANGED widest
  /\ UNCHANGED <<config, called, padding, todo, passes>>

-----------------------------------------------------------------------------

Next ==
  \/ EnsureAgentIds \/ Select \/ Pad
  \/ Dispatch \/ Collective \/ Mismatch \/ Collect
  \/ BalanceStarts \/ BalanceMerges \/ Reorder

Spec == Init /\ [][Next]_vars /\ WF_vars(Next)

-----------------------------------------------------------------------------
(* Properties *)

\* The batch has one agent by its configuration: one agent in all, block-coordinate updates,
\* random_batch with unlabelled rows, or labels that agree.
OneAgent ==
  \/ config.agents = 1
  \/ config.forced # None
  \/ config.target # None /\ config.kind = "train"
  \/ config.router = "random_batch" /\ \E p \in DOMAIN config.ids : Invalid(config.ids[p])
  \/ \E a \in Valid : \A p \in DOMAIN config.ids : config.ids[p] = a

\* README's "per-agent" operations need it: with such a configuration no rank is ever in
\* another collective than the others, in any operation and any micro-batch.
NeverMismatched == OneAgent => phase \notin {"stuck", "mixed"}

\* Through padding, chunking, stitching and balancing: whatever is computed for a row is
\* computed by the row's own agent, and its response answers a prompt of that agent.
OwnAgent ==
  \A i \in DOMAIN rows :
    /\ {rows[i].by, rows[i].old, rows[i].ref} \subseteq {None, rows[i].agent}
    /\ rows[i].by # None =>
         \E j \in DOMAIN rows : rows[j].prompt = rows[i].answer /\ rows[j].agent = rows[i].agent
    /\ \A k \in DOMAIN rows[i].trained : rows[i].trained[k] = rows[i].agent

\* No row is lost or doubled on the way: those of each prompt that is in are n, in parts of
\* equal size with the number of their tokens while they are balanced, and a step that ends
\* has trained each of them once, whatever their agents.
SamplesKept ==
  /\ phase \in Ops \cup {"balance", "merge", "done"} =>
       \A i \in DOMAIN rows :
         LET same == {j \in DOMAIN rows : rows[j].prompt = rows[i].prompt}
         IN  IF padding > 0 /\ phase # "done" THEN Cardinality(same) >= config.n
             ELSE Cardinality(same) = config.n
  /\ phase = "merge" =>
       /\ Shares(Len(rows))
       /\ \A S \in states_pq : \A i \in Parts :
            S[i].sum = Cardinality(Tokens(Lengths, S[i].items))
  /\ phase = "done" /\ config.kind = "train" => \A i \in DOMAIN rows : Len(rows[i].trained) = 1

\* A step with one agent ends, and a validation has an answer for every row; one without a row of the
\* target agent does nothing; rows that cannot be shared out equally end the job.
StepEnds ==
  OneAgent ~>
    \/ phase = "done" /\ config.kind = "train"
    \/ phase = "done" /\ config.kind = "validate" /\ Len(rows) = Len(config.ids) * config.n
         /\ \A i \in DOMAIN rows : rows[i].by # None /\ rows[i].prompt = ((i - 1) \div config.n) + 1
    \/ phase = "skipped" /\ config.target # None
    \/ phase = "failed" /\ config.kind = "train" /\ Len(rows) % NRanks # 0

=============================================================================
