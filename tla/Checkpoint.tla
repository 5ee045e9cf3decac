----------------------------- MODULE Checkpoint -----------------------------
(***************************************************************************)
(* Saving and loading a checkpoint: BaseCheckpointManager and              *)
(* FSDPCheckpointManager (utils/checkpoint), one manager per actor agent   *)
(* and one for the critic, and _save_checkpoint and _load_checkpoint of    *)
(* the trainers (trainer/ppo/ray_trainer.py, fully_async_trainer.py) that  *)
(* call them in turn.                                                      *)
(*                                                                         *)
(* On disk, global_step_<s> holds a directory per manager, with one file   *)
(* per rank, and data.pt; the tracker file names the latest step.  Rank 0  *)
(* of a manager deletes the directories of old steps, of this run only:    *)
(* the list of saved paths is in memory.  A file being written is torn.    *)
(***************************************************************************)
EXTENDS Integers, Sequences, FiniteSets

CONSTANTS
  NManagers,   \* the actor agents, in the order of `actors', and last the critic
  NRanks,      \* FSDP ranks of every manager
  MaxStep      \* bound: steps a checkpoint is taken at

ASSUME CheckpointAssumption == {NManagers, NRanks, MaxStep} \subseteq Nat \ {0}

Managers == 1..NManagers
Ranks == 0..NRanks - 1
Steps == 1..MaxStep
Shards == Managers \X Ranks

\* The contents of a tracker or data file that is missing, or just truncated.
NoFile == -1
Torn == -2

VARIABLES
  \* disk: the whole contents (none when torn or missing) of each rank's file,
  \* the directories, the dataloader states, latest_checkpointed_iteration.txt
  shard, dirs, data, tracker,
  previous_saved_paths,  \* of rank 0 of each manager: steps, oldest first
  \* the save in progress: what it is about to do, its step, manager and files
  stage, save_step, mgr, wrote

diskVars == <<shard, dirs, data, tracker>>
saveVars == <<stage, save_step, mgr, wrote>>
checkpointVars == <<diskVars, previous_saved_paths, saveVars>>

CheckpointTypeOK(Contents) ==
  /\ shard \in [Steps -> [Shards -> SUBSET Contents]]
  /\ dirs \in [Managers -> SUBSET Steps]
  /\ data \in [Steps -> Nat \cup {NoFile}]
  /\ tracker \in Steps \cup {NoFile, Torn}
  /\ previous_saved_paths \in [Managers -> Seq(Steps)]
  /\ stage \in {"idle", "capacity", "write", "data", "truncate", "track"}
  /\ save_step \in Steps \cup {0}
  /\ mgr \in Managers
  /\ wrote \in [Ranks -> {"no", "torn", "whole"}]

CheckpointInit ==
  /\ shard = [s \in Steps |-> [f \in Shards |-> {}]]
  /\ dirs = [m \in Managers |-> {}]
  /\ data = [s \in Steps |-> NoFile]
  /\ tracker = NoFile
  /\ previous_saved_paths = [m \in Managers |-> <<>>]
  /\ stage = "idle" /\ save_step = 0 /\ mgr = 1
  /\ wrote = [r \in Ranks |-> "no"]

-----------------------------------------------------------------------------
(* Retention *)

Listed(list) == {list[k] : k \in 1..Len(list)}

\* remove_previous_save_local_path and the slice that follows it: only the newest `keep'
\* paths of manager m's `list' stay, and the directory `new' is or becomes there.
Prune(m, list, keep, new) ==
  LET cut == IF Len(list) > keep THEN Len(list) - keep ELSE 0
      stay == SubSeq(list, cut + 1, Len(list))
      gone == Listed(SubSeq(list, 1, cut))
  IN  /\ previous_saved_paths' = [previous_saved_paths EXCEPT ![m] = stay]
      /\ dirs' = [dirs EXCEPT ![m] = (@ \ gone) \cup {new}]
      /\ shard' = [s \in Steps |->
           IF s \in gone THEN [f \in Shards |-> IF f[1] = m THEN {} ELSE shard[s][f]]
           ELSE shard[s]]

\* A plausible fault: room for one directory too many.
CapacityTooFew(keep) == IF keep > 1 THEN keep - 2 ELSE Len(previous_saved_paths[mgr])

\* ensure_checkpoint_capacity: room for the new one is made only when keeping two or more.
Capacity(keep) == IF keep > 1 THEN keep - 1 ELSE Len(previous_saved_paths[mgr])

\* register_checkpoint's limit; no limit when max_ckpt_to_keep is 0 or None.
Limit(keep) == IF keep > 0 THEN keep ELSE Len(previous_saved_paths[mgr]) + 1

-----------------------------------------------------------------------------
(* _save_checkpoint *)

SaveStarts(s) ==
  /\ stage = "idle"
  /\ stage' = "capacity" /\ save_step' = s /\ mgr' = 1
  /\ UNCHANGED <<diskVars, previous_saved_paths, wrote>>

\* Rank 0 makes room, every rank makes the directory, and the barrier.
EnsureCapacity(keep) ==
  /\ stage = "capacity"
  /\ Prune(mgr, previous_saved_paths[mgr], Capacity(keep[mgr]), save_step)
  /\ wrote' = [r \in Ranks |-> "no"]
  /\ stage' = "write"
  /\ UNCHANGED <<data, tracker, save_step, mgr>>

\* torch.save of a rank's model, optimizer and extra state begins, ...
WriteBegins(r) ==
  /\ stage = "write" /\ wrote[r] = "no"
  /\ shard' = [shard EXCEPT ![save_step][<<mgr, r>>] = {}]
  /\ wrote' = [wrote EXCEPT ![r] = "torn"]
  /\ UNCHANGED <<dirs, data, tracker, previous_saved_paths, stage, save_step, mgr>>

\* ... and ends.
WriteEnds(r, state) ==
  /\ stage = "write" /\ wrote[r] = "torn"
  /\ shard' = [shard EXCEPT ![save_step][<<mgr, r>>] = {state}]
  /\ wrote' = [wrote EXCEPT ![r] = "whole"]
  /\ UNCHANGED <<dirs, data, tracker, previous_saved_paths, stage, save_step, mgr>>

\* The barrier that waits for every rank's files.
AllWrote == \A r \in Ranks : wrote[r] = "whole"

\* register_checkpoint after that barrier, and the next manager's turn.
Register(keep) ==
  /\ stage = "write" /\ AllWrote
  /\ Prune(mgr, Append(previous_saved_paths[mgr], save_step), Limit(keep[mgr]), save_step)
  /\ IF mgr < NManagers THEN mgr' = mgr + 1 /\ stage' = "capacity"
                        ELSE stage' = "data" /\ UNCHANGED mgr
  /\ UNCHANGED <<data, tracker, save_step, wrote>>

\* data.pt.  Nothing reads it before the tracker names its step: one action.
SaveData(position) ==
  /\ stage = "data"
  /\ data' = [data EXCEPT ![save_step] = position]
  /\ stage' = "truncate"
  /\ UNCHANGED <<shard, dirs, tracker, previous_saved_paths, save_step, mgr, wrote>>

\* open(tracker, "w") truncates the file; the step reaches it when it is closed.
TruncateTracker ==
  /\ stage = "truncate"
  /\ tracker' = Torn
  /\ stage' = "track"
  /\ UNCHANGED <<shard, dirs, data, previous_saved_paths, save_step, mgr, wrote>>

WriteTracker ==
  /\ stage = "track"
  /\ tracker' = save_step
  /\ stage' = "idle"
  /\ UNCHANGED <<shard, dirs, data, previous_saved_paths, save_step, mgr, wrote>>

-----------------------------------------------------------------------------
(* _load_checkpoint *)

\* A plausible fault: no training from scratch (the branch of resume_mode auto is lost).
NeverFromScratch == FALSE

\* find_latest_ckpt_path returns None.  A directory global_step_<s> is never removed as a
\* whole, so the folder of the step the tracker names exists.
NothingSaved == tracker = NoFile

\* int() of the tracker, and torch.load of every rank of every manager, succeed.
Loadable == tracker \in Steps /\ \A f \in Shards : shard[tracker][f] # {}

\* A plausible fault: the critic (the last manager) is not loaded.
LoadedActors(f) == IF f[1] = NManagers THEN <<>> ELSE CHOOSE w \in shard[tracker][f] : TRUE

\* The state that rank f[2] of manager f[1] loads.
Loaded(f) == CHOOSE w \in shard[tracker][f] : TRUE

\* A restart: memory is gone, the disk stays.
ForgetSaves ==
  /\ previous_saved_paths' = [m \in Managers |-> <<>>]
  /\ stage' = "idle" /\ save_step' = 0 /\ mgr' = 1
  /\ wrote' = [r \in Ranks |-> "no"]
  /\ UNCHANGED diskVars

=============================================================================
