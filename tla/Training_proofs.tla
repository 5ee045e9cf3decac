-------------------------- MODULE Training_proofs --------------------------
(***************************************************************************)
(* Proofs about checkpoints and restarts, for any number of agents, ranks, *)
(* steps and runs and every configuration: types, that the tracked         *)
(* checkpoint can be restored at any moment, that training implements the  *)
(* abstract computation of Restartable, that one step off stays one, that  *)
(* no batch is trained on twice and few are lost, and what a job that ends *)
(* has not saved.                                                          *)
(***************************************************************************)
EXTENDS Training, FiniteSetTheorems, SequenceTheorems, TLAPS

-----------------------------------------------------------------------------
(* The inductive invariant *)

\* While a checkpoint is saved, its step is a new one, and the tracker keeps its value until
\* it is truncated; an empty tracker met by a restart stops the job.
SaveInv ==
  /\ stage # "idle" => pc = "save" /\ save_step \in Steps /\ tracker < save_step
  /\ pc = "save" => /\ stage # "idle"
                    /\ save_step = IF batch = NoBatch THEN Version ELSE global_steps
  /\ tracker = Torn => stage = "track" \/ pc \in {"start", "failed"}

\* The tracker names no step that is not behind the loop.
LoopInv ==
  /\ pc \in {"train", "check"} => batch # NoBatch
  /\ pc \in {"start", "loop", "final"} => batch = NoBatch
  /\ pc \in {"sync", "launch"} => ~Sync
  /\ pc \notin {"start", "failed"} => global_steps >= 1 /\ tracker <= Version

\* The manager has registered the checkpoint that is being saved.
Registered(m) ==
  \/ stage \in {"data", "truncate", "track"}
  \/ stage \in {"capacity", "write"} /\ m < mgr

\* The list ends before or at step s, with s at most at its end.
Bounded(list, s) == \A k \in 1..Len(list) : list[k] <= s /\ (k < Len(list) => list[k] < s)

\* The tracked step, if rank 0 knows it, is the newest of its list until the next one is
\* registered, and pruning has left room for that one.
ListInv ==
  /\ \A m \in Managers :
       Bounded(previous_saved_paths[m], IF Registered(m) THEN save_step ELSE tracker)
  /\ stage = "write" /\ config.keep[mgr] > 1 =>
       Len(previous_saved_paths[mgr]) < config.keep[mgr]

\* Files live in directories, and what has been written so far are the current weights.
DiskInv ==
  /\ \A s \in Steps, f \in Shards : s \notin dirs[f[1]] => shard[s][f] = {}
  /\ stage = "write" =>
       /\ save_step \in dirs[mgr]
       /\ \A r \in Ranks : wrote[r] = "whole" =>
            shard[save_step][<<mgr, r>>] = {weights[<<mgr, r>>]}
  /\ \A f \in Shards : Registered(f[1]) => shard[save_step][f] = {weights[f]}

\* TrackedRestorable holds only because a save takes a new step and prunes what is older
\* than the tracked one.
IInv == TypeOK /\ SaveInv /\ LoopInv /\ ListInv /\ DiskInv /\ TrackedRestorable

-----------------------------------------------------------------------------
(* Lists and pruning *)

\* The front of a list that is cut off and the rest that stays.
LEMMA CutList ==
  ASSUME NEW list \in Seq(Steps), NEW cut \in 0..Len(list)
  PROVE  /\ SubSeq(list, cut + 1, Len(list)) \in Seq(Steps)
         /\ Len(SubSeq(list, cut + 1, Len(list))) = Len(list) - cut
         /\ \A k \in 1..Len(list) - cut : SubSeq(list, cut + 1, Len(list))[k] = list[k + cut]
         /\ \A s \in Listed(SubSeq(list, 1, cut)) : \E k \in 1..cut : s = list[k]
<1>1. Len(list) \in Nat /\ \A k \in 1..Len(list) : list[k] \in Steps
  BY LenProperties
<1>2. \A k \in cut + 1..Len(list) : list[k] \in Steps
  BY <1>1
<1>3. \A k \in 1..cut : list[k] \in Steps
  BY <1>1
<1>4. /\ SubSeq(list, cut + 1, Len(list)) \in Seq(Steps)
      /\ Len(SubSeq(list, cut + 1, Len(list))) =
           IF cut + 1 <= Len(list) THEN Len(list) - (cut + 1) + 1 ELSE 0
      /\ \A k \in 1..Len(list) - (cut + 1) + 1 :
           SubSeq(list, cut + 1, Len(list))[k] = list[(cut + 1) + k - 1]
  <2> HIDE DEF Steps
  <2>1. cut + 1 \in Int /\ Len(list) \in Int
    BY <1>1
  <2> QED
    BY <1>2, <2>1, SubSeqProperties
<1>5. /\ Len(SubSeq(list, 1, cut)) = IF 1 <= cut THEN cut - 1 + 1 ELSE 0
      /\ \A k \in 1..cut - 1 + 1 : SubSeq(list, 1, cut)[k] = list[1 + k - 1]
  <2>1. 1 \in Int /\ cut \in Int
    BY <1>1
  <2> QED
    BY <1>3, <2>1, SubSeqProperties
<1>6. Len(SubSeq(list, cut + 1, Len(list))) = Len(list) - cut
  BY <1>1, <1>4
<1>7. ASSUME NEW k \in 1..Len(list) - cut
      PROVE  SubSeq(list, cut + 1, Len(list))[k] = list[k + cut]
  <2>1. (cut + 1) + k - 1 = k + cut /\ k \in 1..Len(list) - (cut + 1) + 1
    BY <1>1
  <2> QED
    BY <1>4, <2>1
<1>8. ASSUME NEW s \in Listed(SubSeq(list, 1, cut))
      PROVE  \E k \in 1..cut : s = list[k]
  <2>1. Len(SubSeq(list, 1, cut)) = cut
    BY <1>1, <1>5
  <2>2. PICK k \in 1..cut : s = SubSeq(list, 1, cut)[k]
    BY <2>1 DEF Listed
  <2>3. 1 + k - 1 = k /\ k \in 1..cut - 1 + 1
    BY <1>1
  <2> QED
    BY <1>5, <2>2, <2>3
<1> QED
  BY <1>4, <1>6, <1>7, <1>8

LEMMA AppendList ==
  ASSUME NEW list \in Seq(Steps), NEW s \in Steps
  PROVE  /\ Append(list, s) \in Seq(Steps)
         /\ Len(Append(list, s)) = Len(list) + 1
         /\ \A k \in 1..Len(list) : Append(list, s)[k] = list[k]
         /\ Append(list, s)[Len(list) + 1] = s
BY AppendProperties

\* What pruning a list to `keep' paths deletes is at its front.
LEMMA PruneLemma ==
  ASSUME NEW list \in Seq(Steps), NEW keep \in Nat
  PROVE  \E cut \in 0..Len(list), stay \in Seq(Steps), gone \in SUBSET Steps :
           /\ cut = IF Len(list) > keep THEN Len(list) - keep ELSE 0
           /\ stay = SubSeq(list, cut + 1, Len(list))
           /\ gone = Listed(SubSeq(list, 1, cut))
           /\ \A s \in gone : \E k \in 1..cut : s = list[k]
           /\ Len(stay) = Len(list) - cut
           /\ \A k \in 1..Len(stay) : stay[k] = list[k + cut]
<1> DEFINE cut == IF Len(list) > keep THEN Len(list) - keep ELSE 0
           stay == SubSeq(list, cut + 1, Len(list))
           gone == Listed(SubSeq(list, 1, cut))
<1>1. Len(list) \in Nat /\ \A k \in 1..Len(list) : list[k] \in Steps
  BY LenProperties
<1>2. cut \in 0..Len(list)
  BY <1>1
<1>3. /\ stay \in Seq(Steps)
      /\ Len(stay) = Len(list) - cut
      /\ \A k \in 1..Len(list) - cut : stay[k] = list[k + cut]
      /\ \A s \in gone : \E k \in 1..cut : s = list[k]
  BY <1>2, CutList
<1>4. ASSUME NEW s \in gone PROVE s \in Steps
  <2>1. PICK k \in 1..cut : s = list[k]
    BY <1>3
  <2>2. k \in 1..Len(list)
    BY <1>1, <1>2, <2>1
  <2> QED
    BY <1>1, <2>1, <2>2
<1>5. gone \in SUBSET Steps
  BY <1>4
<1>6. \A k \in 1..Len(stay) : stay[k] = list[k + cut]
  BY <1>3
<1> QED
  <2> USE <1>2, <1>3, <1>5
  <2> WITNESS cut \in 0..Len(list), stay \in Seq(Steps), gone \in SUBSET Steps
  <2> QED
    BY <1>6

-----------------------------------------------------------------------------
(* Steps of the loop while nothing is saved *)

LEMMA Assumptions ==
  /\ NManagers \in Nat \ {0} /\ NRanks \in Nat \ {0} /\ MaxStep \in Nat \ {0}
  /\ EpochLen \in Nat \ {0} /\ MaxRuns \in Nat \ {0}
  /\ Critic \in Managers /\ 1 \in Managers
  /\ Steps \subseteq Nat \ {0} /\ Managers \subseteq Nat \ {0}
BY CheckpointAssumption, TrainingAssumption DEF Critic, Managers, Steps

LEMMA ConfigFields ==
  ASSUME TypeOK
  PROVE  /\ config.keep \in [Managers -> Nat] /\ config.epochs \in Nat \ {0}
         /\ config.mode \in {"sync", "one_step_off", "fully_async"}
BY TrainingAssumption DEF TypeOK, ConfigsAssumption

\* A step outside a save leaves the disk, and what is known of it, alone.
LEMMA IdleStep ==
  ASSUME IInv, stage = "idle", UNCHANGED <<config, durable, checkpointVars>>,
         TypeOK', LoopInv', pc' # "save",
         tracker = Torn => pc' \in {"start", "failed"}
  PROVE  IInv'
<1> USE DEF checkpointVars, diskVars, saveVars
<1>1. SaveInv'
  BY DEF SaveInv
<1>2. ListInv'
  BY DEF IInv, ListInv, Registered, Bounded
<1>3. DiskInv'
  BY DEF IInv, DiskInv, Registered
<1>4. TrackedRestorable'
  BY DEF IInv, TrackedRestorable, OnlyCopyGone
<1> QED
  BY <1>1, <1>2, <1>3, <1>4 DEF IInv

LEMMA SameCheckpointTypes ==
  ASSUME TypeOK, UNCHANGED checkpointVars
  PROVE  CheckpointTypeOK(Histories)'
BY DEF TypeOK, CheckpointTypeOK, checkpointVars, diskVars, saveVars

\* Where the loop is while the save machinery rests.
LEMMA IdleOutsideSave ==
  ASSUME IInv, pc # "save"
  PROVE  stage = "idle" /\ (tracker = Torn => pc \in {"start", "failed"})
BY DEF IInv, SaveInv, TypeOK, CheckpointTypeOK

LEMMA FreshTypes == Fresh \in [Shards -> Histories]
BY EmptySeq DEF Fresh, Histories

LEMMA FromScratchIInv == IInv /\ FromScratch => IInv'
<1> SUFFICES ASSUME IInv, FromScratch PROVE IInv'
  OBVIOUS
<1>1. TypeOK
  BY DEF IInv
<1>2. stage = "idle"
  BY IdleOutsideSave DEF FromScratch
<1>3. pc' \in {"loop", "sync"} /\ (pc' = "sync" => ~Sync')
  BY DEF FromScratch, Begins, Sync
<1>4. TypeOK'
  <2>1. left' \in Nat
    BY <1>1, ConfigFields, Assumptions DEF FromScratch
  <2> QED
    BY <1>1, <1>3, <2>1, SameCheckpointTypes, FreshTypes DEF FromScratch, TypeOK
<1>5. LoopInv'
  BY <1>1, <1>3 DEF FromScratch, NothingSaved, NoFile, IInv, LoopInv, Version, checkpointVars, diskVars
<1> QED
  BY <1>2, <1>3, <1>4, <1>5, IdleStep DEF FromScratch, NothingSaved, NoFile, Torn

LEMMA LoadedTypes ==
  ASSUME TypeOK, Loadable, NEW f \in Shards
  PROVE  Loaded(f) \in Histories /\ Loaded(f) \in shard[tracker][f]
<1>1. shard[tracker][f] \in SUBSET Histories /\ shard[tracker][f] # {}
  BY DEF TypeOK, CheckpointTypeOK, Loadable
<1> QED
  BY <1>1 DEF Loaded

LEMMA ResumeIInv == IInv /\ Resume => IInv'
<1> SUFFICES ASSUME IInv, Resume PROVE IInv'
  OBVIOUS
<1>1. TypeOK
  BY DEF IInv
<1>2. stage = "idle"
  BY IdleOutsideSave DEF Resume
<1>3. pc' \in {"loop", "sync"} /\ (pc' = "sync" => ~Sync')
  BY DEF Resume, Begins, Sync
<1>4. tracker \in Steps
  BY DEF Resume, Loadable
<1>5. TypeOK'
  <2>1. RestoredPosition \in Nat
    BY <1>1, <1>4 DEF TypeOK, CheckpointTypeOK, RestoredPosition
  <2>2. \A first \in FirstPass(RestoredPosition) : first \in Nat
    <3> HIDE DEF RestoredPosition
    <3>1. RestoredPosition % EpochLen \in 0..EpochLen - 1
      BY <2>1, Assumptions
    <3> QED
      BY <3>1, Assumptions DEF FirstPass
  <2>3. (config.epochs - 1) * EpochLen \in Nat
    BY <1>1, ConfigFields, Assumptions
  <2>4. left' \in Nat
    BY <2>2, <2>3 DEF Resume
  <2>5. weights' \in [Shards -> Histories]
    BY <1>1, LoadedTypes DEF Resume
  <2> QED
    BY <1>1, <1>3, <1>4, <2>1, <2>4, <2>5, SameCheckpointTypes, Assumptions DEF Resume, TypeOK
<1>6. LoopInv'
  BY <1>3, <1>4, Assumptions DEF Resume, IInv, LoopInv, Version, checkpointVars, diskVars
<1> QED
  BY <1>2, <1>3, <1>4, <1>5, <1>6, IdleStep, Assumptions DEF Resume, Torn

LEMMA CannotResumeIInv == IInv /\ CannotResume => IInv'
<1> SUFFICES ASSUME IInv, CannotResume PROVE IInv'
  OBVIOUS
<1>1. TypeOK /\ LoopInv
  BY DEF IInv
<1>2. stage = "idle"
  BY IdleOutsideSave DEF CannotResume
<1>3. TypeOK'
  BY <1>1, SameCheckpointTypes DEF CannotResume, TypeOK
<1>4. LoopInv'
  BY <1>1 DEF CannotResume, LoopInv
<1> QED
  BY <1>2, <1>3, <1>4, IdleStep DEF CannotResume

LEMMA SyncWeightsIInv == IInv /\ SyncWeights => IInv'
<1> SUFFICES ASSUME IInv, SyncWeights PROVE IInv'
  OBVIOUS
<1>1. TypeOK /\ LoopInv
  BY DEF IInv
<1>2. stage = "idle" /\ tracker # Torn
  BY IdleOutsideSave DEF SyncWeights
<1>3. /\ pc' \in {"launch", "loop", "check"}
      /\ pc' = "launch" => ~Sync
      /\ pc' = "check" => batch # NoBatch
  <2>1. \/ OneStepOff /\ pc' = "launch" /\ ~Sync
        \/ FullyAsync /\ batch = NoBatch /\ pc' = "loop"
        \/ FullyAsync /\ batch # NoBatch /\ pc' = "check"
    BY <1>1, ConfigFields DEF SyncWeights, LoopInv, Sync, OneStepOff, FullyAsync
  <2> QED
    BY <2>1
<1>4. Version \in Nat
  BY <1>1 DEF LoopInv, SyncWeights, Version, TypeOK
<1>5. TypeOK'
  <2>1. Sent \in Nat
    BY <1>1, <1>4 DEF Sent, TypeOK
  <2> QED
    BY <1>1, <1>3, <2>1, SameCheckpointTypes DEF SyncWeights, TypeOK
<1>6. LoopInv'
  BY <1>1, <1>3 DEF SyncWeights, LoopInv, Version, Sync, checkpointVars, diskVars
<1> QED
  BY <1>2, <1>3, <1>5, <1>6, IdleStep DEF SyncWeights

\* A batch is taken from the dataloader.
LEMMA TakeTypes ==
  ASSUME TypeOK, Take, left # 0
  PROVE  position' \in Nat /\ left' \in Nat /\ inflight' \subseteq [pos : Nat \ {0}, ver : Nat]
BY DEF TypeOK, Take

LEMMA LaunchIInv == IInv /\ Launch => IInv'
<1> SUFFICES ASSUME IInv, Launch PROVE IInv'
  OBVIOUS
<1>1. TypeOK /\ LoopInv
  BY DEF IInv
<1>2. stage = "idle" /\ tracker # Torn
  BY IdleOutsideSave DEF Launch
<1>3. pc' = IF batch = NoBatch THEN "loop" ELSE "train"
  BY DEF Launch
<1>4. TypeOK'
  <2>1. position' \in Nat /\ left' \in Nat /\ inflight' \subseteq [pos : Nat \ {0}, ver : Nat]
    <3>1. CASE NothingToLaunch
      BY <1>1, <3>1 DEF Launch, TypeOK
    <3>2. CASE ~NothingToLaunch
      BY <1>1, <3>2, TakeTypes DEF Launch, NothingToLaunch
    <3> QED
      BY <3>1, <3>2
  <2> QED
    BY <1>1, <1>3, <2>1, SameCheckpointTypes DEF Launch, TypeOK
<1>5. LoopInv'
  BY <1>1, <1>3 DEF Launch, LoopInv, Version, checkpointVars, diskVars
<1> QED
  BY <1>2, <1>3, <1>4, <1>5, IdleStep DEF Launch

LEMMA NextBatchIInv == IInv /\ NextBatch => IInv'
<1> SUFFICES ASSUME IInv, NextBatch PROVE IInv'
  OBVIOUS
<1>1. TypeOK /\ LoopInv
  BY DEF IInv
<1>2. stage = "idle" /\ tracker # Torn
  BY IdleOutsideSave DEF NextBatch
<1>3. Version \in Nat
  BY <1>1 DEF LoopInv, NextBatch, Version, TypeOK
<1>4. \/ pc' = "loop" /\ global_steps' = global_steps + 1 /\ batch' = batch
      \/ pc' = "train" /\ batch' = [pos |-> position + 1, ver |-> Version]
           /\ global_steps' = global_steps
  BY DEF NextBatch
<1>5. /\ batch' \in [pos : Nat \ {0}, ver : Nat] \cup {NoBatch}
      /\ pc' = "train" => batch' # NoBatch
  BY <1>1, <1>3, <1>4 DEF TypeOK, NoBatch
<1>6. TypeOK'
  BY <1>1, <1>4, <1>5, SameCheckpointTypes DEF NextBatch, TypeOK
<1>7. LoopInv'
  <2>1. tracker <= Version /\ global_steps \in Nat /\ global_steps >= 1 /\ tracker \in Int
    BY <1>1, Assumptions DEF LoopInv, NextBatch, TypeOK, CheckpointTypeOK, NoFile, Torn
  <2>2. batch = NoBatch
    BY <1>1 DEF LoopInv, NextBatch
  <2> QED
    BY <1>4, <1>5, <2>1, <2>2 DEF NextBatch, LoopInv, Version, checkpointVars, diskVars
<1> QED
  BY <1>2, <1>4, <1>6, <1>7, IdleStep DEF NextBatch

LEMMA DataEndsIInv == IInv /\ DataEnds => IInv'
<1> SUFFICES ASSUME IInv, DataEnds PROVE IInv'
  OBVIOUS
<1>1. TypeOK /\ LoopInv
  BY DEF IInv
<1>2. stage = "idle" /\ tracker # Torn
  BY IdleOutsideSave DEF DataEnds
<1>3. TypeOK'
  BY <1>1, SameCheckpointTypes DEF DataEnds, TypeOK
<1>4. LoopInv'
  BY <1>1 DEF DataEnds, LoopInv, Version, checkpointVars, diskVars
<1> QED
  BY <1>2, <1>3, <1>4, IdleStep DEF DataEnds

LEMMA AwaitIInv == IInv /\ (\E b \in inflight : Await(b)) => IInv'
<1> SUFFICES ASSUME IInv, NEW b \in inflight, Await(b) PROVE IInv'
  OBVIOUS
<1>1. TypeOK /\ LoopInv
  BY DEF IInv
<1>2. stage = "idle" /\ tracker # Torn
  BY IdleOutsideSave DEF Await
<1>3. b \in [pos : Nat \ {0}, ver : Nat]
  BY <1>1 DEF TypeOK
<1>4. b # NoBatch
  BY <1>3 DEF NoBatch
<1>5. pc' \in {"sync", "train"} /\ ~Sync
  BY DEF Await
<1>6. TypeOK'
  BY <1>1, <1>3, <1>5, SameCheckpointTypes DEF Await, TypeOK
<1>7. LoopInv'
  BY <1>1, <1>4, <1>5 DEF Await, LoopInv, Version, Sync, checkpointVars, diskVars
<1> QED
  BY <1>2, <1>5, <1>6, <1>7, IdleStep DEF Await

LEMMA AwaitNoneIInv == IInv /\ AwaitNone => IInv'
<1> SUFFICES ASSUME IInv, AwaitNone PROVE IInv'
  OBVIOUS
<1>1. TypeOK /\ LoopInv
  BY DEF IInv
<1>2. stage = "idle" /\ tracker # Torn
  BY IdleOutsideSave DEF AwaitNone
<1>3. pc' \in {"failed", "final"}
  BY DEF AwaitNone
<1>4. TypeOK'
  BY <1>1, <1>3, SameCheckpointTypes DEF AwaitNone, TypeOK
<1>5. LoopInv'
  BY <1>1, <1>3 DEF AwaitNone, LoopInv, Version, checkpointVars, diskVars
<1> QED
  BY <1>2, <1>3, <1>4, <1>5, IdleStep DEF AwaitNone

\* A step of training makes the histories of the models it updates longer by one.
LEMMA TrainWeights ==
  ASSUME TypeOK, LoopInv, Train
  PROVE  /\ weights' \in [Shards -> Histories]
         /\ \A f \in Shards :
              \/ weights'[f] = weights[f]
              \/ weights'[f] = Append(weights[f], <<batch.pos, run>>)
<1>1. batch.pos \in Nat \ {0} /\ run \in 1..MaxRuns
  BY DEF TypeOK, LoopInv, Train
<1> DEFINE updated == {Critic} \cup
             IF CriticWarmup <= global_steps THEN Trained(batch.pos) ELSE {}
<1>2. weights' = [f \in Shards |->
        IF f[1] \in updated THEN Append(weights[f], <<batch.pos, run>>) ELSE weights[f]]
  BY DEF Train
<1> HIDE DEF updated
<1>3. ASSUME NEW f \in Shards
      PROVE  weights[f] \in Histories /\ Append(weights[f], <<batch.pos, run>>) \in Histories
  <2>1. weights[f] \in Histories
    BY DEF TypeOK
  <2>2. <<batch.pos, run>> \in (Nat \ {0}) \X (1..MaxRuns)
    BY <1>1
  <2> QED
    BY <2>1, <2>2, AppendProperties DEF Histories
<1> QED
  BY <1>2, <1>3

LEMMA TrainIInv == IInv /\ Train => IInv'
<1> SUFFICES ASSUME IInv, Train PROVE IInv'
  OBVIOUS
<1>1. TypeOK /\ LoopInv
  BY DEF IInv
<1>2. stage = "idle" /\ tracker # Torn
  BY IdleOutsideSave DEF Train
<1>3. pc' \in {"sync", "check"} /\ (pc' = "sync" => ~Sync)
  BY DEF Train, Sync, FullyAsync
<1>4. TypeOK'
  BY <1>1, <1>3, TrainWeights, SameCheckpointTypes DEF Train, TypeOK
<1>5. LoopInv'
  BY <1>1, <1>3 DEF Train, LoopInv, Version, Sync, checkpointVars, diskVars
<1> QED
  BY <1>2, <1>3, <1>4, <1>5, IdleStep DEF Train

\* What StepEnds does to the loop.
LEMMA StepEndsLemma ==
  ASSUME TypeOK, StepEnds
  PROVE  /\ pc' \in {"done", "loop"} /\ global_steps' \in Nat
         /\ global_steps' = global_steps + 1 /\ batch' = NoBatch
BY DEF StepEnds, TypeOK

LEMMA NoSaveIInv == IInv /\ NoSave => IInv'
<1> SUFFICES ASSUME IInv, NoSave PROVE IInv'
  OBVIOUS
<1>1. TypeOK /\ LoopInv
  BY DEF IInv
<1>2. stage = "idle" /\ tracker # Torn
  BY IdleOutsideSave DEF NoSave
<1>3. /\ pc' \in {"done", "loop"} /\ global_steps' \in Nat
      /\ global_steps' = global_steps + 1 /\ batch' = NoBatch
  BY <1>1, StepEndsLemma DEF NoSave
<1>4. TypeOK'
  BY <1>1, <1>3, SameCheckpointTypes DEF NoSave, TypeOK
<1>5. LoopInv'
  <2>1. tracker <= Version /\ global_steps \in Nat /\ global_steps >= 1 /\ tracker \in Int
    BY <1>1, Assumptions DEF LoopInv, NoSave, TypeOK, CheckpointTypeOK, NoFile, Torn
  <2> QED
    BY <1>3, <2>1 DEF NoSave, LoopInv, Version, checkpointVars, diskVars
<1> QED
  BY <1>2, <1>3, <1>4, <1>5, IdleStep DEF NoSave

\* The feeder goes on during a save as well, and changes nothing that a save looks at.
LEMMA FeedIInv == IInv /\ Feed => IInv'
<1> SUFFICES ASSUME IInv, Feed PROVE IInv'
  OBVIOUS
<1>1. TypeOK /\ LoopInv
  BY DEF IInv
<1> USE DEF checkpointVars, diskVars, saveVars
<1>2. TypeOK'
  BY <1>1, TakeTypes, SameCheckpointTypes DEF Feed, FedAll, TypeOK
<1>3. LoopInv'
  BY <1>1 DEF Feed, LoopInv, Version, Sync
<1>4. SaveInv'
  BY DEF IInv, Feed, SaveInv, Version
<1>5. ListInv'
  BY DEF IInv, Feed, ListInv, Registered, Bounded
<1>6. DiskInv'
  BY DEF IInv, Feed, DiskInv, Registered
<1>7. TrackedRestorable'
  BY DEF IInv, Feed, TrackedRestorable, OnlyCopyGone
<1> QED
  BY <1>2, <1>3, <1>4, <1>5, <1>6, <1>7 DEF IInv

-----------------------------------------------------------------------------
(* A save begins *)

\* No manager has registered anything of a save that begins.
LEMMA SaveStartsIInv ==
  ASSUME IInv, stage = "idle", NEW s \in Steps, tracker # Torn, tracker < s,
         SaveStarts(s), pc' = "save",
         UNCHANGED <<config, run, position, left, weights, inflight, batch, durable>>,
         global_steps' \in Nat, served' \in Nat,
         s = IF batch = NoBatch THEN Version' ELSE global_steps',
         LoopInv'
  PROVE  IInv'
<1> USE DEF SaveStarts, diskVars
<1>1. TypeOK
  BY DEF IInv
<1>2. \A m \in Managers : ~Registered(m) /\ ~Registered(m)'
  BY Assumptions DEF Registered
<1>3. TypeOK'
  BY <1>1, Assumptions DEF TypeOK, CheckpointTypeOK
<1>4. SaveInv'
  BY DEF SaveInv, Version
<1>5. ListInv'
  <2>1. ASSUME NEW m \in Managers
        PROVE  Bounded(previous_saved_paths'[m],
                       IF Registered(m)' THEN save_step' ELSE tracker')
    BY <1>2 DEF IInv, ListInv
  <2> QED
    BY <2>1 DEF ListInv, Bounded
<1>6. DiskInv'
  <2>1. \A f \in Shards : ~Registered(f[1])'
    BY <1>2 DEF Shards
  <2> QED
    BY <2>1 DEF IInv, DiskInv
<1>7. TrackedRestorable'
  BY DEF IInv, TrackedRestorable, OnlyCopyGone
<1> QED
  BY <1>3, <1>4, <1>5, <1>6, <1>7 DEF IInv

LEMMA SaveIInv == IInv /\ Save => IInv'
<1> SUFFICES ASSUME IInv, Save PROVE IInv'
  OBVIOUS
<1>1. TypeOK /\ LoopInv
  BY DEF IInv
<1>2. stage = "idle" /\ tracker # Torn
  BY IdleOutsideSave DEF Save
<1>3. batch # NoBatch /\ tracker < global_steps
  BY <1>1 DEF Save, LoopInv, Version, TypeOK, CheckpointTypeOK, NoFile, Torn, Steps
<1>4. LoopInv'
  BY <1>1 DEF Save, LoopInv, Version, SaveStarts, diskVars
<1>5. /\ global_steps' \in Nat /\ served' \in Nat
      /\ global_steps = IF batch = NoBatch THEN Version' ELSE global_steps'
  BY <1>1, <1>3 DEF Save, TypeOK
<1> QED
  BY <1>2, <1>3, <1>4, <1>5, SaveStartsIInv DEF Save

LEMMA FinalSteps ==
  ASSUME TypeOK, LoopInv, LastCheckpoint
  PROVE  /\ Version \in Nat /\ FinalVersion \in {Version, Version + 1}
         /\ Version' = FinalVersion /\ global_steps' \in Nat /\ global_steps' >= 1
         /\ served' \in Nat /\ tracker <= Version /\ tracker \in Int
<1>1. global_steps \in Nat /\ global_steps >= 1 /\ tracker <= Version /\ tracker \in Int
  BY DEF TypeOK, LoopInv, LastCheckpoint, CheckpointTypeOK, NoFile, Torn, Steps
<1>2. Version \in Nat /\ FinalVersion \in {Version, Version + 1}
  BY <1>1 DEF Version, FinalVersion
<1>3. global_steps' = FinalVersion + 1 /\ served' = FinalVersion
  BY DEF LastCheckpoint
<1>4. Version' = FinalVersion
  <2>1. Version' = global_steps' - 1
    BY DEF Version
  <2> QED
    BY <1>2, <1>3, <2>1
<1> QED
  BY <1>1, <1>2, <1>3, <1>4

LEMMA LastCheckpointIInv == IInv /\ LastCheckpoint => IInv'
<1> SUFFICES ASSUME IInv, LastCheckpoint PROVE IInv'
  OBVIOUS
<1>1. TypeOK /\ LoopInv
  BY DEF IInv
<1>2. stage = "idle" /\ tracker # Torn
  BY IdleOutsideSave DEF LastCheckpoint
<1> DEFINE last == IF tracker = NoFile THEN 0 ELSE tracker
<1>0. /\ Version \in Nat /\ FinalVersion \in {Version, Version + 1} /\ Version' = FinalVersion
      /\ global_steps' \in Nat /\ global_steps' >= 1 /\ served' \in Nat
      /\ tracker <= Version /\ tracker \in Int
  BY <1>1, FinalSteps
<1>3. CASE FinalVersion # last /\ FinalVersion \in Steps /\ SaveStarts(FinalVersion) /\ pc' = "save"
  <2>1. tracker < FinalVersion
    BY <1>0, <1>3, Assumptions DEF NoFile
  <2>2. LoopInv'
    BY <1>0, <1>1, <1>3 DEF LastCheckpoint, LoopInv, SaveStarts, diskVars
  <2>3. batch = NoBatch
    BY <1>1 DEF LastCheckpoint, LoopInv
  <2> QED
    BY <1>0, <1>2, <1>3, <2>1, <2>2, <2>3, SaveStartsIInv DEF LastCheckpoint
<1>4. CASE (FinalVersion = last \/ FinalVersion % SaveFreq # 0) /\ pc' = "done" /\ UNCHANGED checkpointVars
  <2>1. TypeOK'
    BY <1>0, <1>1, <1>4, SameCheckpointTypes DEF LastCheckpoint, TypeOK
  <2>2. LoopInv'
    BY <1>0, <1>1, <1>4 DEF LastCheckpoint, LoopInv, checkpointVars, diskVars
  <2> QED
    BY <1>2, <1>4, <2>1, <2>2, IdleStep DEF LastCheckpoint
<1> QED
  BY <1>3, <1>4 DEF LastCheckpoint

-----------------------------------------------------------------------------
(* A save goes on *)

LEMMA ShardTuple ==
  ASSUME NEW m \in Managers, NEW r \in Ranks
  PROVE  <<m, r>> \in Shards /\ <<m, r>>[1] = m /\ <<m, r>>[2] = r
BY DEF Shards

LEMMA ShardParts ==
  ASSUME NEW f \in Shards
  PROVE  f[1] \in Managers /\ f[2] \in Ranks /\ f = <<f[1], f[2]>>
BY DEF Shards

\* Only the files of manager m in the directories `gone' disappear.
LEMMA PruneKeeps ==
  ASSUME CheckpointTypeOK(Histories), NEW m \in Managers, NEW gone \in SUBSET Steps,
         shard' = [s \in Steps |->
           IF s \in gone THEN [f \in Shards |-> IF f[1] = m THEN {} ELSE shard[s][f]]
           ELSE shard[s]]
  PROVE  /\ shard' \in [Steps -> [Shards -> SUBSET Histories]]
         /\ \A s \in Steps, f \in Shards :
              shard'[s][f] = IF s \in gone /\ f[1] = m THEN {} ELSE shard[s][f]
BY DEF CheckpointTypeOK

\* Pruning by manager mgr keeps what the other parts of the invariant say, as long as what
\* it deletes is older than the step saved, and, when two or more are kept, than the
\* tracked one.
LEMMA PruneStep ==
  ASSUME IInv, stage \in {"capacity", "write"}, tracker # Torn,
         NEW gone \in SUBSET Steps,
         \A s \in gone : s < save_step,
         \A s \in gone : config.keep[mgr] # 1 => s < tracker,
         dirs' = [dirs EXCEPT ![mgr] = (@ \ gone) \cup {save_step}],
         shard' = [s \in Steps |->
           IF s \in gone THEN [f \in Shards |-> IF f[1] = mgr THEN {} ELSE shard[s][f]]
           ELSE shard[s]],
         UNCHANGED <<data, tracker, save_step, config, weights, durable>>
  PROVE  /\ TrackedRestorable'
         /\ \A s \in Steps, f \in Shards : s \notin dirs'[f[1]] => shard'[s][f] = {}
         /\ save_step \in dirs'[mgr]
         /\ \A f \in Shards : shard'[save_step][f] = shard[save_step][f]
         /\ shard' \in [Steps -> [Shards -> SUBSET Histories]]
         /\ dirs' \in [Managers -> SUBSET Steps]
<1>1. /\ TypeOK /\ CheckpointTypeOK(Histories)
      /\ save_step \in Steps /\ tracker < save_step /\ mgr \in Managers
  BY DEF IInv, TypeOK, CheckpointTypeOK, SaveInv
<1>2. /\ shard' \in [Steps -> [Shards -> SUBSET Histories]]
      /\ \A s \in Steps, f \in Shards :
           shard'[s][f] = IF s \in gone /\ f[1] = mgr THEN {} ELSE shard[s][f]
  BY <1>1, PruneKeeps
<1>3. /\ dirs' \in [Managers -> SUBSET Steps]
      /\ \A m \in Managers : dirs'[m] = IF m = mgr THEN (dirs[m] \ gone) \cup {save_step}
                                        ELSE dirs[m]
  BY <1>1 DEF CheckpointTypeOK
<1>4. ASSUME NEW s \in Steps, NEW f \in Shards, s \notin dirs'[f[1]]
      PROVE  shard'[s][f] = {}
  <2>1. f[1] \in Managers
    BY ShardParts
  <2> QED
    BY <1>2, <1>3, <1>4, <2>1 DEF IInv, DiskInv
<1>5. save_step \notin gone
  BY <1>1, Assumptions
<1>6. TrackedRestorable'
  <2>1. CASE tracker = NoFile
    BY <2>1 DEF IInv, TrackedRestorable
  <2>2. CASE tracker # NoFile
    <3>1. tracker \in Steps
      BY <1>1, <2>2 DEF CheckpointTypeOK
    <3>2. CASE OnlyCopyGone
      <4>1. PICK m \in Managers : config.keep[m] = 1 /\ tracker \notin dirs[m]
        BY <3>2 DEF OnlyCopyGone
      <4>2. tracker \notin dirs'[m]
        BY <1>1, <1>3, <3>1, <4>1, Assumptions
      <4> QED
        BY <2>2, <4>1, <4>2 DEF OnlyCopyGone, TrackedRestorable
    <3>3. CASE ~OnlyCopyGone /\ tracker \in gone
      <4>1. config.keep[mgr] = 1
        BY <1>1, <3>1, <3>3, Assumptions
      <4>2. tracker \notin dirs'[mgr]
        BY <1>1, <1>3, <3>1, <3>3, Assumptions
      <4> QED
        BY <1>1, <2>2, <4>1, <4>2 DEF OnlyCopyGone, TrackedRestorable
    <3>4. CASE ~OnlyCopyGone /\ tracker \notin gone
      <4>1. durable.step = tracker /\ \A f \in Shards : shard[tracker][f] = {durable.weights[f]}
        BY <2>2, <3>4 DEF IInv, TrackedRestorable
      <4>2. \A f \in Shards : shard'[tracker][f] = shard[tracker][f]
        BY <1>2, <3>1, <3>4
      <4> QED
        BY <2>2, <4>1, <4>2 DEF TrackedRestorable
    <3> QED
      BY <3>2, <3>3, <3>4
  <2> QED
    BY <2>1, <2>2
<1> QED
  BY <1>1, <1>2, <1>3, <1>4, <1>5, <1>6

\* Where a save is: the loop waits.
LEMMA DuringSave ==
  ASSUME IInv, stage # "idle"
  PROVE  /\ TypeOK /\ CheckpointTypeOK(Histories) /\ LoopInv
         /\ pc = "save" /\ save_step \in Steps /\ tracker < save_step /\ mgr \in Managers
         /\ tracker \in Int /\ save_step \in Nat /\ mgr \in Nat
         /\ stage # "track" => tracker # Torn
         /\ config.keep[mgr] \in Nat
         /\ save_step = IF batch = NoBatch THEN Version ELSE global_steps
<1>1. TypeOK /\ CheckpointTypeOK(Histories) /\ LoopInv
  BY DEF IInv, TypeOK
<1>2. /\ pc = "save" /\ save_step \in Steps /\ tracker < save_step
      /\ save_step = IF batch = NoBatch THEN Version ELSE global_steps
      /\ stage # "track" => tracker # Torn
  BY DEF IInv, SaveInv
<1>3. mgr \in Managers /\ tracker \in Int
  BY <1>1, Assumptions DEF CheckpointTypeOK, NoFile, Torn
<1>4. config.keep[mgr] \in Nat
  BY <1>1, <1>3, ConfigFields
<1> QED
  BY <1>1, <1>2, <1>3, <1>4, Assumptions

\* The loop's part of the invariant during a save.
LEMMA SaveFrame ==
  ASSUME IInv, stage # "idle", UNCHANGED <<config, loopVars, durable>>,
         CheckpointTypeOK(Histories)', stage' # "idle", save_step' = save_step,
         tracker' = tracker, stage' = "track" \/ tracker # Torn
  PROVE  TypeOK' /\ SaveInv' /\ LoopInv'
<1> USE DEF loopVars
<1>1. TypeOK'
  BY DuringSave DEF TypeOK
<1>2. SaveInv'
  BY DuringSave DEF SaveInv, Version
<1>3. LoopInv'
  BY DuringSave DEF LoopInv, Version, Sync
<1> QED
  BY <1>1, <1>2, <1>3

LEMMA BoundedRest ==
  ASSUME NEW list \in Seq(Steps), NEW s \in Int, Bounded(list, s),
         NEW cut \in 0..Len(list), NEW stay \in Seq(Steps),
         Len(stay) = Len(list) - cut, \A k \in 1..Len(stay) : stay[k] = list[k + cut]
  PROVE  Bounded(stay, s)
<1>1. Len(list) \in Nat /\ cut \in Nat /\ Len(stay) \in Nat
  BY LenProperties
<1>2. ASSUME NEW k \in 1..Len(stay)
      PROVE  stay[k] <= s /\ (k < Len(stay) => stay[k] < s)
  <2>1. k + cut \in 1..Len(list) /\ (k < Len(stay) => k + cut < Len(list))
    BY <1>1
  <2> QED
    BY <2>1 DEF Bounded
<1> QED
  BY <1>2 DEF Bounded

LEMMA EnsureCapacityIInv ==
  IInv /\ EnsureCapacity(config.keep) /\ UNCHANGED <<config, loopVars, durable>> => IInv'
<1> SUFFICES ASSUME IInv, EnsureCapacity(config.keep), UNCHANGED <<config, loopVars, durable>>
             PROVE  IInv'
  OBVIOUS
<1> DEFINE list == previous_saved_paths[mgr]
           keep == config.keep[mgr]
<1>1. /\ CheckpointTypeOK(Histories) /\ stage = "capacity" /\ stage' = "write"
      /\ save_step \in Steps /\ tracker < save_step /\ mgr \in Managers /\ keep \in Nat
      /\ tracker \in Int /\ tracker # Torn /\ save_step \in Nat
      /\ UNCHANGED <<data, tracker, save_step, mgr>>
      /\ wrote' = [r \in Ranks |-> "no"]
      /\ Prune(mgr, list, Capacity(keep), save_step)
  BY DuringSave DEF EnsureCapacity
<1>2. list \in Seq(Steps) /\ Len(list) \in Nat /\ \A k \in 1..Len(list) : list[k] \in Int
  <2>1. list \in Seq(Steps)
    BY <1>1 DEF CheckpointTypeOK
  <2> HIDE DEF list
  <2>2. Len(list) \in Nat /\ \A k \in 1..Len(list) : list[k] \in Steps
    BY <2>1, LenProperties
  <2>3. ASSUME NEW k \in 1..Len(list) PROVE list[k] \in Int
    <3>1. list[k] \in Steps
      BY <2>2
    <3> QED
      BY <3>1 DEF Steps
  <2> QED
    BY <2>1, <2>2, <2>3
<1>3. Capacity(keep) = IF keep > 1 THEN keep - 1 ELSE Len(list)
  BY DEF Capacity
<1>4. Capacity(keep) \in Nat
  BY <1>1, <1>2, <1>3
<1>5. PICK cut \in 0..Len(list), stay \in Seq(Steps), gone \in SUBSET Steps :
        /\ cut = IF Len(list) > Capacity(keep) THEN Len(list) - Capacity(keep) ELSE 0
        /\ stay = SubSeq(list, cut + 1, Len(list))
        /\ gone = Listed(SubSeq(list, 1, cut))
        /\ \A s \in gone : \E k \in 1..cut : s = list[k]
        /\ Len(stay) = Len(list) - cut
        /\ \A k \in 1..Len(stay) : stay[k] = list[k + cut]
  <2> HIDE DEF list, keep
  <2> QED
    BY <1>2, <1>4, PruneLemma
<1>a. /\ previous_saved_paths' = [previous_saved_paths EXCEPT ![mgr] = stay]
      /\ dirs' = [dirs EXCEPT ![mgr] = (@ \ gone) \cup {save_step}]
      /\ shard' = [s \in Steps |->
           IF s \in gone THEN [f \in Shards |-> IF f[1] = mgr THEN {} ELSE shard[s][f]]
           ELSE shard[s]]
  BY <1>1, <1>5 DEF Prune
<1> HIDE DEF list, keep
<1>6. ~Registered(mgr) /\ \A m \in Managers : Registered(m)' <=> Registered(m)
  BY <1>1, Assumptions DEF Registered
<1>7. Bounded(list, tracker)
  BY <1>1, <1>6 DEF IInv, ListInv, list
<1>8. ASSUME NEW s \in gone
      PROVE  s < tracker /\ s < save_step
  <2>1. PICK k \in 1..cut : s = list[k]
    BY <1>5
  <2>2. cut < Len(list)
    BY <1>1, <1>2, <1>3, <1>5, <2>1
  <2>3. k \in 1..Len(list) /\ k < Len(list)
    BY <1>2, <2>2
  <2>4. s < tracker /\ s \in Int
    BY <1>2, <1>7, <2>1, <2>3 DEF Bounded
  <2> QED
    BY <1>1, <2>4
<1>9. /\ TrackedRestorable'
      /\ \A s \in Steps, f \in Shards : s \notin dirs'[f[1]] => shard'[s][f] = {}
      /\ save_step \in dirs'[mgr]
      /\ \A f \in Shards : shard'[save_step][f] = shard[save_step][f]
      /\ shard' \in [Steps -> [Shards -> SUBSET Histories]]
      /\ dirs' \in [Managers -> SUBSET Steps]
  BY <1>1, <1>a, <1>8, PruneStep DEF loopVars
<1>10. TypeOK' /\ SaveInv' /\ LoopInv'
  <2>1. CheckpointTypeOK(Histories)'
    BY <1>1, <1>5, <1>a, <1>9 DEF CheckpointTypeOK
  <2> QED
    BY <1>1, <2>1, SaveFrame
<1>11. ListInv'
  <2>1. Bounded(stay, tracker)
    <3>1. list \in Seq(Steps) /\ tracker \in Int
      BY <1>1, <1>2
    <3>2. Len(stay) = Len(list) - cut /\ \A k \in 1..Len(stay) : stay[k] = list[k + cut]
      BY <1>5
    <3> QED
      BY ONLY <1>7, <3>1, <3>2, BoundedRest
  <2>2. ASSUME NEW m \in Managers
        PROVE  Bounded(previous_saved_paths'[m],
                       IF Registered(m)' THEN save_step' ELSE tracker')
    <3>1. previous_saved_paths'[m] = IF m = mgr THEN stay ELSE previous_saved_paths[m]
      BY <1>1, <1>5, <1>a DEF CheckpointTypeOK
    <3> QED
      BY <1>1, <1>6, <2>1, <3>1 DEF IInv, ListInv
  <2>3. keep > 1 => Len(stay) < keep
    <3>1. SUFFICES ASSUME keep > 1 PROVE Len(stay) < keep
      OBVIOUS
    <3>2. Capacity(keep) = keep - 1 /\ Len(stay) = Len(list) - cut
      BY <1>3, <1>5, <3>1
    <3>3. cut = IF Len(list) > keep - 1 THEN Len(list) - (keep - 1) ELSE 0
      BY <1>5, <3>2
    <3>4. keep \in Nat /\ Len(list) \in Nat
      BY <1>1, <1>2
    <3> QED
      BY <3>1, <3>2, <3>3, <3>4
  <2>4. previous_saved_paths'[mgr'] = stay /\ config'.keep[mgr'] = keep
    BY <1>1, <1>5, <1>a DEF CheckpointTypeOK, keep
  <2> QED
    BY <2>2, <2>3, <2>4 DEF ListInv, Bounded
<1>12. DiskInv'
  <2>1. \A f \in Shards : Registered(f[1])' => shard'[save_step][f] = {weights[f]}
    BY <1>6, <1>9, ShardParts DEF IInv, DiskInv
  <2>2. \A r \in Ranks : wrote'[r] # "whole"
    BY <1>1
  <2> QED
    BY <1>1, <1>9, <2>1, <2>2 DEF DiskInv, loopVars
<1> QED
  BY <1>9, <1>10, <1>11, <1>12 DEF IInv

LEMMA RegisterIInv ==
  IInv /\ Register(config.keep) /\ UNCHANGED <<config, loopVars, durable>> => IInv'
<1> SUFFICES ASSUME IInv, Register(config.keep), UNCHANGED <<config, loopVars, durable>>
             PROVE  IInv'
  OBVIOUS
<1> DEFINE old == previous_saved_paths[mgr]
           list == Append(old, save_step)
           keep == config.keep[mgr]
<1>1. /\ CheckpointTypeOK(Histories) /\ stage = "write" /\ AllWrote
      /\ save_step \in Steps /\ tracker < save_step /\ mgr \in Managers /\ keep \in Nat
      /\ tracker \in Int /\ tracker # Torn /\ save_step \in Nat
      /\ UNCHANGED <<data, tracker, save_step, wrote>>
      /\ \/ mgr < NManagers /\ mgr' = mgr + 1 /\ stage' = "capacity"
         \/ mgr >= NManagers /\ mgr' = mgr /\ stage' = "data"
      /\ Prune(mgr, list, Limit(keep), save_step)
  BY DuringSave, Assumptions DEF Register
<1>2. old \in Seq(Steps)
  BY <1>1 DEF CheckpointTypeOK
<1>3. Limit(keep) = IF keep > 0 THEN keep ELSE Len(old) + 1
  BY DEF Limit
<1>4. keep > 1 => Len(old) < keep
  BY <1>1 DEF IInv, ListInv
<1>5. ~Registered(mgr)
  BY <1>1, Assumptions DEF Registered
<1>6. Bounded(old, tracker)
  BY <1>1, <1>5 DEF IInv, ListInv
<1> HIDE DEF old, keep
<1>7. /\ list \in Seq(Steps) /\ Len(list) = Len(old) + 1
      /\ \A k \in 1..Len(old) : list[k] = old[k]
      /\ list[Len(old) + 1] = save_step
  BY <1>1, <1>2, AppendList
<1>8. Len(old) \in Nat /\ \A k \in 1..Len(old) : old[k] \in Steps
  BY <1>2, LenProperties
<1>9. Limit(keep) \in Nat
  BY <1>1, <1>3, <1>8
<1> HIDE DEF list
<1>10. PICK cut \in 0..Len(list), stay \in Seq(Steps), gone \in SUBSET Steps :
        /\ cut = IF Len(list) > Limit(keep) THEN Len(list) - Limit(keep) ELSE 0
        /\ stay = SubSeq(list, cut + 1, Len(list))
        /\ gone = Listed(SubSeq(list, 1, cut))
        /\ \A s \in gone : \E k \in 1..cut : s = list[k]
        /\ Len(stay) = Len(list) - cut
        /\ \A k \in 1..Len(stay) : stay[k] = list[k + cut]
  BY <1>7, <1>9, PruneLemma
<1>11. /\ previous_saved_paths' = [previous_saved_paths EXCEPT ![mgr] = stay]
       /\ dirs' = [dirs EXCEPT ![mgr] = (@ \ gone) \cup {save_step}]
       /\ shard' = [s \in Steps |->
            IF s \in gone THEN [f \in Shards |-> IF f[1] = mgr THEN {} ELSE shard[s][f]]
            ELSE shard[s]]
  BY <1>1, <1>10 DEF Prune
<1>12. /\ cut <= Len(old)
       /\ keep # 1 => cut = 0
  <2>1. cut = IF Len(list) > Limit(keep) THEN Len(list) - Limit(keep) ELSE 0
    BY <1>10
  <2>2. Limit(keep) >= 1
    BY <1>1, <1>3, <1>8
  <2>3. keep # 1 => Limit(keep) >= Len(list)
    BY <1>1, <1>3, <1>4, <1>7, <1>8
  <2> QED
    BY <1>7, <1>8, <1>9, <2>1, <2>2, <2>3
<1>13. ASSUME NEW k \in 1..Len(old)
       PROVE  list[k] < save_step /\ old[k] \in Int
  <2>1. old[k] <= tracker /\ old[k] \in Int
    <3>1. old[k] \in Steps
      BY <1>8
    <3> QED
      BY <1>6, <3>1 DEF Bounded, Steps
  <2> QED
    BY <1>1, <1>7, <2>1
<1>14. ASSUME NEW s \in gone
       PROVE  s < save_step /\ keep = 1
  <2>1. PICK k \in 1..cut : s = list[k]
    BY <1>10
  <2>2. k \in 1..Len(old) /\ cut # 0
    BY <1>8, <1>12, <2>1
  <2> QED
    BY <1>12, <1>13, <2>1, <2>2
<1>15. /\ TrackedRestorable'
       /\ \A s \in Steps, f \in Shards : s \notin dirs'[f[1]] => shard'[s][f] = {}
       /\ save_step \in dirs'[mgr]
       /\ \A f \in Shards : shard'[save_step][f] = shard[save_step][f]
       /\ shard' \in [Steps -> [Shards -> SUBSET Histories]]
       /\ dirs' \in [Managers -> SUBSET Steps]
  <2>1. \A s \in gone : s < save_step
    BY <1>14
  <2>2. \A s \in gone : config.keep[mgr] # 1 => s < tracker
    BY <1>14 DEF keep
  <2> QED
    BY <1>1, <1>11, <2>1, <2>2, PruneStep DEF loopVars
<1>16. \A m \in Managers : Registered(m)' <=> Registered(m) \/ m = mgr
  BY <1>1, Assumptions DEF Registered, Managers
<1>17. TypeOK' /\ SaveInv' /\ LoopInv'
  <2>1. CheckpointTypeOK(Histories)'
    <3>1. mgr' \in Managers
      BY <1>1, Assumptions DEF Managers
    <3> QED
      BY <1>1, <1>11, <1>15, <3>1 DEF CheckpointTypeOK
  <2> QED
    BY <1>1, <2>1, SaveFrame
<1>18. ListInv'
  <2>1. Bounded(list, save_step)
    <3>1. ASSUME NEW k \in 1..Len(list)
          PROVE  list[k] <= save_step /\ (k < Len(list) => list[k] < save_step)
      <4>1. CASE k \in 1..Len(old)
        BY <1>1, <1>7, <1>13, <4>1
      <4>2. CASE k = Len(old) + 1
        BY <1>1, <1>7, <1>8, <4>2
      <4> QED
        BY <1>7, <1>8, <4>1, <4>2
    <3> QED
      BY <3>1 DEF Bounded
  <2>2. Bounded(stay, save_step)
    <3>1. save_step \in Int
      BY <1>1
    <3>2. Len(stay) = Len(list) - cut /\ \A k \in 1..Len(stay) : stay[k] = list[k + cut]
      BY <1>10
    <3> QED
      BY <1>7, <2>1, <3>1, <3>2, BoundedRest
  <2>3. ASSUME NEW m \in Managers
        PROVE  Bounded(previous_saved_paths'[m],
                       IF Registered(m)' THEN save_step' ELSE tracker')
    <3>1. previous_saved_paths'[m] = IF m = mgr THEN stay ELSE previous_saved_paths[m]
      BY <1>1, <1>11 DEF CheckpointTypeOK
    <3> QED
      BY <1>1, <1>16, <2>2, <3>1 DEF IInv, ListInv
  <2> QED
    BY <1>1, <2>3 DEF ListInv, Bounded
<1>19. DiskInv'
  <2>1. ASSUME NEW f \in Shards, Registered(f[1])'
        PROVE  shard'[save_step][f] = {weights[f]}
    <3>1. CASE f[1] = mgr
      <4>1. f[2] \in Ranks /\ f = <<mgr, f[2]>>
        BY <3>1, ShardParts
      <4>2. wrote[f[2]] = "whole"
        BY <1>1, <4>1 DEF AllWrote
      <4>3. shard[save_step][<<mgr, f[2]>>] = {weights[<<mgr, f[2]>>]}
        BY <1>1, <4>1, <4>2 DEF IInv, DiskInv
      <4> QED
        BY <1>15, <4>1, <4>3
    <3>2. CASE f[1] # mgr
      BY <1>15, <1>16, <2>1, <3>2, ShardParts DEF IInv, DiskInv
    <3> QED
      BY <3>1, <3>2
  <2> QED
    BY <1>1, <1>15, <2>1 DEF DiskInv, loopVars
<1> QED
  BY <1>15, <1>17, <1>18, <1>19 DEF IInv

LEMMA RankWritesIInv == IInv /\ (\E r \in Ranks : RankWrites(r)) => IInv'
<1> SUFFICES ASSUME IInv, NEW r \in Ranks, RankWrites(r) PROVE IInv'
  OBVIOUS
<1>1. \E files \in {{}, {weights[<<mgr, r>>]}}, state \in {"torn", "whole"} :
        /\ stage = "write" /\ (state = "whole" => files = {weights[<<mgr, r>>]})
        /\ shard' = [shard EXCEPT ![save_step][<<mgr, r>>] = files]
        /\ wrote' = [wrote EXCEPT ![r] = state]
        /\ UNCHANGED <<dirs, data, tracker, previous_saved_paths, stage, save_step, mgr,
                       config, loopVars, durable>>
  BY DEF RankWrites, WriteBegins, WriteEnds
<1>2. PICK files \in {{}, {weights[<<mgr, r>>]}}, state \in {"torn", "whole"} :
        /\ stage = "write" /\ (state = "whole" => files = {weights[<<mgr, r>>]})
        /\ shard' = [shard EXCEPT ![save_step][<<mgr, r>>] = files]
        /\ wrote' = [wrote EXCEPT ![r] = state]
        /\ UNCHANGED <<dirs, data, tracker, previous_saved_paths, stage, save_step, mgr,
                       config, loopVars, durable>>
  BY <1>1
<1>3. /\ TypeOK /\ CheckpointTypeOK(Histories) /\ mgr \in Managers
      /\ save_step \in Steps /\ tracker < save_step /\ tracker # Torn /\ tracker \in Int
      /\ weights' = weights
  BY <1>2, DuringSave DEF loopVars
<1>4. <<mgr, r>> \in Shards /\ <<mgr, r>>[1] = mgr
  BY <1>3, ShardTuple
<1>5. weights[<<mgr, r>>] \in Histories
  BY <1>3, <1>4 DEF TypeOK
<1>6. files \in SUBSET Histories
  BY <1>5
<1>7. /\ shard' \in [Steps -> [Shards -> SUBSET Histories]]
      /\ \A s \in Steps, f \in Shards :
           shard'[s][f] = IF s = save_step /\ f = <<mgr, r>> THEN files ELSE shard[s][f]
  BY <1>2, <1>3, <1>4, <1>6 DEF CheckpointTypeOK
<1>8. /\ wrote' \in [Ranks -> {"no", "torn", "whole"}]
      /\ \A q \in Ranks : wrote'[q] = IF q = r THEN state ELSE wrote[q]
  BY <1>2, <1>3 DEF CheckpointTypeOK
<1>9. TypeOK' /\ SaveInv' /\ LoopInv'
  <2>1. CheckpointTypeOK(Histories)'
    BY <1>2, <1>3, <1>7, <1>8 DEF CheckpointTypeOK
  <2> QED
    BY <1>2, <1>3, <2>1, SaveFrame
<1>10. ListInv'
  BY <1>2 DEF IInv, ListInv, Registered, Bounded
<1>11. DiskInv'
  <2>1. ASSUME NEW s \in Steps, NEW f \in Shards, s \notin dirs[f[1]]
        PROVE  shard'[s][f] = {}
    <3>1. ~(s = save_step /\ f = <<mgr, r>>)
      BY <1>2, <1>4, <2>1 DEF IInv, DiskInv
    <3> QED
      BY <1>7, <2>1, <3>1 DEF IInv, DiskInv
  <2>2. ASSUME NEW q \in Ranks, wrote'[q] = "whole"
        PROVE  shard'[save_step][<<mgr, q>>] = {weights[<<mgr, q>>]}
    <3>1. <<mgr, q>> \in Shards
      BY <1>3, ShardTuple
    <3>2. CASE q = r
      BY <1>2, <1>3, <1>7, <1>8, <2>2, <3>1, <3>2
    <3>3. CASE q # r
      BY <1>2, <1>3, <1>7, <1>8, <2>2, <3>1, <3>3 DEF IInv, DiskInv
    <3> QED
      BY <3>2, <3>3
  <2>3. ASSUME NEW f \in Shards, Registered(f[1])
        PROVE  shard'[save_step][f] = {weights[f]}
    <3>1. f # <<mgr, r>>
      BY <1>2, <1>3, <1>4, <2>3, Assumptions DEF Registered
    <3> QED
      BY <1>3, <1>7, <2>3, <3>1 DEF IInv, DiskInv
  <2>4. \A f \in Shards : Registered(f[1])' <=> Registered(f[1])
    BY <1>2 DEF Registered
  <2>5. save_step \in dirs[mgr]
    BY <1>2 DEF IInv, DiskInv
  <2> QED
    BY <1>2, <1>3, <2>1, <2>2, <2>3, <2>4, <2>5 DEF DiskInv
<1>12. TrackedRestorable'
  <2>1. \A f \in Shards : tracker \in Steps => shard'[tracker][f] = shard[tracker][f]
    BY <1>3, <1>7, Assumptions
  <2>2. tracker \in Steps \/ tracker = NoFile
    BY <1>3 DEF CheckpointTypeOK
  <2> QED
    BY <1>2, <2>1, <2>2 DEF IInv, TrackedRestorable, OnlyCopyGone
<1> QED
  BY <1>9, <1>10, <1>11, <1>12 DEF IInv

LEMMA SaveDataIInv == IInv /\ SaveData(position) /\ UNCHANGED <<config, loopVars, durable>> => IInv'
<1> SUFFICES ASSUME IInv, SaveData(position), UNCHANGED <<config, loopVars, durable>> PROVE IInv'
  OBVIOUS
<1> USE DEF SaveData
<1>1. TypeOK' /\ SaveInv' /\ LoopInv'
  <2>1. position \in Nat /\ CheckpointTypeOK(Histories) /\ tracker # Torn
    BY DuringSave DEF TypeOK
  <2>2. CheckpointTypeOK(Histories)'
    BY <2>1 DEF CheckpointTypeOK
  <2> QED
    BY <2>1, <2>2, SaveFrame
<1>2. \A m \in Managers : Registered(m) /\ Registered(m)'
  BY DEF Registered
<1>3. ListInv'
  BY <1>2 DEF IInv, ListInv, Bounded
<1>4. DiskInv'
  BY <1>2, ShardParts DEF IInv, DiskInv, loopVars
<1>5. TrackedRestorable'
  BY DEF IInv, TrackedRestorable, OnlyCopyGone
<1> QED
  BY <1>1, <1>3, <1>4, <1>5 DEF IInv

LEMMA TruncateIInv == IInv /\ TruncateTracker /\ UNCHANGED <<config, loopVars, durable>> => IInv'
<1> SUFFICES ASSUME IInv, TruncateTracker, UNCHANGED <<config, loopVars, durable>> PROVE IInv'
  OBVIOUS
<1> USE DEF TruncateTracker, loopVars
<1>1. /\ TypeOK /\ CheckpointTypeOK(Histories) /\ LoopInv /\ pc = "save"
      /\ save_step \in Steps /\ save_step \in Nat
      /\ save_step = IF batch = NoBatch THEN Version ELSE global_steps
  BY DuringSave
<1>2. TypeOK'
  BY <1>1 DEF TypeOK, CheckpointTypeOK
<1>3. SaveInv'
  BY <1>1 DEF SaveInv, Version, Torn
<1>4. LoopInv'
  <2>1. global_steps >= 1 /\ global_steps \in Nat
    BY <1>1 DEF LoopInv, TypeOK
  <2> QED
    BY <1>1, <2>1 DEF LoopInv, Version, Torn
<1>5. \A m \in Managers : Registered(m) /\ Registered(m)'
  BY DEF Registered
<1>6. ListInv'
  BY <1>5 DEF IInv, ListInv, Bounded
<1>7. DiskInv'
  BY <1>5, ShardParts DEF IInv, DiskInv
<1>8. TrackedRestorable'
  BY DEF TrackedRestorable, Torn, NoFile
<1> QED
  BY <1>2, <1>3, <1>4, <1>6, <1>7, <1>8 DEF IInv

LEMMA SaveEndsIInv == IInv /\ SaveEnds => IInv'
<1> SUFFICES ASSUME IInv, SaveEnds PROVE IInv'
  OBVIOUS
<1> USE DEF SaveEnds, WriteTracker
<1>1. /\ TypeOK /\ CheckpointTypeOK(Histories) /\ LoopInv /\ pc = "save"
      /\ save_step \in Steps /\ save_step \in Nat
      /\ save_step = IF batch = NoBatch THEN Version ELSE global_steps
  BY DuringSave
<1>2. global_steps >= 1 /\ global_steps \in Nat
  BY <1>1 DEF LoopInv, TypeOK
<1>3. /\ pc' \in {"done", "loop"} /\ batch' = NoBatch /\ global_steps' \in Nat
      /\ global_steps' >= 1 /\ save_step <= Version'
  <2>1. CASE batch = NoBatch
    BY <1>1, <1>2, <2>1 DEF Version
  <2>2. CASE batch # NoBatch
    BY <1>1, <1>2, <2>2, StepEndsLemma DEF Version
  <2> QED
    BY <2>1, <2>2
<1>4. TypeOK'
  <2>1. durable' \in [step : Nat, weights : [Shards -> Histories]]
    BY <1>1 DEF TypeOK
  <2>2. CheckpointTypeOK(Histories)'
    BY <1>1 DEF CheckpointTypeOK
  <2> QED
    BY <1>1, <1>3, <2>1, <2>2 DEF TypeOK
<1>5. SaveInv'
  BY <1>1, <1>3 DEF SaveInv, Torn
<1>6. LoopInv'
  BY <1>1, <1>3 DEF LoopInv
<1>7. \A m \in Managers : Registered(m) /\ ~Registered(m)'
  BY DEF Registered
<1>8. ListInv'
  BY <1>7 DEF IInv, ListInv, Bounded
<1>9. \A f \in Shards : shard[save_step][f] = {weights[f]}
  BY <1>7, ShardParts DEF IInv, DiskInv
<1>10. DiskInv'
  BY <1>7, ShardParts DEF IInv, DiskInv
<1>11. TrackedRestorable'
  BY <1>1, <1>9, Assumptions DEF TrackedRestorable, NoFile
<1> QED
  BY <1>4, <1>5, <1>6, <1>8, <1>10, <1>11 DEF IInv

LEMMA CrashIInv == IInv /\ Crash => IInv'
<1> SUFFICES ASSUME IInv, Crash PROVE IInv'
  OBVIOUS
<1> USE DEF Crash, ForgetSaves, diskVars
<1>1. TypeOK /\ CheckpointTypeOK(Histories)
  BY DEF IInv, TypeOK
<1>2. TypeOK'
  <2>1. CheckpointTypeOK(Histories)'
    BY <1>1, Assumptions, EmptySeq DEF CheckpointTypeOK
  <2>2. run' \in 1..MaxRuns
    BY <1>1, Assumptions DEF TypeOK
  <2> QED
    BY <1>1, <2>1, <2>2, FreshTypes DEF TypeOK
<1>3. SaveInv' /\ LoopInv'
  BY DEF SaveInv, LoopInv
<1>4. \A m \in Managers : ~Registered(m)' /\ previous_saved_paths'[m] = <<>>
  BY DEF Registered
<1>5. ListInv'
  BY <1>4 DEF ListInv, Bounded
<1>6. DiskInv'
  BY <1>4, ShardParts DEF IInv, DiskInv
<1>7. TrackedRestorable'
  BY DEF IInv, TrackedRestorable, OnlyCopyGone
<1> QED
  BY <1>2, <1>3, <1>5, <1>6, <1>7 DEF IInv

-----------------------------------------------------------------------------
(* The theorems *)

LEMMA InitIInv == Init => IInv
<1> SUFFICES ASSUME Init PROVE IInv
  OBVIOUS
<1> USE DEF Init, CheckpointInit
<1>1. TypeOK
  <2>1. CheckpointTypeOK(Histories)
    BY Assumptions, EmptySeq DEF CheckpointTypeOK
  <2>2. durable \in [step : Nat, weights : [Shards -> Histories]] /\ weights \in [Shards -> Histories]
    BY FreshTypes
  <2> QED
    BY <2>1, <2>2, Assumptions DEF TypeOK
<1>2. SaveInv /\ LoopInv
  BY DEF SaveInv, LoopInv, NoFile, Torn
<1>3. \A m \in Managers : ~Registered(m) /\ previous_saved_paths[m] = <<>>
  BY DEF Registered
<1>4. ListInv
  BY <1>3 DEF ListInv, Bounded
<1>5. DiskInv
  BY <1>3, ShardParts DEF DiskInv
<1>6. TrackedRestorable
  BY DEF TrackedRestorable
<1> QED
  BY <1>1, <1>2, <1>4, <1>5, <1>6 DEF IInv

LEMMA SaveGoesOnIInv == IInv /\ SaveGoesOn => IInv'
BY EnsureCapacityIInv, RegisterIInv, SaveDataIInv, TruncateIInv DEF SaveGoesOn

LEMMA StutterIInv == IInv /\ UNCHANGED vars => IInv'
<1> SUFFICES ASSUME IInv, UNCHANGED vars PROVE IInv'
  OBVIOUS
<1> USE DEF vars, loopVars, checkpointVars, diskVars, saveVars
<1>1. TypeOK'
  BY DEF IInv, TypeOK, CheckpointTypeOK
<1>2. SaveInv' /\ LoopInv'
  BY DEF IInv, SaveInv, LoopInv, Version, Sync
<1>3. ListInv'
  BY DEF IInv, ListInv, Registered, Bounded
<1>4. DiskInv'
  BY DEF IInv, DiskInv, Registered
<1>5. TrackedRestorable'
  BY DEF IInv, TrackedRestorable, OnlyCopyGone
<1> QED
  BY <1>1, <1>2, <1>3, <1>4, <1>5 DEF IInv

LEMMA NextIInv == IInv /\ [Next]_vars => IInv'
<1>1. IInv /\ Driver => IInv'
  BY FromScratchIInv, ResumeIInv, CannotResumeIInv, SyncWeightsIInv, LaunchIInv, NextBatchIInv,
     DataEndsIInv, AwaitIInv, AwaitNoneIInv, TrainIInv, NoSaveIInv, LastCheckpointIInv,
     SaveGoesOnIInv, SaveEndsIInv DEF Driver
<1> QED
  BY <1>1, SaveIInv, FeedIInv, CrashIInv, RankWritesIInv, StutterIInv DEF Next

THEOREM Invariant == Spec => []IInv
BY InitIInv, NextIInv, PTL DEF Spec

\* Types.
THEOREM TypeCorrect == Spec => []TypeOK
<1>1. IInv => TypeOK
  BY DEF IInv
<1> QED
  BY <1>1, Invariant, PTL

\* However many agents, ranks, steps, crashes and retained checkpoints: at any moment the
\* tracked checkpoint is whole and the state that was tracked, but for the two exceptions.
THEOREM Restorable == Spec => []TrackedRestorable
<1>1. IInv => TrackedRestorable
  BY DEF IInv
<1> QED
  BY <1>1, Invariant, PTL

-----------------------------------------------------------------------------
(* Refinement *)

\* A manager whose only copy is gone cannot be loaded.
LEMMA LoadableIsDurable ==
  ASSUME IInv, Loadable, pc = "start"
  PROVE  [f \in Shards |-> Loaded(f)] = durable.weights
<1>1. TypeOK /\ tracker \in Steps /\ tracker # Torn /\ tracker # NoFile
  BY Assumptions DEF IInv, Loadable, Torn, NoFile
<1>2. ~OnlyCopyGone
  <2>1. SUFFICES ASSUME NEW m \in Managers, tracker \notin dirs[m] PROVE FALSE
    BY DEF OnlyCopyGone
  <2>2. 0 \in Ranks
    BY Assumptions DEF Ranks
  <2>3. <<m, 0>> \in Shards /\ <<m, 0>>[1] = m
    BY <2>2, ShardTuple
  <2> QED
    BY <1>1, <2>1, <2>3 DEF IInv, DiskInv, Loadable
<1>3. \A f \in Shards : shard[tracker][f] = {durable.weights[f]}
  BY <1>1, <1>2 DEF IInv, TrackedRestorable
<1>4. \A f \in Shards : Loaded(f) = durable.weights[f]
  BY <1>3 DEF Loaded
<1>5. durable.weights \in [Shards -> Histories]
  BY <1>1 DEF TypeOK
<1> QED
  BY <1>4, <1>5

LEMMA ExtendsAppend ==
  ASSUME NEW S, NEW s \in Seq(S), NEW x \in S
  PROVE  Abstract!Extends(s, s) /\ Abstract!Extends(Append(s, x), s)
<1>1. Len(s) \in Nat
  BY LenProperties
<1>2. SubSeq(s, 1, Len(s)) = s
  BY SubSeqFull
<1>3. <<x>> \in Seq(S) /\ Append(s, x) = s \o <<x>>
  BY AppendIsConcat
<1>4. SubSeq(s \o <<x>>, 1, Len(s)) = SubSeq(s, 1, Len(s))
  BY <1>1, <1>3, SubSeqOfConcat1
<1>5. Len(Append(s, x)) = Len(s) + 1
  BY AppendProperties
<1> QED
  BY <1>1, <1>2, <1>3, <1>4, <1>5 DEF Abstract!Extends

\* A step of training extends the histories.
LEMMA TrainIsWork ==
  ASSUME IInv, Train
  PROVE  \A f \in Shards : Abstract!Extends(weights'[f], weights[f])
<1>1. TypeOK /\ LoopInv
  BY DEF IInv
<1>2. batch.pos \in Nat \ {0} /\ run \in 1..MaxRuns
  BY <1>1 DEF TypeOK, LoopInv, Train
<1>3. <<batch.pos, run>> \in (Nat \ {0}) \X (1..MaxRuns)
  BY <1>2
<1>4. ASSUME NEW f \in Shards
      PROVE  Abstract!Extends(weights'[f], weights[f])
  <2>1. weights[f] \in Seq((Nat \ {0}) \X (1..MaxRuns))
    BY <1>1 DEF TypeOK, Histories
  <2>2. weights'[f] = weights[f] \/ weights'[f] = Append(weights[f], <<batch.pos, run>>)
    BY <1>1, TrainWeights
  <2> QED
    BY <1>3, <2>1, <2>2, ExtendsAppend
<1> QED
  BY <1>4

LEMMA StepRefines ==
  IInv /\ [Next]_vars => [Abstract!Next]_<<Memory, durable.weights>>
<1> SUFFICES ASSUME IInv, [Next]_vars
             PROVE  Abstract!Next \/ UNCHANGED <<Memory, durable.weights>>
  OBVIOUS
<1> DEFINE Same == UNCHANGED <<Memory, durable.weights>>
<1>1. CASE FromScratch
  <2>1. durable.weights = Fresh
    BY <1>1 DEF IInv, TrackedRestorable, FromScratch, NothingSaved
  <2> QED
    BY <1>1, <2>1 DEF FromScratch, Begins, Memory
<1>2. CASE Resume
  BY <1>2, LoadableIsDurable DEF Resume, Begins, Memory
<1>3. CASE CannotResume
  BY <1>3 DEF CannotResume, Memory
<1>4. CASE SyncWeights \/ Launch \/ NextBatch \/ DataEnds \/ (\E b \in inflight : Await(b))
  BY <1>4 DEF SyncWeights, Launch, NextBatch, DataEnds, Await, Memory
<1>5. CASE AwaitNone
  BY <1>5 DEF AwaitNone, Memory, Abstract!Next, Abstract!Restart
<1>6. CASE Train
  <2>1. Memory = weights /\ Memory' = weights' /\ UNCHANGED durable
    BY <1>6 DEF Train, Memory
  <2> QED
    BY <1>6, <2>1, TrainIsWork DEF Abstract!Next, Abstract!Work
<1>7. CASE NoSave \/ LastCheckpoint \/ Save
  BY <1>7 DEF NoSave, StepEnds, LastCheckpoint, Save, Memory
<1>8. CASE SaveGoesOn \/ (\E r \in Ranks : RankWrites(r)) \/ UNCHANGED vars
  BY <1>8 DEF SaveGoesOn, RankWrites, vars, loopVars, Memory
<1>9. CASE Feed
  BY <1>9 DEF Feed, Take, Memory
<1>10. CASE SaveEnds
  <2>1. pc = "save" /\ pc' \in {"done", "loop"}
    BY <1>10, DuringSave DEF SaveEnds, StepEnds, WriteTracker
  <2>2. durable'.weights = weights /\ weights' = weights
    BY <1>10 DEF SaveEnds
  <2> QED
    BY <2>1, <2>2 DEF Memory, Abstract!Next, Abstract!Persist
<1>11. CASE Crash
  BY <1>11 DEF Crash, Memory, Abstract!Next, Abstract!Restart
<1> QED
  BY <1>1, <1>2, <1>3, <1>4, <1>5, <1>6, <1>7, <1>8, <1>9, <1>10, <1>11 DEF Next, Driver

\* Training with checkpoints implements a computation that restarts from its last durable
\* state.
THEOREM Implements == Spec => ImplementsRestartable
<1>1. Init => Abstract!Init
  BY DEF Init, Memory, Fresh, Abstract!Init
<1> QED
  BY <1>1, Invariant, StepRefines, PTL DEF Spec, ImplementsRestartable, Abstract!Spec

-----------------------------------------------------------------------------
(* One step off *)

\* In the one-step-off trainer at most one batch is generated ahead: with the weights sent
\* just before, so that it is one version old when its turn comes.
Lag(b) == Version <= b.ver + 1
AheadInv ==
  OneStepOff =>
    /\ pc # "final"
    /\ pc \in {"start", "sync", "launch"} => inflight = {}
    /\ \A b, c \in inflight : b = c
    /\ pc \in {"sync", "launch", "train"} /\ batch # NoBatch => Lag(batch)
    /\ pc = "launch" => served = Version
    /\ pc = "loop" => \A b \in inflight : Lag(b)
    /\ pc \in {"train", "check", "save"} => \A b \in inflight : b.ver = Version

\* The next batch is launched after the weights were sent, and none is on its way.
LEMMA LaunchAhead == ASSUME IInv, AheadInv, OneStepOff, Launch PROVE AheadInv'
<1>1. /\ inflight = {} /\ served = Version /\ (batch # NoBatch => Lag(batch))
      /\ pc' = IF batch = NoBatch THEN "loop" ELSE "train"
      /\ UNCHANGED <<batch, global_steps, served>>
  BY DEF AheadInv, Launch
<1>2. Version \in Int
  BY DEF IInv, TypeOK, Version
<1>3. \/ inflight' = {}
      \/ inflight' = {[pos |-> position + 1, ver |-> served]}
  BY <1>1 DEF Launch, Take
<1>4. \A b, c \in inflight' : b = c
  BY <1>3
<1>5. \A b \in inflight' : b.ver = Version
  BY <1>1, <1>3
<1> QED
  BY <1>1, <1>2, <1>4, <1>5 DEF AheadInv, Lag, Version

\* The batch launched in the last step is awaited.
LEMMA AwaitAhead ==
  ASSUME AheadInv, OneStepOff, NEW b \in inflight, Await(b) PROVE AheadInv'
<1>1. pc = "loop" /\ pc' = "sync" /\ Lag(b) /\ inflight = {b}
  BY DEF AheadInv, Await
<1>2. inflight' = {} /\ batch' = b /\ UNCHANGED global_steps
  BY <1>1 DEF Await
<1> QED
  BY <1>1, <1>2 DEF AheadInv, Lag, Version

LEMMA StepEndsAhead ==
  ASSUME IInv, AheadInv, OneStepOff, pc \in {"check", "save"}, StepEnds, UNCHANGED inflight
  PROVE  AheadInv'
<1>1. \A b \in inflight : b.ver = Version
  BY DEF AheadInv
<1>2. global_steps \in Nat /\ Version = global_steps - 1 /\ Version' = global_steps
  BY DEF IInv, TypeOK, Version, StepEnds
<1>3. \A b \in inflight' : Lag(b)'
  BY <1>1, <1>2 DEF Lag
<1>4. pc' \in {"done", "loop"}
  BY DEF StepEnds
<1> QED
  BY <1>3, <1>4 DEF AheadInv, Lag, Version

LEMMA AheadStep == IInv /\ AheadInv /\ [Next]_vars => AheadInv'
<1> SUFFICES ASSUME IInv, AheadInv, [Next]_vars, OneStepOff' PROVE AheadInv'
  BY DEF AheadInv
<1>0. OneStepOff /\ ~FullyAsync /\ ~Sync
  <2>1. config' = config
    BY DEF Next, Driver, vars, FromScratch, Resume, CannotResume, SyncWeights, Launch,
           NextBatch, DataEnds, Await, AwaitNone, Train, NoSave, LastCheckpoint, SaveGoesOn,
           SaveEnds, Save, Feed, Crash, RankWrites
  <2> QED
    BY <2>1 DEF OneStepOff, FullyAsync, Sync
<1>1. CASE FromScratch \/ Resume
  <2>1. pc = "start" /\ pc' = "sync" /\ UNCHANGED <<inflight, batch>>
    BY <1>0, <1>1 DEF FromScratch, Resume, Begins
  <2>2. batch = NoBatch /\ inflight = {}
    BY <1>0, <2>1 DEF IInv, LoopInv, AheadInv
  <2> QED
    BY <2>1, <2>2 DEF AheadInv
<1>2. CASE SyncWeights
  BY <1>0, <1>2 DEF SyncWeights, Sent, AheadInv, Lag, Version
<1>3. CASE Launch
  BY <1>0, <1>3, LaunchAhead
<1>4. CASE \E b \in inflight : Await(b)
  BY <1>0, <1>4, AwaitAhead
<1>5. CASE CannotResume \/ AwaitNone \/ NextBatch \/ DataEnds
  BY <1>0, <1>5 DEF CannotResume, AwaitNone, NextBatch, DataEnds, AheadInv
<1>6. CASE Train \/ Save
  BY <1>0, <1>6 DEF Train, Save, AheadInv, Lag, Version
<1>7. CASE NoSave
  BY <1>0, <1>7, StepEndsAhead DEF NoSave
<1>8. CASE SaveEnds
  <2>1. pc = "save" /\ UNCHANGED inflight
    BY <1>8, DuringSave DEF SaveEnds, WriteTracker
  <2>2. CASE batch = NoBatch
    BY <1>0, <1>8, <2>1, <2>2 DEF SaveEnds, AheadInv
  <2>3. CASE batch # NoBatch
    BY <1>0, <1>8, <2>1, <2>3, StepEndsAhead DEF SaveEnds
  <2> QED
    BY <2>2, <2>3
<1>9. CASE LastCheckpoint
  BY <1>0, <1>9 DEF LastCheckpoint, AheadInv, Lag, Version
<1>10. CASE SaveGoesOn \/ (\E r \in Ranks : RankWrites(r)) \/ UNCHANGED vars
  BY <1>0, <1>10 DEF SaveGoesOn, RankWrites, vars, loopVars, AheadInv, Lag, Version
<1>11. CASE Feed
  BY <1>0, <1>11 DEF Feed
<1>12. CASE Crash
  BY <1>12 DEF Crash, AheadInv
<1> QED
  BY <1>1, <1>2, <1>3, <1>4, <1>5, <1>6, <1>7, <1>8, <1>9, <1>10, <1>11, <1>12 DEF Next, Driver

LEMMA InitAhead == Init => AheadInv
BY DEF Init, AheadInv, NoBatch

\* At the start, after every restart and to the end, a batch is trained with weights at most
\* one step after those that generated it.
THEOREM OneStepOffHolds == Spec => []AtMostOneStepOff
<1>1. Init => AheadInv
  BY InitAhead
<1>2. IInv /\ AheadInv => AtMostOneStepOff
  <2> SUFFICES ASSUME IInv, AheadInv, OneStepOff, pc = "train" PROVE Version - batch.ver <= 1
    BY DEF AtMostOneStepOff
  <2>1. batch # NoBatch /\ global_steps \in Nat
    BY DEF IInv, LoopInv, TypeOK
  <2>2. batch.ver \in Nat
    BY <2>1 DEF IInv, TypeOK
  <2>3. Version <= batch.ver + 1
    BY <2>1 DEF AheadInv, Lag
  <2> QED
    BY <2>1, <2>2, <2>3 DEF Version
<1> QED
  BY <1>1, <1>2, Invariant, AheadStep, PTL DEF Spec

-----------------------------------------------------------------------------
(* No batch twice, and few lost *)

\* The critic is trained on every batch: its first rank knows them all.
Model == <<Critic, 0>>
Done(w) == {w[k][1] : k \in 1..Len(w)}
Once(w) == \A j, k \in 1..Len(w) : w[j][1] = w[k][1] => j = k

\* Batches up to position q whose rows train somebody and that weights w have not seen.
Skipped(w, q) == {p \in 1..q : p \notin Done(w) /\ Trained(p) # {}}
Missing == Skipped(weights[Model], position) \ ({b.pos : b \in inflight} \cup {batch.pos})

\* The batch in hand is still to be trained on.
Pending == pc = "train" \/ (OneStepOff /\ pc \in {"sync", "launch"})

\* A batch is in flight, in hand or in the weights, once, or was lost by an earlier run.
InFlight(b) == b.pos \in 1..position /\ b.pos \notin Done(weights[Model]) /\ b.pos # batch.pos
DataInv ==
  /\ pc = "launch" => OneStepOff
  /\ pc = "start" => inflight = {}
  /\ Once(weights[Model]) /\ Done(weights[Model]) \subseteq 1..position
  /\ \A b \in inflight : InFlight(b)
  /\ \A b, c \in inflight : b.pos = c.pos => b = c
  /\ IsFiniteSet(inflight) /\ Cardinality(inflight) <= Lookahead
  /\ batch # NoBatch => batch.pos \in 1..position /\ (batch.pos \in Done(weights[Model]) <=> ~Pending)
  /\ Cardinality(Missing) <= Lookahead * (run - 1)

\* Weights w with the data at position q have seen no batch twice and miss at most n.
Good(w, q, n) ==
  /\ q \in Nat /\ Once(w) /\ Done(w) \subseteq 1..q
  /\ Cardinality(Skipped(w, q)) <= n

\* The dataloader's state that is saved with the weights fits them.
SavedInv ==
  /\ stage \in {"truncate", "track"} =>
       Good(weights[Model], data[save_step], Lookahead * run)
  /\ tracker \in Steps =>
       Good(durable.weights[Model], data[tracker],
            Lookahead * (IF pc = "start" THEN run - 1 ELSE run))

\* A prime in the condition of a batch: in hand, in flight or in the weights.
Covered(p) ==
  p \in Done(weights[Model]) \/ p = batch.pos \/ \E b \in inflight : b.pos = p
KeepsCovered == \A p \in 1..position : Covered(p)' <=> Covered(p)
NewCovered == \A p \in position + 1..position' : Covered(p)' \/ Trained(p) = {}

LEMMA ModelShard == Model \in Shards /\ Model[1] = Critic
<1>1. 0 \in Ranks /\ Critic \in Managers
  BY Assumptions DEF Ranks
<1> QED
  BY <1>1, ShardTuple DEF Model

LEMMA ModelHistory ==
  ASSUME TypeOK
  PROVE  weights[Model] \in Histories /\ durable.weights[Model] \in Histories
BY ModelShard DEF TypeOK

LEMMA HistoryTypes ==
  ASSUME NEW w \in Histories
  PROVE  Len(w) \in Nat /\ \A k \in 1..Len(w) : w[k][1] \in Nat \ {0}
<1>1. Len(w) \in Nat /\ \A k \in 1..Len(w) : w[k] \in (Nat \ {0}) \X (1..MaxRuns)
  BY LenProperties DEF Histories
<1> QED
  BY <1>1

\* A history without repetition is as long as what it has seen.
LEMMA OnceCounts ==
  ASSUME NEW w \in Histories, Once(w)
  PROVE  Cardinality(Done(w)) = Len(w)
<1> DEFINE at == [k \in 1..Len(w) |-> w[k][1]]
<1>1. Len(w) \in Nat
  BY HistoryTypes
<1>2. at \in Injection(1..Len(w), Done(w)) /\ at \in Surjection(1..Len(w), Done(w))
  BY DEF Injection, IsInjective, Surjection, Done, Once
<1>3. ExistsBijection(1..Len(w), Done(w))
  BY <1>2 DEF ExistsBijection, Bijection
<1>4. IsFiniteSet(1..Len(w)) /\ Cardinality(1..Len(w)) = Len(w)
  <2>1. Len(w) \in Int /\ 1 \in Int /\ (1 > Len(w) => Len(w) = 0) /\ Len(w) - 1 + 1 = Len(w)
    BY <1>1
  <2> QED
    BY <2>1, FS_Interval
<1> QED
  BY <1>3, <1>4, FS_Bijection

LEMMA DoneAppend ==
  ASSUME NEW w \in Histories, NEW x \in (Nat \ {0}) \X (1..MaxRuns)
  PROVE  /\ Done(Append(w, x)) = Done(w) \cup {x[1]}
         /\ Once(w) /\ x[1] \notin Done(w) => Once(Append(w, x))
<1> DEFINE v == Append(w, x)
<1>1. /\ Len(w) \in Nat /\ Len(v) = Len(w) + 1 /\ v[Len(w) + 1] = x
      /\ \A k \in 1..Len(w) : v[k] = w[k]
  BY HistoryTypes, AppendProperties DEF Histories
<1> HIDE DEF v
<1>2. Done(v) = Done(w) \cup {x[1]}
  <2>1. ASSUME NEW p \in Done(v) PROVE p \in Done(w) \cup {x[1]}
    <3>1. PICK k \in 1..Len(v) : p = v[k][1]
      BY DEF Done
    <3>2. k \in 1..Len(w) \/ k = Len(w) + 1
      BY <1>1
    <3> QED
      BY <1>1, <3>1, <3>2 DEF Done
  <2>2. ASSUME NEW p \in Done(w) PROVE p \in Done(v)
    <3>1. PICK k \in 1..Len(w) : p = w[k][1]
      BY DEF Done
    <3>2. k \in 1..Len(v) /\ v[k] = w[k]
      BY <1>1
    <3> QED
      BY <3>1, <3>2 DEF Done
  <2>3. x[1] \in Done(v)
    <3>1. Len(w) + 1 \in 1..Len(v)
      BY <1>1
    <3> QED
      BY <1>1, <3>1 DEF Done
  <2> QED
    BY <2>1, <2>2, <2>3
<1>3. ASSUME Once(w), x[1] \notin Done(w) PROVE Once(v)
  <2>1. SUFFICES ASSUME NEW j \in 1..Len(v), NEW k \in 1..Len(v), v[j][1] = v[k][1]
                 PROVE  j = k
    BY DEF Once
  <2>2. /\ j \in 1..Len(w) \/ j = Len(w) + 1
        /\ k \in 1..Len(w) \/ k = Len(w) + 1
    BY <1>1
  <2>3. \A i \in 1..Len(w) : v[i][1] # x[1]
    BY <1>1, <1>3 DEF Done
  <2>4. CASE j \in 1..Len(w) /\ k \in 1..Len(w)
    BY <1>1, <1>3, <2>1, <2>4 DEF Once
  <2> QED
    BY <1>1, <2>1, <2>2, <2>3, <2>4
<1> QED
  BY <1>2, <1>3 DEF v

\* What is skipped is finite.
LEMMA SkippedLemma ==
  ASSUME NEW w, NEW q \in Nat
  PROVE  /\ IsFiniteSet(Skipped(w, q)) /\ Cardinality(Skipped(w, q)) \in Nat
         /\ \A S \in SUBSET Skipped(w, q) : IsFiniteSet(S) /\ Cardinality(S) \in Nat
<1>1. IsFiniteSet(1..q)
  BY FS_Interval
<1>2. ASSUME NEW S \in SUBSET (1..q) PROVE IsFiniteSet(S) /\ Cardinality(S) \in Nat
  BY <1>1, FS_Subset, FS_CardinalityType
<1>3. Skipped(w, q) \in SUBSET (1..q)
  BY DEF Skipped
<1> QED
  BY <1>2, <1>3

\* The bound on what may be lost grows by the lookahead with each run.
LEMMA BoundGrows ==
  ASSUME NEW a \in Nat, NEW r \in Nat \ {0}
  PROVE  a * (r - 1) \in Nat /\ a * r \in Nat /\ a * (r - 1) + a = a * r
<1>1. r - 1 \in Nat
  OBVIOUS
<1> QED
  BY <1>1

LEMMA LookaheadNat ==
  ASSUME TypeOK
  PROVE  Lookahead \in Nat /\ run \in Nat \ {0}
BY TrainingAssumption, Assumptions DEF Lookahead, TypeOK

LEMMA ConfigStays == [Next]_vars => config' = config
BY DEF Next, Driver, vars, FromScratch, Resume, CannotResume, SyncWeights, Launch,
       NextBatch, DataEnds, Await, AwaitNone, Train, NoSave, LastCheckpoint, SaveGoesOn,
       SaveEnds, Save, Feed, Crash, RankWrites

LEMMA SameConfig ==
  ASSUME config' = config
  PROVE  /\ Lookahead' = Lookahead /\ (OneStepOff' <=> OneStepOff)
         /\ \A p : Trained(p)' = Trained(p)
BY DEF Lookahead, OneStepOff, Trained, Sync

LEMMA MissingIff ==
  ASSUME NEW p
  PROVE  p \in Missing <=> p \in 1..position /\ Trained(p) # {} /\ ~Covered(p)
BY DEF Missing, Skipped, Covered

\* Nothing goes missing when what was covered stays so, and the new is covered.
LEMMA MissingStays ==
  ASSUME config' = config, position \in Nat, position' \in Nat, position <= position',
         KeepsCovered, NewCovered
  PROVE  Missing' = Missing
<1>1. ASSUME NEW p
      PROVE  p \in Missing' <=> p \in 1..position' /\ Trained(p) # {} /\ ~Covered(p)'
  BY SameConfig DEF Missing, Skipped, Covered
<1>2. ASSUME NEW p PROVE p \in Missing' <=> p \in Missing
  <2>1. p \in 1..position' <=> p \in 1..position \/ p \in position + 1..position'
    OBVIOUS
  <2>2. p \in 1..position => ~(p \in position + 1..position')
    OBVIOUS
  <2>3. p \in 1..position => (Covered(p)' <=> Covered(p))
    BY DEF KeepsCovered
  <2>4. p \in position + 1..position' => Covered(p)' \/ Trained(p) = {}
    BY DEF NewCovered
  <2> QED
    BY <1>1, <2>1, <2>2, <2>3, <2>4, MissingIff
<1> QED
  BY <1>2

LEMMA MissingSame ==
  ASSUME TypeOK, DataInv, config' = config, UNCHANGED run, Missing' = Missing
  PROVE  Cardinality(Missing') <= Lookahead' * (run' - 1)
BY SameConfig DEF DataInv

\* Steps that move no batch.
LEMMA FrameData ==
  ASSUME IInv, DataInv, config' = config,
         UNCHANGED <<position, inflight, batch, run, weights>>,
         pc' = "launch" => OneStepOff, pc' = "start" => pc = "start",
         batch # NoBatch => (Pending' <=> Pending)
  PROVE  DataInv'
<1>1. TypeOK /\ position \in Nat
  BY DEF IInv, TypeOK
<1>2. Missing' = Missing
  <2>1. KeepsCovered /\ NewCovered
    BY <1>1 DEF KeepsCovered, NewCovered, Covered
  <2> QED
    BY <1>1, <2>1, MissingStays
<1>3. Cardinality(Missing') <= Lookahead' * (run' - 1)
  BY <1>1, <1>2, MissingSame
<1>4. (pc' = "launch" => OneStepOff') /\ Lookahead' = Lookahead
  BY SameConfig
<1> HIDE DEF Missing, Pending, Once, Done
<1> QED
  BY <1>3, <1>4 DEF DataInv, InFlight

LEMMA FrameSaved ==
  ASSUME SavedInv, config' = config, UNCHANGED <<data, durable, run>>,
         tracker' \in {tracker, Torn}, pc' = "start" => pc = "start",
         stage' \in {"truncate", "track"} =>
           stage \in {"truncate", "track"} /\ UNCHANGED <<save_step, weights>>,
         TypeOK
  PROVE  SavedInv'
<1>1. ASSUME stage' \in {"truncate", "track"}
      PROVE  Good(weights[Model], data[save_step], Lookahead * run)'
  <2>1. Good(weights[Model], data[save_step], Lookahead * run)
    BY <1>1 DEF SavedInv
  <2> QED
    BY <1>1, <2>1, SameConfig DEF Good, Skipped
<1>2. ASSUME tracker' \in Steps
      PROVE  Good(durable.weights[Model], data[tracker],
                  Lookahead * (IF pc = "start" THEN run - 1 ELSE run))'
  <2>1. tracker' = tracker
    BY <1>2, Assumptions DEF Torn
  <2>2. Good(durable.weights[Model], data[tracker],
             Lookahead * (IF pc = "start" THEN run - 1 ELSE run))
    BY <1>2, <2>1 DEF SavedInv
  <2>3. Lookahead * (IF pc = "start" THEN run - 1 ELSE run)
          <= Lookahead * (IF pc' = "start" THEN run - 1 ELSE run)
    BY LookaheadNat, BoundGrows
  <2>4. Lookahead * (IF pc = "start" THEN run - 1 ELSE run) \in Nat
        /\ Lookahead * (IF pc' = "start" THEN run - 1 ELSE run) \in Nat
    BY LookaheadNat, BoundGrows
  <2>5. Cardinality(Skipped(durable.weights[Model], data[tracker])) \in Nat
    BY <2>2, SkippedLemma DEF Good
  <2>6. Skipped(durable.weights[Model], data[tracker])'
          = Skipped(durable.weights[Model], data[tracker])
    BY <2>1, SameConfig DEF Skipped
  <2>7. Cardinality(Skipped(durable.weights[Model], data[tracker]))
          <= Lookahead * (IF pc' = "start" THEN run - 1 ELSE run)
    <3>1. Cardinality(Skipped(durable.weights[Model], data[tracker]))
            <= Lookahead * (IF pc = "start" THEN run - 1 ELSE run)
      BY <2>2 DEF Good
    <3> QED
      BY ONLY <2>3, <2>4, <2>5, <3>1
  <2> HIDE DEF Once, Done
  <2>8. (Lookahead * (IF pc = "start" THEN run - 1 ELSE run))'
          = Lookahead * (IF pc' = "start" THEN run - 1 ELSE run)
    BY SameConfig
  <2>9. /\ data'[tracker'] \in Nat /\ Once(durable'.weights[Model])
        /\ Done(durable'.weights[Model]) \subseteq 1..data'[tracker']
    BY <2>1, <2>2 DEF Good
  <2> QED
    BY <2>6, <2>7, <2>8, <2>9 DEF Good
<1> QED
  BY <1>1, <1>2 DEF SavedInv

\* A batch is taken from the dataloader: it is in flight, and was nowhere.
LEMMA TakeData ==
  ASSUME IInv, DataInv, config' = config, Take, left # 0,
         IsFiniteSet(inflight), Cardinality(inflight) < Lookahead,
         UNCHANGED <<batch, run, weights>>,
         pc' # "start", pc' = "launch" => OneStepOff,
         batch # NoBatch => (Pending' <=> Pending)
  PROVE  DataInv'
<1> DEFINE new == [pos |-> position + 1, ver |-> served]
<1>1. TypeOK /\ position \in Nat
  BY DEF IInv, TypeOK
<1>2. position' = position + 1 /\ inflight' = inflight \cup {new} /\ new.pos = position + 1
  BY DEF Take
<1> HIDE DEF new
<1>3. position + 1 \notin 1..position /\ 1..position \subseteq 1..position'
      /\ position + 1 \in 1..position'
  BY <1>1, <1>2
<1>4. \A b \in inflight : b.pos \in 1..position /\ b.pos \notin Done(weights[Model])
                          /\ b.pos # batch.pos
  BY DEF DataInv, InFlight
<1>5. Done(weights[Model]) \subseteq 1..position
  BY DEF DataInv
<1>6. batch # NoBatch => batch.pos \in 1..position
  BY DEF DataInv
<1>7. batch.pos # position + 1
  <2>1. CASE batch = NoBatch
    BY <1>1, <2>1 DEF NoBatch
  <2> QED
    BY <1>3, <1>6, <2>1
<1>8. Missing' = Missing
  <2>1. KeepsCovered
    BY <1>2, <1>3 DEF KeepsCovered, Covered
  <2>2. NewCovered
    BY <1>1, <1>2 DEF NewCovered, Covered
  <2> QED
    BY <1>1, <1>2, <2>1, <2>2, MissingStays
<1>9. Cardinality(Missing') <= Lookahead' * (run' - 1)
  BY <1>1, <1>8, MissingSame
<1>10. \A b \in inflight' : b.pos \in 1..position' /\ b.pos \notin Done(weights'[Model])
                            /\ b.pos # batch'.pos
  BY <1>2, <1>3, <1>4, <1>5, <1>7
<1>11. \A b, c \in inflight' : b.pos = c.pos => b = c
  BY <1>2, <1>3, <1>4 DEF DataInv
<1>12. IsFiniteSet(inflight') /\ Cardinality(inflight') <= Lookahead'
  <2>1. new \notin inflight
    BY <1>2, <1>3, <1>4
  <2>2. IsFiniteSet(inflight') /\ Cardinality(inflight') = Cardinality(inflight) + 1
    BY <1>2, <2>1, FS_AddElement
  <2>3. Cardinality(inflight) \in Nat /\ Lookahead \in Nat /\ Lookahead' = Lookahead
    BY <1>1, FS_CardinalityType, LookaheadNat, SameConfig
  <2> QED
    BY <2>2, <2>3
<1>13. /\ Once(weights'[Model]) /\ Done(weights'[Model]) \subseteq 1..position'
       /\ pc' = "launch" => OneStepOff'
  <2>1. Once(weights[Model])
    BY DEF DataInv
  <2> HIDE DEF Once
  <2> QED
    BY <1>3, <1>5, <2>1, SameConfig
<1>14. batch' # NoBatch =>
         batch'.pos \in 1..position' /\ (batch'.pos \in Done(weights'[Model]) <=> ~Pending')
  BY <1>3 DEF DataInv
<1> HIDE DEF Once, Done, Missing, Pending
<1> QED
  BY <1>9, <1>10, <1>11, <1>12, <1>13, <1>14 DEF DataInv, InFlight

LEMMA LaunchData == ASSUME IInv, AheadInv, DataInv, Launch PROVE DataInv'
<1>1. OneStepOff /\ inflight = {} /\ config' = config
  BY DEF DataInv, AheadInv, Launch
<1>2. TypeOK /\ pc' \in {"loop", "train"} /\ (batch # NoBatch => pc' = "train")
  BY DEF IInv, Launch
<1>3. batch # NoBatch => (Pending' <=> Pending)
  BY <1>1, <1>2 DEF Pending, Launch
<1>4. CASE NothingToLaunch
  BY <1>1, <1>2, <1>3, <1>4, FrameData DEF Launch
<1>5. CASE ~NothingToLaunch
  <2>1. Take /\ left # 0
    BY <1>5 DEF Launch, NothingToLaunch
  <2>2. IsFiniteSet(inflight) /\ Cardinality(inflight) < Lookahead
    <3>1. Lookahead = 1
      BY <1>1 DEF Lookahead, Sync, OneStepOff
    <3>2. IsFiniteSet({}) /\ Cardinality({}) = 0
      BY FS_EmptySet
    <3> QED
      BY <1>1, <3>1, <3>2
  <2> QED
    BY <1>1, <1>2, <1>3, <2>1, <2>2, TakeData DEF Launch
<1> QED
  BY <1>4, <1>5

LEMMA FeedData == ASSUME IInv, DataInv, Feed PROVE DataInv'
<1>1. Lookahead = Ahead
  BY DEF Feed, FullyAsync, Lookahead, Sync, OneStepOff
<1>2. Take /\ left # 0 /\ config' = config /\ pc' = pc /\ pc # "start"
  BY DEF Feed, FedAll
<1>3. batch # NoBatch => (Pending' <=> Pending)
  BY <1>2 DEF Feed, Pending, OneStepOff
<1>4. pc' = "launch" => OneStepOff
  BY <1>2 DEF DataInv
<1>5. IsFiniteSet(inflight) /\ Cardinality(inflight) < Lookahead
  BY <1>1 DEF DataInv, Feed
<1> QED
  BY <1>2, <1>3, <1>4, <1>5, TakeData DEF Feed

\* The synchronous loop takes a batch in hand, or skips one that trains nobody.
LEMMA NextBatchData == ASSUME IInv, DataInv, NextBatch PROVE DataInv'
<1>1. TypeOK /\ position \in Nat /\ config' = config /\ position' = position + 1
  BY DEF IInv, TypeOK, NextBatch
<1>2. batch = NoBatch /\ Sync /\ pc = "loop" /\ inflight' = inflight
  BY DEF IInv, LoopInv, NextBatch
<1>3. IsFiniteSet(inflight) /\ Cardinality(inflight) <= 0
  BY <1>2 DEF DataInv, Lookahead
<1>4. inflight = {}
  <2>1. Cardinality(inflight) = 0
    BY <1>3, FS_CardinalityType
  <2> QED
    BY <1>3, <2>1, FS_EmptySet
<1>5. \/ Trained(position + 1) = {} /\ batch' = batch /\ pc' = "loop"
      \/ batch'.pos = position + 1 /\ pc' = "train"
  BY <1>2 DEF NextBatch
<1>6. position + 1 \notin 1..position /\ 1..position \subseteq 1..position'
      /\ position + 1 \in 1..position' /\ 0 \notin 1..position
  BY <1>1
<1>7. /\ Once(weights[Model]) /\ Done(weights[Model]) \subseteq 1..position
      /\ UNCHANGED <<weights, run>>
  BY DEF DataInv, NextBatch
<1>8. Missing' = Missing
  <2>1. KeepsCovered
    BY <1>2, <1>5, <1>6, <1>7 DEF KeepsCovered, Covered, NoBatch
  <2>2. NewCovered
    <3>1. \A p \in position + 1..position' : p = position + 1
      BY <1>1
    <3> QED
      BY <1>5, <3>1 DEF NewCovered, Covered
  <2> QED
    BY <1>1, <2>1, <2>2, MissingStays
<1>9. Cardinality(Missing') <= Lookahead' * (run' - 1)
  BY <1>1, <1>7, <1>8, MissingSame
<1>10. /\ Done(weights'[Model]) \subseteq 1..position'
       /\ Lookahead' = Lookahead /\ inflight' = {}
       /\ pc' \notin {"start", "launch"}
  BY <1>1, <1>2, <1>4, <1>5, <1>6, <1>7, SameConfig
<1>11. Once(weights'[Model])
  <2> HIDE DEF Once
  <2> QED
    BY <1>7
<1>12. IsFiniteSet(inflight') /\ Cardinality(inflight') <= Lookahead'
  BY <1>2, <1>3, <1>10 DEF Lookahead
<1>13. batch' # NoBatch =>
         batch'.pos \in 1..position' /\ (batch'.pos \in Done(weights'[Model]) <=> ~Pending')
  BY <1>2, <1>5, <1>6, <1>7 DEF Pending
<1> HIDE DEF Once, Done, Missing, Pending
<1> QED
  BY <1>9, <1>10, <1>11, <1>12, <1>13 DEF DataInv

\* A batch in flight becomes the one in hand.
LEMMA AwaitData ==
  ASSUME IInv, DataInv, NEW b \in inflight, Await(b) PROVE DataInv'
<1>1. TypeOK /\ position \in Nat /\ config' = config
      /\ UNCHANGED <<position, weights, run>>
  BY DEF IInv, TypeOK, Await
<1>2. /\ batch = NoBatch /\ ~Sync /\ batch' = b /\ inflight' = inflight \ {b}
      /\ pc' = IF OneStepOff THEN "sync" ELSE "train"
  BY DEF IInv, LoopInv, Await
<1>3. \A c \in inflight : c.pos \in 1..position /\ c.pos \notin Done(weights[Model])
  BY DEF DataInv, InFlight
<1>4. \A c, d \in inflight : c.pos = d.pos => c = d
  BY DEF DataInv
<1>5. 0 \notin 1..position
  BY <1>1
<1>6. Missing' = Missing
  <2>1. KeepsCovered
    BY <1>1, <1>2, <1>5 DEF KeepsCovered, Covered, NoBatch
  <2>2. NewCovered
    BY <1>1 DEF NewCovered
  <2> QED
    BY <1>1, <2>1, <2>2, MissingStays
<1>7. Cardinality(Missing') <= Lookahead' * (run' - 1)
  BY <1>1, <1>6, MissingSame
<1>8. /\ \A c \in inflight' : c.pos \in 1..position' /\ c.pos \notin Done(weights'[Model])
                              /\ c.pos # batch'.pos
      /\ \A c, d \in inflight' : c.pos = d.pos => c = d
  BY <1>1, <1>2, <1>3, <1>4
<1>9. IsFiniteSet(inflight') /\ Cardinality(inflight') <= Lookahead'
  <2>1. IsFiniteSet(inflight) /\ Cardinality(inflight) <= Lookahead
    BY DEF DataInv
  <2>2. IsFiniteSet(inflight') /\ Cardinality(inflight') = Cardinality(inflight) - 1
    BY <1>2, <2>1, FS_RemoveElement
  <2>3. Cardinality(inflight) \in Nat /\ Lookahead \in Nat /\ Lookahead' = Lookahead
    BY <1>1, <2>1, FS_CardinalityType, LookaheadNat, SameConfig
  <2> QED
    BY <2>1, <2>2, <2>3
<1>10. Pending' /\ pc' \notin {"start", "launch"}
  BY <1>1, <1>2, SameConfig DEF Pending
<1>11. batch'.pos \in 1..position' /\ batch'.pos \notin Done(weights'[Model])
  BY <1>1, <1>2, <1>3
<1>12. Once(weights'[Model]) /\ Done(weights'[Model]) \subseteq 1..position'
  <2>1. Once(weights[Model]) /\ Done(weights[Model]) \subseteq 1..position
    BY DEF DataInv
  <2> HIDE DEF Once, Done
  <2> QED
    BY <1>1, <2>1
<1> HIDE DEF Once, Done, Missing, Pending
<1> QED
  BY <1>7, <1>8, <1>9, <1>10, <1>11, <1>12 DEF DataInv, InFlight

\* The batch in hand goes into the weights: the critic is trained on every one.
LEMMA TrainData == ASSUME IInv, DataInv, Train PROVE DataInv'
<1>1. TypeOK /\ LoopInv /\ position \in Nat /\ config' = config
      /\ UNCHANGED <<position, inflight, batch, run>>
  BY DEF IInv, TypeOK, Train
<1>2. batch # NoBatch /\ pc = "train"
  BY <1>1 DEF LoopInv, Train
<1>3. <<batch.pos, run>> \in (Nat \ {0}) \X (1..MaxRuns)
  BY <1>1, <1>2 DEF TypeOK
<1>4. weights[Model] \in Histories
  BY <1>1, ModelHistory
<1>5. weights'[Model] = Append(weights[Model], <<batch.pos, run>>)
  BY ModelShard DEF Train
<1>6. batch.pos \in 1..position /\ batch.pos \notin Done(weights[Model])
  BY <1>2 DEF DataInv, Pending
<1>7. /\ Once(weights[Model]) /\ Done(weights[Model]) \subseteq 1..position
  BY DEF DataInv
<1>8. <<batch.pos, run>>[1] = batch.pos
  OBVIOUS
<1>9. /\ Done(weights'[Model]) = Done(weights[Model]) \cup {batch.pos}
      /\ Once(weights'[Model])
  <2> HIDE DEF Done, Once
  <2> QED
    BY <1>3, <1>4, <1>5, <1>6, <1>7, <1>8, DoneAppend
<1>10. Missing' = Missing
  <2>1. KeepsCovered
    BY <1>1, <1>9 DEF KeepsCovered, Covered
  <2>2. NewCovered
    BY <1>1 DEF NewCovered
  <2> QED
    BY <1>1, <2>1, <2>2, MissingStays
<1>11. Cardinality(Missing') <= Lookahead' * (run' - 1)
  BY <1>1, <1>10, MissingSame
<1>12. /\ Lookahead' = Lookahead /\ (OneStepOff' <=> OneStepOff)
       /\ pc' = IF FullyAsync THEN "sync" ELSE "check"
  BY <1>1, SameConfig DEF Train
<1>13. ~Pending' /\ pc' \notin {"start", "launch"}
  BY <1>12 DEF Pending, FullyAsync, OneStepOff
<1>14. \A b \in inflight' : b.pos \in 1..position' /\ b.pos \notin Done(weights'[Model])
                            /\ b.pos # batch'.pos
  BY <1>1, <1>9 DEF DataInv, InFlight
<1>15. Done(weights'[Model]) \subseteq 1..position' /\ batch'.pos \in 1..position'
       /\ batch'.pos \in Done(weights'[Model])
  BY <1>1, <1>6, <1>7, <1>9
<1> HIDE DEF Once, Done, Missing, Pending
<1> QED
  BY <1>1, <1>9, <1>11, <1>12, <1>13, <1>14, <1>15 DEF DataInv, InFlight

\* The step is over: the batch in hand is in the weights.
LEMMA LetGoData ==
  ASSUME IInv, DataInv, config' = config, pc \in {"check", "save"},
         pc' \in {"loop", "done"}, batch' = NoBatch,
         UNCHANGED <<position, inflight, run, weights>>
  PROVE  DataInv'
<1>1. TypeOK /\ position \in Nat
  BY DEF IInv, TypeOK
<1>2. ~Pending
  BY DEF Pending
<1>3. batch = NoBatch \/ batch.pos \in Done(weights[Model])
  BY <1>2 DEF DataInv
<1>4. NoBatch.pos = 0 /\ 0 \notin 1..position
  BY <1>1 DEF NoBatch
<1>5. Missing' = Missing
  <2>1. KeepsCovered
    BY <1>3, <1>4 DEF KeepsCovered, Covered
  <2>2. NewCovered
    BY <1>1 DEF NewCovered
  <2> QED
    BY <1>1, <2>1, <2>2, MissingStays
<1>6. Cardinality(Missing') <= Lookahead' * (run' - 1)
  BY <1>1, <1>5, MissingSame
<1>7. \A b \in inflight' : b.pos \in 1..position' /\ b.pos \notin Done(weights'[Model])
                           /\ b.pos # batch'.pos
  BY <1>4 DEF DataInv, InFlight
<1>8. Lookahead' = Lookahead
  BY SameConfig
<1> HIDE DEF Once, Done, Missing, Pending
<1> QED
  BY <1>6, <1>7, <1>8 DEF DataInv, InFlight

\* Where nothing is in hand or in flight, the missing are those the weights skipped.
LEMMA RestartData ==
  ASSUME TypeOK, config' = config, UNCHANGED <<run, inflight, batch>>,
         inflight = {}, batch = NoBatch, pc' \notin {"start", "launch"},
         NEW w, weights'[Model] = w, NEW q, position' = q,
         Good(w, q, Lookahead * (run - 1))
  PROVE  DataInv'
<1>1. q \in Nat /\ Once(w) /\ Done(w) \subseteq 1..q
      /\ Cardinality(Skipped(w, q)) <= Lookahead * (run - 1)
  BY DEF Good
<1>2. Lookahead' = Lookahead /\ Lookahead \in Nat
  BY SameConfig, LookaheadNat
<1>3. Missing' = Skipped(w, q)
  <2>1. batch'.pos = 0 /\ 0 \notin 1..q
    BY <1>1 DEF NoBatch
  <2>2. Skipped(w, q)' = Skipped(w, q)
    BY SameConfig DEF Skipped
  <2>3. Missing' = Skipped(w, q)' \ ({b.pos : b \in inflight'} \cup {batch'.pos})
    BY DEF Missing, Skipped
  <2>4. 0 \notin Skipped(w, q)
    BY <2>1 DEF Skipped
  <2> QED
    BY <2>1, <2>2, <2>3, <2>4
<1>4. Cardinality(Missing') <= Lookahead' * (run' - 1)
  BY <1>1, <1>2, <1>3
<1>5. IsFiniteSet(inflight') /\ Cardinality(inflight') <= Lookahead'
  <2>1. IsFiniteSet({}) /\ Cardinality({}) = 0
    BY FS_EmptySet
  <2> QED
    BY <1>2, <2>1
<1>6. Once(weights'[Model]) /\ Done(weights'[Model]) \subseteq 1..position'
  <2> HIDE DEF Once, Done
  <2> QED
    BY <1>1
<1> HIDE DEF Once, Done, Missing
<1> QED
  BY <1>4, <1>5, <1>6 DEF DataInv

LEMMA FreshGood ==
  ASSUME TypeOK
  PROVE  /\ Fresh[Model] = <<>> /\ Good(Fresh[Model], 0, Lookahead * (run - 1))
<1>1. Fresh[Model] = <<>>
  BY ModelShard DEF Fresh
<1>2. Done(<<>>) = {} /\ Once(<<>>) /\ Skipped(<<>>, 0) = {}
  BY DEF Done, Once, Skipped
<1>3. Cardinality({}) = 0
  BY FS_EmptySet
<1>4. Lookahead * (run - 1) \in Nat
  BY LookaheadNat, BoundGrows
<1>5. Cardinality(Skipped(<<>>, 0)) = 0
  BY <1>2, <1>3
<1>6. ASSUME NEW n \in Nat PROVE Good(<<>>, 0, n)
  BY <1>2, <1>5 DEF Good
<1> QED
  BY <1>1, <1>4, <1>6

LEMMA FromScratchData == ASSUME IInv, DataInv, FromScratch PROVE DataInv'
<1>1. TypeOK /\ batch = NoBatch /\ inflight = {}
  BY DEF IInv, LoopInv, DataInv, FromScratch
<1>2. pc' \notin {"start", "launch"} /\ weights'[Model] = Fresh[Model] /\ position' = 0
  BY DEF FromScratch, Begins
<1> QED
  BY <1>1, <1>2, FreshGood, RestartData DEF FromScratch

\* What is resumed is what was tracked, weights and data.
LEMMA ResumeData == ASSUME IInv, DataInv, SavedInv, Resume PROVE DataInv'
<1>1. TypeOK /\ batch = NoBatch /\ inflight = {} /\ pc = "start" /\ Loadable
  BY DEF IInv, LoopInv, DataInv, Resume
<1>2. pc' \notin {"start", "launch"}
  BY DEF Resume, Begins
<1>3. weights'[Model] = durable.weights[Model]
  BY <1>1, LoadableIsDurable DEF Resume
<1>4. Good(durable.weights[Model], data[tracker], Lookahead * (run - 1))
  BY <1>1 DEF SavedInv, Loadable
<1>5. position' = data[tracker]
  BY <1>4 DEF Resume, RestoredPosition, Good, NoFile
<1> QED
  BY <1>1, <1>2, <1>3, <1>4, <1>5, RestartData DEF Resume

LEMMA CrashData == ASSUME IInv, DataInv, SavedInv, Crash PROVE DataInv' /\ SavedInv'
<1>1. TypeOK /\ config' = config /\ run' = run + 1 /\ run \in Nat \ {0} /\ Lookahead \in Nat
  BY LookaheadNat DEF IInv, Crash
<1>2. Lookahead' = Lookahead
  BY <1>1, SameConfig
<1>3. weights'[Model] = <<>> /\ Done(<<>>) = {} /\ Once(<<>>)
  BY <1>1, FreshGood DEF Crash, Done, Once
<1>4. inflight' = {} /\ batch' = NoBatch /\ position' = 0 /\ pc' = "start" /\ pc # "start"
  BY DEF Crash
<1>5. IsFiniteSet({}) /\ Cardinality({}) = 0
  BY FS_EmptySet
<1>6. Cardinality(Missing') <= Lookahead' * (run' - 1)
  <2>1. Missing' = {}
    BY <1>4 DEF Missing, Skipped
  <2>2. Lookahead' * (run' - 1) \in Nat
    BY <1>1, <1>2, BoundGrows
  <2> QED
    BY <1>5, <2>1, <2>2
<1>7. DataInv'
  <2> HIDE DEF Missing, Once, Done
  <2> QED
    BY <1>1, <1>2, <1>3, <1>4, <1>5, <1>6 DEF DataInv
<1>8. stage' = "idle" /\ UNCHANGED <<tracker, data, durable>>
  BY DEF Crash, ForgetSaves, diskVars
<1>9. ASSUME tracker \in Steps
      PROVE  Good(durable.weights[Model], data[tracker], Lookahead * (run - 1))'
  <2>1. Good(durable.weights[Model], data[tracker], Lookahead * run)
    BY <1>4, <1>9 DEF SavedInv
  <2>2. run' - 1 = run
    BY <1>1
  <2> QED
    BY <1>1, <1>2, <1>8, <2>1, <2>2, SameConfig DEF Good, Skipped
<1>10. SavedInv'
  BY <1>2, <1>4, <1>8, <1>9 DEF SavedInv
<1> QED
  BY <1>7, <1>10

\* There are as many positions in flight as batches.
LEMMA AheadPositions ==
  ASSUME DataInv
  PROVE  LET P == {b.pos : b \in inflight}
         IN  IsFiniteSet(P) /\ Cardinality(P) = Cardinality(inflight)
<1> DEFINE P == {b.pos : b \in inflight}
           at == [b \in inflight |-> b.pos]
<1>1. at \in Injection(inflight, P) /\ at \in Surjection(inflight, P)
  BY DEF DataInv, Injection, IsInjective, Surjection
<1>2. ExistsBijection(inflight, P)
  BY <1>1 DEF ExistsBijection, Bijection
<1>3. IsFiniteSet(inflight)
  BY DEF DataInv
<1> HIDE DEF P
<1>4. IsFiniteSet(P) /\ Cardinality(P) = Cardinality(inflight)
  BY ONLY <1>2, <1>3, FS_Bijection
<1> QED
  BY <1>4 DEF P

\* What the dataloader's state skips of the weights it is saved with: the missing and those
\* in flight.
LEMMA SaveDataGood ==
  ASSUME IInv, DataInv, pc = "save"
  PROVE  Good(weights[Model], position, Lookahead * run)
<1> DEFINE P == {b.pos : b \in inflight}
           S == Skipped(weights[Model], position)
<1>1. TypeOK /\ position \in Nat /\ Lookahead \in Nat /\ run \in Nat \ {0}
  BY LookaheadNat DEF IInv, TypeOK
<1>2. ~Pending
  BY DEF Pending
<1>3. S \subseteq Missing \cup P
  <2>1. 0 \notin 1..position
    BY <1>1
  <2> QED
    BY <1>2, <2>1 DEF DataInv, Missing, Skipped, NoBatch
<1>4. IsFiniteSet(Missing) /\ Cardinality(Missing) \in Nat
  BY <1>1, SkippedLemma DEF Missing
<1>5. IsFiniteSet(P) /\ Cardinality(P) = Cardinality(inflight)
  BY AheadPositions
<1>6. /\ IsFiniteSet(inflight) /\ Cardinality(inflight) <= Lookahead
      /\ Cardinality(Missing) <= Lookahead * (run - 1)
  BY DEF DataInv
<1>7. Cardinality(inflight) \in Nat
  BY <1>6, FS_CardinalityType
<1>8. /\ Lookahead * (run - 1) \in Nat /\ Lookahead * run \in Nat
      /\ Lookahead * (run - 1) + Lookahead = Lookahead * run
  BY <1>1, BoundGrows
<1> HIDE DEF P, S, Missing
<1>9. /\ IsFiniteSet(Missing \cup P)
      /\ Cardinality(Missing \cup P) <= Cardinality(Missing) + Cardinality(P)
  <2>1. /\ IsFiniteSet(Missing \cup P)
        /\ Cardinality(Missing \cup P)
             = Cardinality(Missing) + Cardinality(P) - Cardinality(Missing \cap P)
    BY <1>4, <1>5, FS_Union
  <2>2. Missing \cap P \in SUBSET Missing
    OBVIOUS
  <2>3. Cardinality(Missing \cap P) \in Nat
    BY <1>4, <2>2, FS_Subset, FS_CardinalityType
  <2> QED
    BY <1>4, <1>5, <1>7, <2>1, <2>3
<1>10. Cardinality(S) <= Cardinality(Missing \cup P) /\ Cardinality(S) \in Nat
  <2>1. S \in SUBSET (Missing \cup P)
    BY <1>3
  <2> QED
    BY <1>9, <2>1, FS_Subset, FS_CardinalityType
<1>11. Cardinality(S) <= Lookahead * run
  <2>1. Cardinality(Missing \cup P) \in Nat
    BY <1>9, FS_CardinalityType
  <2> QED
    BY ONLY <1>1, <1>4, <1>5, <1>6, <1>7, <1>8, <1>9, <1>10, <2>1
<1>12. Once(weights[Model]) /\ Done(weights[Model]) \subseteq 1..position
  BY DEF DataInv
<1> QED
  BY <1>1, <1>11, <1>12 DEF Good, S

LEMMA SaveDataSaved ==
  ASSUME IInv, DataInv, SavedInv, SaveData(position), UNCHANGED <<config, loopVars, durable>>
  PROVE  SavedInv'
<1> USE DEF loopVars
<1>1. /\ TypeOK /\ CheckpointTypeOK(Histories) /\ pc = "save" /\ save_step \in Steps
      /\ tracker < save_step /\ stage' = "truncate" /\ tracker \in Int
      /\ UNCHANGED <<tracker, save_step>>
      /\ data' = [data EXCEPT ![save_step] = position]
  BY DuringSave DEF SaveData
<1>2. Good(weights[Model], position, Lookahead * run)
  BY <1>1, SaveDataGood
<1>3. data'[save_step] = position
  BY <1>1 DEF CheckpointTypeOK
<1>4. \A s \in Steps : s # save_step => data'[s] = data[s]
  BY <1>1 DEF CheckpointTypeOK
<1>5. tracker # save_step
  BY <1>1 DEF Steps
<1>6. Good(weights[Model], data[save_step], Lookahead * run)'
  BY <1>1, <1>2, <1>3, SameConfig DEF Good, Skipped
<1>7. ASSUME tracker \in Steps
      PROVE  Good(durable.weights[Model], data[tracker], Lookahead * run)'
  <2>1. Good(durable.weights[Model], data[tracker], Lookahead * run)
    BY <1>1, <1>7 DEF SavedInv
  <2>2. data'[tracker'] = data[tracker]
    BY <1>1, <1>4, <1>5, <1>7
  <2> QED
    BY <2>1, <2>2, SameConfig DEF Good, Skipped
<1>8. pc' # "start"
  BY <1>1
<1> QED
  BY <1>1, <1>6, <1>7, <1>8 DEF SavedInv

LEMMA SaveEndsSaved == ASSUME IInv, SavedInv, SaveEnds PROVE SavedInv'
<1>1. /\ stage = "track" /\ tracker' = save_step /\ stage' = "idle"
      /\ UNCHANGED <<data, save_step, config, run, weights>>
      /\ durable'.weights = weights
  BY DEF SaveEnds, WriteTracker
<1>2. pc' \in {"loop", "done"}
  BY DEF SaveEnds, StepEnds
<1>3. Good(weights[Model], data[save_step], Lookahead * run)
  BY <1>1 DEF SavedInv
<1>4. Good(durable.weights[Model], data[tracker], Lookahead * run)'
  BY <1>1, <1>3, SameConfig DEF Good, Skipped
<1> QED
  BY <1>1, <1>2, <1>4 DEF SavedInv

LEMMA NextData == IInv /\ AheadInv /\ DataInv /\ SavedInv /\ [Next]_vars => DataInv'
<1> SUFFICES ASSUME IInv, AheadInv, DataInv, SavedInv, [Next]_vars PROVE DataInv'
  OBVIOUS
<1>0. config' = config
  BY ConfigStays
<1>1. CASE FromScratch \/ Resume
  BY <1>1, FromScratchData, ResumeData
<1>2. CASE SyncWeights
  <2>1. /\ pc = "sync" /\ (pc' = "launch" => OneStepOff)
        /\ OneStepOff => pc' = "launch"
        /\ pc' \in {"launch", "loop", "check"}
    BY <1>2 DEF SyncWeights, OneStepOff, FullyAsync
  <2>2. (OneStepOff' <=> OneStepOff) /\ (Pending' <=> Pending)
    BY <1>0, <2>1, SameConfig DEF Pending
  <2> QED
    BY <1>0, <1>2, <2>1, <2>2, FrameData DEF SyncWeights
<1>3. CASE Launch
  BY <1>3, LaunchData
<1>4. CASE Feed
  BY <1>4, FeedData
<1>5. CASE NextBatch
  BY <1>5, NextBatchData
<1>6. CASE \E b \in inflight : Await(b)
  BY <1>6, AwaitData
<1>7. CASE Train
  BY <1>7, TrainData
<1>8. CASE CannotResume \/ DataEnds \/ AwaitNone
  <2>1. /\ pc' \in {"failed", "done", "final"} /\ pc \in {"start", "loop"} /\ batch = NoBatch
        /\ UNCHANGED <<position, inflight, batch, run, weights>>
    BY <1>8 DEF CannotResume, DataEnds, AwaitNone, IInv, LoopInv
  <2> QED
    BY <1>0, <2>1, FrameData
<1>9. CASE NoSave
  BY <1>0, <1>9, LetGoData, StepEndsLemma DEF NoSave, IInv, StepEnds
<1>10. CASE Save \/ LastCheckpoint
  <2>1. /\ pc' \in {"save", "done"} /\ pc \in {"check", "final"}
        /\ UNCHANGED <<position, inflight, batch, run, weights>>
    BY <1>10 DEF Save, LastCheckpoint
  <2> QED
    BY <1>0, <2>1, FrameData DEF Pending
<1>11. CASE SaveGoesOn \/ (\E r \in Ranks : RankWrites(r)) \/ UNCHANGED vars
  <2>1. UNCHANGED <<pc, position, inflight, batch, run, weights>>
    BY <1>11 DEF SaveGoesOn, RankWrites, vars, loopVars
  <2>2. Pending' <=> Pending
    BY <1>0, <2>1, SameConfig DEF Pending
  <2>3. pc' = "launch" => OneStepOff
    BY <2>1 DEF DataInv
  <2> QED
    BY <1>0, <2>1, <2>2, <2>3, FrameData
<1>12. CASE SaveEnds
  <2>1. pc = "save" /\ UNCHANGED <<position, inflight, run, weights>>
    BY <1>12, DuringSave DEF SaveEnds, WriteTracker
  <2>2. pc' \in {"loop", "done"} /\ batch' = NoBatch
    BY <1>12 DEF SaveEnds, StepEnds
  <2> QED
    BY <1>0, <2>1, <2>2, LetGoData
<1>13. CASE Crash
  BY <1>13, CrashData
<1> QED
  BY <1>1, <1>2, <1>3, <1>4, <1>5, <1>6, <1>7, <1>8, <1>9, <1>10, <1>11, <1>12, <1>13
     DEF Next, Driver

LEMMA NextSaved == IInv /\ DataInv /\ SavedInv /\ [Next]_vars => SavedInv'
<1> SUFFICES ASSUME IInv, DataInv, SavedInv, [Next]_vars PROVE SavedInv'
  OBVIOUS
<1>0. config' = config /\ TypeOK
  BY ConfigStays DEF IInv
<1> USE DEF checkpointVars, diskVars, saveVars
<1>1. CASE \/ FromScratch \/ Resume \/ CannotResume \/ SyncWeights \/ Launch \/ NextBatch
           \/ DataEnds \/ (\E b \in inflight : Await(b)) \/ AwaitNone \/ Train \/ NoSave
  <2>1. UNCHANGED <<data, durable, run, tracker, stage>> /\ pc # "save" /\ pc' # "start"
    BY <1>1 DEF FromScratch, Resume, CannotResume, SyncWeights, Launch, NextBatch, DataEnds,
                Await, AwaitNone, Train, NoSave, StepEnds, Begins
  <2>2. stage = "idle"
    BY <2>1, IdleOutsideSave
  <2> QED
    BY <1>0, <2>1, <2>2, FrameSaved
<1>2. CASE Save \/ LastCheckpoint
  <2>1. UNCHANGED <<data, durable, run, tracker>> /\ pc \in {"check", "final"} /\ pc' # "start"
        /\ stage' \in {stage, "capacity"}
    BY <1>2 DEF Save, LastCheckpoint, SaveStarts
  <2>2. stage = "idle"
    BY <2>1, IdleOutsideSave
  <2> QED
    BY <1>0, <2>1, <2>2, FrameSaved
<1>3. CASE Feed \/ UNCHANGED vars
  <2>1. UNCHANGED <<data, durable, run, tracker, stage, save_step, weights, pc>>
    BY <1>3 DEF Feed, vars, loopVars
  <2> QED
    BY <1>0, <2>1, FrameSaved
<1>4. CASE SaveGoesOn
  <2> USE DEF loopVars
  <2>1. CASE SaveData(position)
    BY <1>4, <2>1, SaveDataSaved DEF SaveGoesOn
  <2>2. CASE EnsureCapacity(config.keep) \/ Register(config.keep) \/ TruncateTracker
    <3>1. /\ UNCHANGED <<data, durable, run, save_step, weights, pc>>
          /\ tracker' \in {tracker, Torn}
          /\ stage' \in {"truncate", "track"} => stage \in {"truncate", "track"}
      BY <1>4, <2>2 DEF SaveGoesOn, EnsureCapacity, Register, TruncateTracker
    <3> QED
      BY <1>0, <3>1, FrameSaved
  <2> QED
    BY <1>4, <2>1, <2>2 DEF SaveGoesOn
<1>5. CASE \E r \in Ranks : RankWrites(r)
  <2>1. /\ UNCHANGED <<data, durable, run, tracker, save_step, weights, pc, stage>>
    BY <1>5 DEF RankWrites, WriteBegins, WriteEnds, loopVars
  <2> QED
    BY <1>0, <2>1, FrameSaved
<1>6. CASE SaveEnds
  BY <1>6, SaveEndsSaved
<1>7. CASE Crash
  BY <1>7, CrashData
<1> QED
  BY <1>1, <1>2, <1>3, <1>4, <1>5, <1>6, <1>7 DEF Next, Driver

LEMMA InitData == Init => DataInv /\ SavedInv
<1> SUFFICES ASSUME Init PROVE DataInv /\ SavedInv
  OBVIOUS
<1>1. TypeOK
  BY InitIInv DEF IInv
<1>2. /\ weights[Model] = Fresh[Model] /\ position = 0 /\ inflight = {} /\ batch = NoBatch
      /\ pc = "start" /\ stage = "idle" /\ tracker = NoFile /\ run = 1
  BY DEF Init, CheckpointInit
<1>3. Good(Fresh[Model], 0, Lookahead * (run - 1))
  BY <1>1, FreshGood
<1>4. Once(weights[Model]) /\ Done(weights[Model]) \subseteq 1..position
  BY <1>2, <1>3 DEF Good
<1>5. IsFiniteSet({}) /\ Cardinality({}) = 0
  BY FS_EmptySet
<1>6. Lookahead \in Nat /\ Lookahead * (run - 1) \in Nat
  BY <1>1, LookaheadNat, BoundGrows
<1>7. Missing = {}
  BY <1>2 DEF Missing, Skipped
<1> HIDE DEF Once, Done, Missing
<1>8. DataInv
  BY <1>2, <1>4, <1>5, <1>6, <1>7 DEF DataInv
<1>9. SavedInv
  BY <1>2, Assumptions DEF SavedInv, NoFile
<1> QED
  BY <1>8, <1>9

\* Whatever the loop, and through any number of crashes at any places: no batch is trained on
\* twice, and each restart loses at most the batches that were ahead of training in the
\* checkpoint: none, one or the feeder's lead.
THEOREM NoRepeatAndBoundedLossHolds == Spec => []NoRepeatAndBoundedLoss
<1>1. IInv /\ DataInv => NoRepeatAndBoundedLoss
  <2> SUFFICES ASSUME IInv, DataInv PROVE NoRepeatAndBoundedLoss
    OBVIOUS
  <2>1. weights[Model] \in Histories /\ Once(weights[Model])
    BY ModelHistory DEF IInv, DataInv
  <2>2. Cardinality(Done(weights[Model])) = Len(weights[Model])
    BY <2>1, OnceCounts
  <2>3. Done(weights[Model]) = Positions(<<Critic, 0>>)
    BY DEF Done, Positions, Model
  <2>4. Cardinality(Missing) <= Lookahead * (run - 1)
    BY DEF DataInv
  <2>5. Missing = {p \in 1..position : p \notin Positions(<<Critic, 0>>) /\ Trained(p) # {}}
                    \ ({b.pos : b \in inflight} \cup {batch.pos})
    BY <2>3 DEF Missing, Skipped
  <2> QED
    BY <2>2, <2>3, <2>4, <2>5 DEF NoRepeatAndBoundedLoss, Model
<1> QED
  BY <1>1, InitData, InitAhead, Invariant, AheadStep, NextData, NextSaved, PTL DEF Spec


-----------------------------------------------------------------------------
(* The work on disk at the end *)

\* The batches behind the loop, with the one in hand.
Count == IF batch = NoBatch THEN Version ELSE global_steps
Last == IF tracker = NoFile THEN 0 ELSE tracker
Running == pc \notin {"start", "failed"}

\* After the loop of the fully asynchronous trainer, whose last version may count no update.
Ended == pc = "done" \/ (pc = "save" /\ batch = NoBatch)

\* When no row is filtered out, the weights have as many updates as the loop has steps, the
\* tracked weights as many as the step that the tracker names, and the fully asynchronous
\* trainer has saved the last multiple of save_freq.
TailInv ==
  /\ pc = "final" => FullyAsync
  /\ pc = "done" => batch = NoBatch
  /\ config.target = Agents =>
       /\ Running /\ ~(FullyAsync /\ Ended) =>
            Len(weights[Model]) = IF Pending THEN Version ELSE Count
       /\ pc # "done" /\ tracker \in Steps => Len(durable.weights[Model]) = tracker
       /\ FullyAsync /\ Running /\ ~Ended /\ tracker # Torn =>
            Version - (Version % SaveFreq) <= Last
       /\ pc = "done" =>
            Len(weights[Model]) - Len(durable.weights[Model])
              <= IF FullyAsync THEN SaveFreq - 1 ELSE 0

\* The synchronous loop reaches its last step before the end of its data, as it takes one
\* batch in each step, also after a restart.
SyncInv ==
  Sync /\ config.target = Agents =>
    /\ Running => position = Count /\ left + position >= config.epochs * EpochLen
    /\ pc = "loop" => Version < TotalSteps
    /\ tracker \in Steps => data[tracker] = tracker /\ (pc # "done" => tracker < TotalSteps)
    /\ stage \in {"truncate", "track"} => data[save_step] = save_step

\* A batch has rows, and each row an agent.
LEMMA TrainedAll ==
  ASSUME TypeOK, config.target = Agents, NEW p \in Nat \ {0}
  PROVE  Trained(p) # {}
<1>1. (p - 1) % EpochLen \in 0..EpochLen - 1
  BY Assumptions
<1>2. config.routed \in [0..EpochLen - 1 -> (SUBSET Agents) \ {{}}]
  BY TrainingAssumption DEF TypeOK, ConfigsAssumption
<1>3. config.routed[(p - 1) % EpochLen] \in (SUBSET Agents) \ {{}}
  BY <1>1, <1>2
<1> QED
  BY <1>3 DEF Trained

LEMMA StepNumbers ==
  ASSUME TypeOK
  PROVE  /\ global_steps \in Nat /\ Version \in Int /\ Count \in Int
         /\ Version = global_steps - 1 /\ position \in Nat /\ left \in Nat
         /\ TotalSteps \in Nat \ {0} /\ SaveFreq \in Nat \ {0} /\ EpochLen \in Nat \ {0}
BY TrainingAssumption DEF TypeOK, Version, Count

\* Between two multiples of d the last multiple stays.
LEMMA SameMultiple ==
  ASSUME NEW n \in Nat, NEW d \in Nat \ {0}
  PROVE  /\ n % d \in Nat /\ n % d < d
         /\ (n + 1) % d # 0 => (n + 1) - ((n + 1) % d) = n - (n % d)
<1>1. n % d \in Nat /\ n % d < d /\ (n + 1) % d \in Nat /\ (n + 1) % d < d
  OBVIOUS
<1>2. /\ n = d * (n \div d) + (n % d) /\ n \div d \in Int
      /\ n + 1 = d * ((n + 1) \div d) + ((n + 1) % d) /\ (n + 1) \div d \in Int
  OBVIOUS
<1>3. ASSUME (n + 1) % d # 0 PROVE (n + 1) \div d = n \div d
  <2> DEFINE a == n \div d
             b == (n + 1) \div d
             r == n % d
             s == (n + 1) % d
  <2>1. a \in Int /\ b \in Int /\ r \in Nat /\ s \in Nat /\ r < d /\ s < d /\ s # 0
        /\ d * a + r + 1 = d * b + s
    BY <1>1, <1>2, <1>3
  <2> HIDE DEF a, b, r, s
  <2>2. d * (b - a) = r + 1 - s /\ r + 1 - s < d /\ r + 1 - s > 0 - d
    BY <2>1
  <2>3. b - a = 0
    <3> DEFINE c == b - a
    <3>1. c \in Int /\ d * c < d /\ d * c > 0 - d
      BY <2>1, <2>2
    <3> HIDE DEF c
    <3>2. ~(c >= 1)
      <4>1. c >= 1 => d * c >= d
        BY <3>1
      <4> QED
        BY <3>1, <4>1
    <3>3. ~(c <= -1)
      <4>1. c <= -1 => d * c <= 0 - d
        BY <3>1
      <4> QED
        BY <3>1, <4>1
    <3> QED
      BY <3>1, <3>2, <3>3 DEF c
  <2>4. b = a
    BY <2>1, <2>3
  <2> QED
    BY <2>4 DEF a, b
<1> QED
  BY <1>1, <1>2, <1>3

\* Steps that leave the weights and the step they count alone.
LEMMA FrameTail ==
  ASSUME IInv, TailInv, config' = config,
         UNCHANGED <<weights, durable, global_steps, batch>>,
         tracker' \in {tracker, Torn}, Running' => Running,
         Ended => Ended', pc = "done" => pc' = "done", pc' = "final" => FullyAsync,
         pc' = "done" => batch = NoBatch /\ (pc = "done" \/ config.target # Agents),
         batch = NoBatch \/ (Pending' <=> Pending)
  PROVE  TailInv'
<1>1. (FullyAsync' <=> FullyAsync) /\ Count' = Count /\ Version' = Version
  BY DEF FullyAsync, Count, Version
<1>2. batch = NoBatch => Count = Version
  BY DEF Count
<1>3. tracker' \in Steps \/ tracker' # Torn => tracker' = tracker /\ Last' = Last
  BY Assumptions DEF Torn, Last
<1>4. CASE config.target = Agents
  <2>1. Running' /\ ~(FullyAsync' /\ Ended') =>
          Len(weights'[Model]) = IF Pending' THEN Version' ELSE Count'
    BY <1>1, <1>2, <1>4 DEF TailInv
  <2>2. pc' # "done" /\ tracker' \in Steps => Len(durable'.weights[Model]) = tracker'
    BY <1>3, <1>4 DEF TailInv
  <2>3. FullyAsync' /\ Running' /\ ~Ended' /\ tracker' # Torn =>
          Version' - (Version' % SaveFreq) <= Last'
    BY <1>1, <1>3, <1>4 DEF TailInv
  <2>4. pc' = "done" => Len(weights'[Model]) - Len(durable'.weights[Model])
                          <= IF FullyAsync' THEN SaveFreq - 1 ELSE 0
    BY <1>1, <1>4 DEF TailInv
  <2>5. (pc' = "final" => FullyAsync') /\ (pc' = "done" => batch' = NoBatch)
    BY <1>1
  <2> HIDE DEF Pending, Running, Ended
  <2> QED
    BY <1>4, <2>1, <2>2, <2>3, <2>4, <2>5 DEF TailInv
<1> QED
  BY <1>1, <1>4 DEF TailInv

\* The loop begins with the weights of step tracker, or without a checkpoint.
LEMMA BeginTail ==
  ASSUME IInv, TailInv, FromScratch \/ Resume PROVE TailInv'
<1>1. TypeOK /\ batch = NoBatch /\ batch' = NoBatch /\ config' = config /\ pc = "start"
      /\ UNCHANGED <<durable, tracker>>
  BY DEF IInv, LoopInv, FromScratch, Resume, checkpointVars, diskVars
<1>2. pc' \in {"loop", "sync"}
  BY DEF FromScratch, Resume, Begins
<1>3. tracker \in Int /\ Version' = Last /\ Last \in Nat
  <2>1. CASE FromScratch
    <3>1. global_steps' = 1 /\ tracker = NoFile
      BY <2>1 DEF FromScratch, NothingSaved
    <3> QED
      BY <3>1 DEF Version, Last, NoFile
  <2>2. CASE Resume
    <3>1. global_steps' = tracker + 1 /\ tracker \in Steps
      BY <2>2 DEF Resume, Loadable
    <3>2. tracker \in Nat \ {0}
      BY <3>1, Assumptions
    <3>3. tracker # NoFile
      BY <3>2 DEF NoFile
    <3> QED
      BY <3>1, <3>2, <3>3 DEF Version, Last
  <2> QED
    BY <2>1, <2>2
<1>4. Last - (Last % SaveFreq) <= Last
  BY <1>1, <1>3, StepNumbers, SameMultiple
<1>5. config.target = Agents => Len(weights'[Model]) = Last
  <2>1. CASE FromScratch
    <3>1. weights'[Model] = <<>> /\ Last = 0
      BY <1>1, <2>1, FreshGood DEF FromScratch, NothingSaved, Last
    <3> QED
      BY <3>1
  <2>2. CASE Resume
    <3>1. weights'[Model] = durable.weights[Model] /\ tracker \in Steps /\ Last = tracker
      BY <1>1, <2>2, LoadableIsDurable, Assumptions DEF Resume, Loadable, Last, NoFile
    <3> QED
      BY <1>1, <3>1 DEF TailInv
  <2> QED
    BY <2>1, <2>2
<1>6. Count' = Version' /\ Last' = Last
  BY <1>1 DEF Count, Last
<1>7. tracker \in Steps /\ config.target = Agents => Len(durable.weights[Model]) = tracker
  BY <1>1 DEF TailInv
<1> HIDE DEF Pending
<1> QED
  BY <1>1, <1>2, <1>3, <1>4, <1>5, <1>6, <1>7 DEF TailInv, Ended

\* A batch in hand is not yet in the weights.
LEMMA TakenTail ==
  ASSUME IInv, TailInv, config' = config, batch = NoBatch, batch' # NoBatch, Pending',
         UNCHANGED <<weights, durable, global_steps, tracker>>, pc = "loop", pc' \in {"sync", "train"}
  PROVE  TailInv'
<1>1. (FullyAsync' <=> FullyAsync) /\ Version' = Version /\ Last' = Last /\ Count = Version
  BY DEF FullyAsync, Count, Version, Last
<1>2. config.target = Agents =>
        /\ Len(weights[Model]) = Version
        /\ tracker \in Steps => Len(durable.weights[Model]) = tracker
        /\ FullyAsync /\ tracker # Torn => Version - (Version % SaveFreq) <= Last
  BY <1>1 DEF TailInv, Running, Ended, Pending
<1>3. ~Ended'
  BY DEF Ended
<1> HIDE DEF Pending
<1> QED
  BY <1>1, <1>2, <1>3 DEF TailInv

LEMMA TrainTail == ASSUME IInv, TailInv, Train PROVE TailInv'
<1>1. /\ TypeOK /\ LoopInv /\ batch # NoBatch /\ pc = "train" /\ config' = config
      /\ UNCHANGED <<durable, global_steps, tracker, batch>>
  BY DEF IInv, LoopInv, Train, checkpointVars, diskVars
<1>2. /\ (FullyAsync' <=> FullyAsync) /\ (OneStepOff' <=> OneStepOff)
      /\ Version' = Version /\ Last' = Last /\ Count' = global_steps
      /\ pc' = IF FullyAsync THEN "sync" ELSE "check"
  BY <1>1 DEF FullyAsync, OneStepOff, Count, Version, Last, Train
<1>3. ~Pending' /\ Pending /\ Running /\ ~Ended /\ ~Ended'
  BY <1>1, <1>2 DEF Pending, FullyAsync, OneStepOff, Running, Ended
<1>4. weights'[Model] = Append(weights[Model], <<batch.pos, run>>)
  BY ModelShard DEF Train
<1>5. Len(weights'[Model]) = Len(weights[Model]) + 1
  <2>1. weights[Model] \in Seq((Nat \ {0}) \X (1..MaxRuns))
    BY <1>1, ModelHistory DEF Histories
  <2>2. <<batch.pos, run>> \in (Nat \ {0}) \X (1..MaxRuns)
    BY <1>1 DEF TypeOK
  <2> QED
    BY <1>4, <2>1, <2>2, AppendProperties
<1>6. config.target = Agents =>
        /\ Len(weights[Model]) = Version
        /\ tracker \in Steps => Len(durable.weights[Model]) = tracker
        /\ FullyAsync /\ tracker # Torn => Version - (Version % SaveFreq) <= Last
  BY <1>1, <1>3 DEF TailInv
<1>7. Version + 1 = global_steps
  BY <1>1, StepNumbers
<1> HIDE DEF Pending
<1> QED
  BY <1>1, <1>2, <1>3, <1>5, <1>6, <1>7 DEF TailInv

LEMMA NoSaveTail == ASSUME IInv, TailInv, NoSave PROVE TailInv'
<1>1. /\ TypeOK /\ LoopInv /\ batch # NoBatch /\ pc = "check" /\ config' = config
      /\ UNCHANGED <<durable, weights, tracker>> /\ ~MustSave
      /\ batch' = NoBatch /\ global_steps' = global_steps + 1 /\ pc' \in {"loop", "done"}
  BY DEF IInv, LoopInv, NoSave, StepEnds, checkpointVars, diskVars
<1>2. pc' = "loop"
  BY <1>1 DEF NoSave, StepEnds, MustSave
<1>3. /\ (FullyAsync' <=> FullyAsync) /\ Version' = Version + 1 /\ Last' = Last
      /\ Count' = Version' /\ Count = global_steps /\ Version' = global_steps
  BY <1>1, StepNumbers DEF FullyAsync, Version, Last, Count
<1>4. ~Pending /\ Running /\ ~Ended /\ ~Ended'
  BY <1>1, <1>2 DEF Pending, Running, Ended
<1>5. config.target = Agents =>
        /\ Len(weights[Model]) = Version'
        /\ tracker \in Steps => Len(durable.weights[Model]) = tracker
        /\ FullyAsync /\ tracker # Torn => Version - (Version % SaveFreq) <= Last
  BY <1>1, <1>3, <1>4 DEF TailInv
<1>6. Version' - (Version' % SaveFreq) = Version - (Version % SaveFreq)
  <2>1. Version \in Nat /\ SaveFreq \in Nat \ {0}
    BY <1>1, StepNumbers DEF LoopInv
  <2>2. (Version + 1) % SaveFreq # 0
    BY <1>1, <1>3 DEF MustSave
  <2> QED
    BY <1>3, <2>1, <2>2, SameMultiple
<1> HIDE DEF Pending
<1> QED
  BY <1>1, <1>2, <1>3, <1>4, <1>5, <1>6 DEF TailInv

LEMMA SaveEndsTail == ASSUME IInv, TailInv, SaveEnds PROVE TailInv'
<1>1. /\ TypeOK /\ LoopInv /\ pc = "save" /\ config' = config
      /\ durable'.weights = weights /\ weights' = weights
      /\ batch' = NoBatch /\ pc' \in {"loop", "done"}
  BY DuringSave DEF SaveEnds, WriteTracker, StepEnds
<1>2. (FullyAsync' <=> FullyAsync) /\ ~Pending /\ Running
  BY <1>1 DEF FullyAsync, Pending, Running
<1>3. Len(weights[Model]) - Len(durable'.weights[Model]) <= 0
  BY <1>1, ModelHistory DEF Histories
<1>4. Len(weights[Model]) - Len(durable'.weights[Model]) <= SaveFreq - 1
  BY <1>1, <1>3, ModelHistory, StepNumbers DEF Histories
<1>5. CASE batch # NoBatch
  <2>1. /\ save_step = Count /\ save_step \in Nat \ {0} /\ tracker' = save_step
    BY <1>5, DuringSave, Assumptions DEF SaveEnds, WriteTracker, Count
  <2>2. Version' = Count
    BY <1>1, <1>5, StepNumbers DEF SaveEnds, StepEnds, Count, Version
  <2>3. Last' = Count /\ Count' = Count
    <3>1. tracker' # NoFile
      BY <2>1, Assumptions DEF NoFile
    <3> QED
      BY ONLY <1>1, <2>1, <2>2, <3>1 DEF Last, Count, Version
  <2>4. config.target = Agents => Len(weights[Model]) = Count
    BY <1>1, <1>2, <1>5 DEF TailInv, Ended
  <2>5. Count - (Count % SaveFreq) <= Count
    BY <1>1, <2>1, StepNumbers, SameMultiple
  <2> HIDE DEF Pending
  <2> QED
    BY <1>1, <1>2, <1>3, <1>4, <2>1, <2>2, <2>3, <2>4, <2>5 DEF TailInv
<1>6. CASE batch = NoBatch
  <2>1. pc' = "done" /\ global_steps' = global_steps
    BY <1>6 DEF SaveEnds
  <2>2. Ended' /\ Count' = Count
    BY <1>1, <1>6, <2>1 DEF Ended, Count, Version
  <2>3. config.target = Agents /\ ~FullyAsync => Len(weights[Model]) = Count
    BY <1>2 DEF TailInv
  <2>4. ~Pending'
    BY <2>1 DEF Pending
  <2> HIDE DEF Pending
  <2> QED
    BY <1>1, <1>2, <1>3, <1>4, <2>1, <2>2, <2>3, <2>4 DEF TailInv
<1> QED
  BY <1>5, <1>6

\* After the loop a save begins, or the last multiple of save_freq is on disk already.
LEMMA LastCheckpointTail == ASSUME IInv, TailInv, LastCheckpoint PROVE TailInv'
<1>1. /\ TypeOK /\ pc = "final" /\ FullyAsync /\ batch = NoBatch /\ tracker # Torn
      /\ UNCHANGED <<config, weights, durable, batch, tracker>> /\ pc' \in {"save", "done"}
  BY IdleOutsideSave DEF IInv, LoopInv, TailInv, LastCheckpoint, SaveStarts, checkpointVars, diskVars
<1>2. FullyAsync' /\ Ended' /\ Running /\ ~Ended /\ ~Pending
  BY <1>1 DEF FullyAsync, Ended, Running, Pending, OneStepOff
<1>3. ASSUME config.target = Agents
      PROVE  Len(weights[Model]) - Len(durable.weights[Model]) <= SaveFreq - 1
  <2>1. Len(weights[Model]) = Version /\ Version \in Nat /\ SaveFreq \in Nat \ {0}
    <3>1. Len(weights[Model]) = Version
      BY <1>1, <1>2, <1>3 DEF TailInv, Count
    <3>2. weights[Model] \in Histories
      BY <1>1, ModelHistory
    <3> QED
      BY <1>1, <3>1, <3>2, StepNumbers DEF Histories
  <2>2. Version - (Version % SaveFreq) <= Last
    BY <1>1, <1>2, <1>3 DEF TailInv
  <2>3. Len(durable.weights[Model]) = Last /\ Last \in Nat
    <3>1. CASE tracker = NoFile
      <4>1. durable.weights[Model] = Fresh[Model]
        BY <3>1 DEF IInv, TrackedRestorable
      <4> QED
        BY <1>1, <3>1, <4>1, FreshGood DEF Last
    <3>2. CASE tracker # NoFile
      <4>1. tracker \in Steps
        BY <1>1, <3>2 DEF TypeOK, CheckpointTypeOK
      <4> QED
        BY <1>1, <1>3, <3>2, <4>1, Assumptions DEF TailInv, Last
    <3> QED
      BY <3>1, <3>2
  <2>4. Version % SaveFreq \in Nat /\ Version % SaveFreq < SaveFreq
    BY <2>1, SameMultiple
  <2>5. Version - Last <= SaveFreq - 1
    BY ONLY <2>1, <2>2, <2>3, <2>4
  <2> QED
    BY <2>1, <2>3, <2>5
<1>4. config.target = Agents /\ tracker \in Steps => Len(durable.weights[Model]) = tracker
  BY <1>1 DEF TailInv
<1> QED
  BY <1>1, <1>2, <1>3, <1>4 DEF TailInv

LEMMA CrashTail == ASSUME IInv, TailInv, Crash PROVE TailInv'
<1>1. pc' = "start" /\ batch' = NoBatch /\ UNCHANGED <<config, durable, tracker>>
  BY DEF Crash, ForgetSaves, diskVars
<1>2. pc # "done"
  BY DEF Crash
<1> QED
  BY <1>1, <1>2 DEF TailInv, Running

\* An epoch's dataloader ends with the epoch, or begins a new one at its end.
LEMMA EpochsLeft ==
  ASSUME NEW e \in Nat \ {0}, NEW n \in Nat \ {0}, NEW p \in Nat \ {0}, NEW first \in Int,
         first = n - (p % n) \/ (p % n = 0 /\ first \in {0, n})
  PROVE  first + (e - 1) * n + p >= e * n
<1>1. p % n \in Nat /\ p % n < n /\ p = n * (p \div n) + (p % n) /\ p \div n \in Int
  OBVIOUS
<1>2. p % n <= p
  OBVIOUS
<1>3. p % n = 0 => p >= n
  <2> DEFINE q == p \div n
             r == p % n
  <2>1. q \in Int /\ r \in Nat /\ p = n * q + r /\ n \in Nat \ {0} /\ p \in Nat \ {0}
    BY <1>1
  <2> HIDE DEF q, r
  <2>2. ASSUME r = 0 PROVE p >= n
    <3>1. q >= 1
      <4>1. ASSUME q <= 0 PROVE FALSE
        <5>1. n * q <= 0
          BY <2>1, <4>1
        <5> QED
          BY <2>1, <2>2, <5>1
      <4> QED
        BY <2>1, <4>1
    <3>2. n * q >= n
      BY <2>1, <3>1
    <3> QED
      BY <2>1, <2>2, <3>2
  <2> QED
    BY <2>2 DEF r
<1>4. (e - 1) * n = e * n - n /\ e * n \in Int
  OBVIOUS
<1> DEFINE r == p % n
           t == e * n
<1>5. r \in Nat /\ r < n /\ r <= p /\ (r = 0 => p >= n) /\ t \in Int
  BY <1>1, <1>2, <1>3, <1>4
<1>6. first + (t - n) + p >= t
  <2> HIDE DEF t, r
  <2>1. first = n - r \/ (r = 0 /\ first \in {0, n})
    BY DEF r
  <2> QED
    BY <1>5, <2>1
<1> QED
  BY <1>4, <1>6

\* Steps that leave the data and the step they count alone.
LEMMA FrameSync ==
  ASSUME SyncInv, config' = config, UNCHANGED <<position, left, global_steps, batch, data>>,
         tracker' \in {tracker, Torn}, Running' => Running,
         pc' = "loop" => pc = "loop", pc = "done" => pc' = "done",
         stage' \in {"truncate", "track"} =>
           stage \in {"truncate", "track"} /\ UNCHANGED save_step
  PROVE  SyncInv'
<1>1. (Sync' <=> Sync) /\ Count' = Count /\ Version' = Version
  BY DEF Sync, Count, Version
<1>2. tracker' \in Steps => tracker' = tracker
  BY Assumptions DEF Torn
<1> HIDE DEF Running
<1> QED
  BY <1>1, <1>2 DEF SyncInv

LEMMA BeginSync ==
  ASSUME IInv, SyncInv, Sync, config.target = Agents, FromScratch \/ Resume
  PROVE  SyncInv'
<1>1. /\ TypeOK /\ batch' = NoBatch /\ config' = config /\ pc = "start" /\ pc' = "loop"
      /\ UNCHANGED <<data, tracker, stage, save_step>> /\ stage = "idle"
  BY IdleOutsideSave DEF IInv, LoopInv, FromScratch, Resume, Begins, checkpointVars, diskVars, saveVars
<1>2. tracker \in Steps => data[tracker] = tracker /\ tracker < TotalSteps
  BY <1>1 DEF SyncInv
<1>3. /\ position' = Version' /\ Version' < TotalSteps
      /\ left' + position' >= config.epochs * EpochLen
  <2>1. CASE FromScratch
    <3>1. config.epochs * EpochLen \in Int
      BY <1>1, ConfigFields, Assumptions
    <3> QED
      BY <1>1, <2>1, <3>1, StepNumbers DEF FromScratch, Version
  <2>2. CASE Resume
    <3>1. tracker \in Steps /\ tracker \in Nat \ {0}
      BY <2>2, Assumptions DEF Resume, Loadable
    <3>2. position' = tracker /\ RestoredPosition = tracker
      BY <1>2, <2>2, <3>1 DEF Resume, RestoredPosition, NoFile
    <3>3. Version' = tracker
      BY <2>2, <3>1 DEF Resume, Version
    <3>4. PICK first \in FirstPass(tracker) : left' = first + (config.epochs - 1) * EpochLen
      BY <2>2, <3>2 DEF Resume
    <3>5. /\ config.epochs \in Nat \ {0} /\ EpochLen \in Nat \ {0} /\ tracker % EpochLen \in Nat
      BY <1>1, <3>1, ConfigFields, Assumptions
    <3>6. /\ first \in Int
          /\ first = EpochLen - (tracker % EpochLen)
               \/ (tracker % EpochLen = 0 /\ first \in {0, EpochLen})
      BY <3>4, <3>5 DEF FirstPass
    <3>7. first + (config.epochs - 1) * EpochLen + tracker >= config.epochs * EpochLen
      BY <3>1, <3>5, <3>6, EpochsLeft
    <3> QED
      BY <1>2, <3>1, <3>2, <3>3, <3>4, <3>7
  <2> QED
    BY <2>1, <2>2
<1>4. Count' = Version'
  BY <1>1 DEF Count
<1> QED
  BY <1>1, <1>2, <1>3, <1>4 DEF SyncInv

LEMMA NextBatchSync ==
  ASSUME IInv, SyncInv, config.target = Agents, NextBatch PROVE SyncInv'
<1>1. /\ TypeOK /\ batch = NoBatch /\ pc = "loop" /\ stage = "idle" /\ Sync
      /\ UNCHANGED <<config, data, tracker, stage, save_step>>
  BY IdleOutsideSave DEF IInv, LoopInv, NextBatch, checkpointVars, diskVars, saveVars
<1>2. /\ global_steps \in Nat /\ position \in Nat /\ left \in Nat /\ Version = global_steps - 1
      /\ config.epochs * EpochLen \in Int
  BY <1>1, StepNumbers, ConfigFields, Assumptions
<1>3. Count = Version /\ Running
  BY <1>1 DEF Count, Running
<1>4. position = Version /\ left + position >= config.epochs * EpochLen
  BY <1>1, <1>3 DEF SyncInv
<1>5. Trained(position + 1) # {}
  BY <1>1, <1>2, TrainedAll
<1>6. /\ position' = position + 1 /\ left' = left - 1 /\ pc' = "train"
      /\ batch' # NoBatch /\ global_steps' = global_steps
  <2>1. position + 1 # 0
    BY <1>2
  <2> QED
    BY <1>5, <2>1 DEF NextBatch, NoBatch
<1>7. position' = Count'
  BY <1>2, <1>4, <1>6 DEF Count
<1>8. left' + position' >= config.epochs * EpochLen
  BY <1>2, <1>4, <1>6
<1>9. tracker \in Steps => data[tracker] = tracker /\ tracker < TotalSteps
  BY <1>1 DEF SyncInv
<1> QED
  BY <1>1, <1>6, <1>7, <1>8, <1>9 DEF SyncInv

LEMMA NoSaveSync ==
  ASSUME IInv, SyncInv, Sync, config.target = Agents, NoSave PROVE SyncInv'
<1>1. /\ TypeOK /\ LoopInv /\ batch # NoBatch /\ pc = "check" /\ stage = "idle" /\ ~MustSave
      /\ batch' = NoBatch /\ global_steps' = global_steps + 1
      /\ UNCHANGED <<config, data, tracker, stage, save_step, position, left>>
  BY IdleOutsideSave DEF IInv, LoopInv, NoSave, StepEnds, checkpointVars, diskVars, saveVars
<1>2. pc' = "loop" /\ global_steps < TotalSteps
  BY <1>1, StepNumbers DEF NoSave, StepEnds, MustSave, IsLast, Sync, FullyAsync
<1>3. Count = global_steps /\ Count' = Version' /\ Version' = global_steps /\ Running
  BY <1>1, StepNumbers DEF Count, Version, Running
<1>4. position = Count /\ left + position >= config.epochs * EpochLen
  BY <1>3 DEF SyncInv
<1>5. tracker \in Steps => data[tracker] = tracker /\ tracker < TotalSteps
  BY <1>1 DEF SyncInv
<1> QED
  BY <1>1, <1>2, <1>3, <1>4, <1>5 DEF SyncInv

LEMMA SaveEndsSync ==
  ASSUME IInv, SyncInv, Sync, config.target = Agents, SaveEnds PROVE SyncInv'
<1>1. /\ TypeOK /\ LoopInv /\ pc = "save" /\ stage = "track" /\ stage' = "idle"
      /\ save_step = Count /\ save_step \in Nat \ {0} /\ tracker' = save_step
      /\ UNCHANGED <<config, data, position, left>>
      /\ batch' = NoBatch /\ pc' \in {"loop", "done"}
  BY DuringSave, Assumptions DEF SaveEnds, WriteTracker, StepEnds, Count
<1>2. Version' = Count /\ Count' = Count
  <2>1. Version' = Count
    BY <1>1, StepNumbers DEF SaveEnds, StepEnds, Count, Version
  <2> QED
    BY <1>1, <2>1 DEF Count
<1>3. Running
  BY <1>1 DEF Running
<1>4. position = Count /\ left + position >= config.epochs * EpochLen
  BY <1>3 DEF SyncInv
<1>5. data[save_step] = save_step
  BY <1>1 DEF SyncInv
<1>6. pc' # "done" => Count < TotalSteps
  <2>1. SUFFICES ASSUME pc' # "done" PROVE Count < TotalSteps
    OBVIOUS
  <2>2. batch # NoBatch /\ ~IsLast
    BY <2>1 DEF SaveEnds, StepEnds, Sync, FullyAsync
  <2> QED
    BY <1>1, <2>2, StepNumbers DEF Count, IsLast
<1> QED
  BY <1>1, <1>2, <1>4, <1>5, <1>6 DEF SyncInv

LEMMA SaveDataSync ==
  ASSUME IInv, SyncInv, Sync, config.target = Agents, SaveData(position),
         UNCHANGED <<config, loopVars, durable>>
  PROVE  SyncInv'
<1> USE DEF loopVars
<1>1. /\ CheckpointTypeOK(Histories) /\ pc = "save" /\ save_step \in Steps
      /\ tracker < save_step /\ tracker \in Int /\ save_step \in Int /\ save_step = Count
      /\ UNCHANGED <<tracker, save_step>>
      /\ data' = [data EXCEPT ![save_step] = position]
  BY DuringSave DEF SaveData, Count
<1>2. Running /\ Running'
  BY <1>1 DEF Running
<1>3. position = Count /\ left + position >= config.epochs * EpochLen
  BY <1>2 DEF SyncInv
<1>4. data'[save_step] = save_step /\ \A s \in Steps : s # save_step => data'[s] = data[s]
  BY <1>1, <1>3 DEF CheckpointTypeOK
<1>5. tracker # save_step
  BY <1>1
<1>6. tracker \in Steps => data[tracker] = tracker /\ tracker < TotalSteps
  BY <1>1 DEF SyncInv
<1>7. Count' = Count
  BY DEF Count, Version
<1> QED
  BY <1>1, <1>3, <1>4, <1>5, <1>6, <1>7 DEF SyncInv

LEMMA CrashSync == ASSUME SyncInv, Crash PROVE SyncInv'
<1>1. /\ pc' = "start" /\ pc # "done" /\ stage' = "idle" /\ UNCHANGED <<config, data, tracker>>
  BY DEF Crash, ForgetSaves, diskVars
<1> QED
  BY <1>1 DEF SyncInv, Sync, Running

LEMMA NextSync == IInv /\ TailInv /\ SyncInv /\ [Next]_vars => SyncInv'
<1> SUFFICES ASSUME IInv, TailInv, SyncInv, [Next]_vars PROVE SyncInv'
  OBVIOUS
<1>0. config' = config /\ TypeOK /\ LoopInv
  BY ConfigStays DEF IInv
<1>1. CASE ~(Sync /\ config.target = Agents)
  BY <1>0, <1>1 DEF SyncInv, Sync
<1>2. CASE Sync /\ config.target = Agents
  <2> USE DEF checkpointVars, diskVars, saveVars
  <2>0. ~OneStepOff /\ ~FullyAsync
    BY <1>2 DEF Sync, OneStepOff, FullyAsync
  <2>1. CASE FromScratch \/ Resume
    BY <1>2, <2>1, BeginSync
  <2>2. CASE NextBatch
    BY <1>2, <2>2, NextBatchSync
  <2>3. CASE NoSave
    BY <1>2, <2>3, NoSaveSync
  <2>4. CASE SaveEnds
    BY <1>2, <2>4, SaveEndsSync
  <2>5. CASE Crash
    BY <2>5, CrashSync
  <2>6. CASE CannotResume \/ DataEnds \/ Train
    <3>1. /\ UNCHANGED <<position, left, global_steps, batch, data, tracker, stage, save_step>>
          /\ pc \in {"start", "loop", "train"} /\ pc' \in {"failed", "done", "check"}
          /\ pc' = "failed" \/ pc # "start"
      BY <2>0, <2>6 DEF CannotResume, DataEnds, Train
    <3> QED
      BY <1>0, <3>1, FrameSync DEF Running
  <2>7. CASE Save
    <3>1. /\ UNCHANGED <<position, left, global_steps, batch, data, tracker>>
          /\ pc = "check" /\ pc' = "save" /\ stage' = "capacity"
      BY <2>7 DEF Save, SaveStarts
    <3> QED
      BY <1>0, <3>1, FrameSync DEF Running
  <2>8. CASE SaveGoesOn
    <3>1. CASE SaveData(position)
      BY <1>2, <2>8, <3>1, SaveDataSync DEF SaveGoesOn
    <3>2. CASE EnsureCapacity(config.keep) \/ Register(config.keep) \/ TruncateTracker
      <4>1. /\ UNCHANGED <<position, left, global_steps, batch, data, save_step, pc>>
            /\ tracker' \in {tracker, Torn}
            /\ stage' \in {"truncate", "track"} => stage \in {"truncate", "track"}
        BY <2>8, <3>2 DEF SaveGoesOn, EnsureCapacity, Register, TruncateTracker, loopVars
      <4> QED
        BY <1>0, <4>1, FrameSync DEF Running
    <3> QED
      BY <2>8, <3>1, <3>2 DEF SaveGoesOn
  <2>9. CASE (\E r \in Ranks : RankWrites(r)) \/ UNCHANGED vars
    <3>1. UNCHANGED <<position, left, global_steps, batch, data, tracker, stage, save_step, pc>>
      BY <2>9 DEF RankWrites, WriteBegins, WriteEnds, loopVars, vars
    <3> QED
      BY <1>0, <3>1, FrameSync DEF Running
  <2>10. ~(\/ SyncWeights \/ Launch \/ Feed \/ (\E b \in inflight : Await(b)) \/ AwaitNone
           \/ LastCheckpoint)
    BY <1>0, <1>2, <2>0 DEF LoopInv, TailInv, SyncWeights, Launch, Feed, Await, AwaitNone,
                            LastCheckpoint
  <2> QED
    BY <2>1, <2>2, <2>3, <2>4, <2>5, <2>6, <2>7, <2>8, <2>9, <2>10 DEF Next, Driver
<1> QED
  BY <1>1, <1>2

\* The data hold all the steps: total_training_steps is len(train_dataloader) * total_epochs
\* unless it is configured.
DataSuffice == \A c \in Configs : c.mode = "sync" => TotalSteps <= c.epochs * EpochLen

\* The synchronous loop is not out of data before its last step.
LEMMA DataNotOver ==
  ASSUME DataSuffice, IInv, SyncInv, DataEnds PROVE config.target # Agents
<1> SUFFICES ASSUME config.target = Agents PROVE FALSE
  OBVIOUS
<1>1. /\ TypeOK /\ Sync /\ pc = "loop" /\ left = 0 /\ batch = NoBatch /\ config \in Configs
  BY DEF IInv, LoopInv, DataEnds, TypeOK
<1>2. TotalSteps <= config.epochs * EpochLen
  BY <1>1 DEF DataSuffice, Sync
<1>3. /\ position = Version /\ left + position >= config.epochs * EpochLen
      /\ Version < TotalSteps
  BY <1>1 DEF SyncInv, Running, Count
<1>4. config.epochs * EpochLen \in Int
  BY <1>1, ConfigFields, Assumptions
<1> QED
  BY <1>1, <1>2, <1>3, <1>4, StepNumbers

LEMMA NextTail ==
  ASSUME DataSuffice, IInv, DataInv, TailInv, SyncInv, [Next]_vars PROVE TailInv'
<1>0. config' = config /\ TypeOK /\ LoopInv /\ (OneStepOff' <=> OneStepOff)
  BY ConfigStays, SameConfig DEF IInv
<1> USE DEF checkpointVars, diskVars, saveVars
<1>1. CASE FromScratch \/ Resume
  BY <1>1, BeginTail
<1>2. CASE CannotResume \/ DataEnds \/ AwaitNone
  <2>1. /\ UNCHANGED <<weights, durable, global_steps, batch, tracker>> /\ batch = NoBatch
        /\ pc \in {"start", "loop"} /\ pc' \in {"failed", "done", "final"}
        /\ pc' = "failed" \/ pc = "loop"
        /\ pc' = "final" => FullyAsync
        /\ pc' = "done" => DataEnds
    BY <1>0, <1>2 DEF LoopInv, CannotResume, DataEnds, AwaitNone
  <2>2. pc' = "done" => config.target # Agents
    BY <2>1, DataNotOver
  <2> QED
    BY <1>0, <2>1, <2>2, FrameTail DEF Running, Ended
<1>3. CASE SyncWeights \/ Launch
  <2>1. /\ UNCHANGED <<weights, durable, global_steps, batch, tracker>>
        /\ pc \in {"sync", "launch"} /\ pc' \in {"launch", "loop", "check", "train"}
    BY <1>3 DEF SyncWeights, Launch
  <2>2. batch = NoBatch \/ (Pending' <=> Pending)
    <3>1. CASE SyncWeights
      <4>1. CASE OneStepOff
        BY <1>0, <3>1, <4>1 DEF SyncWeights, Pending
      <4>2. CASE ~OneStepOff
        <5>1. pc = "sync" /\ pc' \in {"loop", "check"}
          BY <3>1, <4>2 DEF SyncWeights
        <5> QED
          BY <1>0, <4>2, <5>1 DEF Pending
      <4> QED
        BY <4>1, <4>2
    <3>2. CASE Launch
      <4>1. OneStepOff /\ pc = "launch" /\ (batch = NoBatch \/ pc' = "train")
        BY <3>2 DEF Launch, DataInv
      <4> QED
        BY <4>1 DEF Pending
    <3> QED
      BY <1>3, <3>1, <3>2
  <2> QED
    BY <1>0, <2>1, <2>2, FrameTail DEF Running, Ended
<1>4. CASE NextBatch
  <2>1. /\ pc = "loop" /\ batch = NoBatch /\ UNCHANGED <<weights, durable, tracker>>
    BY <1>0, <1>4 DEF NextBatch, LoopInv
  <2>2. CASE Trained(position + 1) # {}
    <3>1. /\ pc' = "train" /\ batch' = [pos |-> position + 1, ver |-> Version]
          /\ global_steps' = global_steps
      BY <1>4, <2>2 DEF NextBatch
    <3>2. batch' # NoBatch
      <4>1. position + 1 # 0
        BY <1>0, StepNumbers
      <4> QED
        BY <3>1, <4>1 DEF NoBatch
    <3>3. Pending'
      BY <3>1 DEF Pending
    <3> QED
      BY <1>0, <2>1, <3>1, <3>2, <3>3, TakenTail
  <2>3. CASE Trained(position + 1) = {}
    <3>1. pc' = "loop"
      BY <1>4, <2>1, <2>3 DEF NextBatch
    <3>2. config.target # Agents
      BY <1>0, <2>3, StepNumbers, TrainedAll
    <3> QED
      BY <1>0, <3>1, <3>2 DEF TailInv
  <2> QED
    BY <2>2, <2>3
<1>5. CASE \E b \in inflight : Await(b)
  <2>1. PICK b \in inflight : Await(b)
    BY <1>5
  <2>2. /\ pc = "loop" /\ batch = NoBatch /\ batch' = b /\ pc' = IF OneStepOff THEN "sync" ELSE "train"
        /\ UNCHANGED <<weights, durable, global_steps, tracker>>
    BY <1>0, <2>1 DEF Await, LoopInv
  <2>3. batch' # NoBatch
    <3>1. b.pos # 0
      BY <1>0 DEF TypeOK
    <3> QED
      BY <2>2, <3>1 DEF NoBatch
  <2>4. Pending' /\ pc' \in {"sync", "train"}
    BY <1>0, <2>2 DEF Pending
  <2> QED
    BY <1>0, <2>2, <2>3, <2>4, TakenTail
<1>6. CASE Train
  BY <1>6, TrainTail
<1>7. CASE NoSave
  BY <1>7, NoSaveTail
<1>8. CASE SaveEnds
  BY <1>8, SaveEndsTail
<1>9. CASE Crash
  BY <1>9, CrashTail
<1>10. CASE Save
  <2>1. /\ UNCHANGED <<weights, durable, global_steps, batch, tracker>>
        /\ pc = "check" /\ pc' = "save"
    BY <1>10 DEF Save, SaveStarts
  <2> QED
    BY <1>0, <2>1, FrameTail DEF Running, Pending, Ended
<1>12. CASE LastCheckpoint
  BY <1>12, LastCheckpointTail
<1>11. CASE SaveGoesOn \/ (\E r \in Ranks : RankWrites(r)) \/ Feed \/ UNCHANGED vars
  <2>1. /\ UNCHANGED <<weights, durable, global_steps, batch, pc>> /\ tracker' \in {tracker, Torn}
    BY <1>11 DEF SaveGoesOn, EnsureCapacity, Register, SaveData, TruncateTracker, RankWrites,
                 WriteBegins, WriteEnds, Feed, vars, loopVars
  <2>2. /\ pc = "final" => FullyAsync
        /\ pc = "done" => batch = NoBatch
    BY DEF TailInv
  <2> QED
    BY <1>0, <2>1, <2>2, FrameTail DEF Running, Pending, Ended
<1> QED
  BY <1>1, <1>2, <1>3, <1>4, <1>5, <1>6, <1>7, <1>8, <1>9, <1>10, <1>11, <1>12 DEF Next, Driver

LEMMA InitTail == Init => TailInv /\ SyncInv
<1> SUFFICES ASSUME Init PROVE TailInv /\ SyncInv
  OBVIOUS
<1>1. pc = "start" /\ stage = "idle" /\ tracker = NoFile /\ NoFile \notin Steps
  BY Assumptions DEF Init, CheckpointInit, NoFile
<1> QED
  BY <1>1 DEF TailInv, SyncInv, Running

LEMMA TailMeans == TailInv => UnsavedTail
BY DEF TailInv, UnsavedTail, Model

\* When no row is filtered out and the synchronous loop's data hold its steps, a job that ends
\* has its work on disk, however often it was restarted: all of it, or with the fully
\* asynchronous trainer all but the versions since the last multiple of save_freq.
THEOREM UnsavedTailHolds == ASSUME DataSuffice PROVE Spec => []UnsavedTail
<1>1. IInv /\ DataInv /\ TailInv /\ SyncInv /\ [Next]_vars => TailInv'
  BY NextTail
<1> QED
  BY <1>1, InitData, InitAhead, InitTail, Invariant, TailMeans, AheadStep, NextData, NextSaved,
     NextSync, PTL DEF Spec

=============================================================================
