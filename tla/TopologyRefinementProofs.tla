---------------------- MODULE TopologyRefinementProofs ----------------------
(***************************************************************************)
(* Proof that ShardTopology implements TopologyChange, for every set of    *)
(* workers, every MaxShards and every bound on commands and faults.        *)
(***************************************************************************)
EXTENDS ShardTopologyProofs

abstract == <<vault.shard_count, LiveShards, PendingChange>>

\* Only Terraform touches what several processes see.
LEMMA WorldMoves ==
  ASSUME NEW w \in Worker, WorkerStep(w) \/ Environment(w), ~RunApply(w)
  PROVE  UNCHANGED world
<1>1. Environment(w) => UNCHANGED world
  BY DEF Environment, Submit, ApplyFails, ReadFails, Crash, Raise, Finish
<1>2. Decide(w) => UNCHANGED world
  BY DEF Decide, Resume, StartTopology, StartDatabase, StartFullApply,
         StartRecover, RefuseCommand, Refuse, Finish, StartApply
<1>3. (VerifyLock(w) \/ StageStorage(w) \/ ScaleShards(w)
         \/ ShardsReady(w) \/ ShardsDrained(w) \/ TrimStorage(w)) => UNCHANGED world
  BY DEF VerifyLock, StageStorage, ScaleShards, ShardsReady, ShardsDrained,
         TrimStorage, StartApply, Local
<1>4. (ReloadInventory(w) \/ ReleaseLock(w) \/ ConfirmRelease(w) \/ Settle(w)
         \/ AcquireFlock(w) \/ LoadInventory(w) \/ ApplySucceeds(w)) => UNCHANGED world
  BY DEF ReloadInventory, ReleaseLock, ConfirmRelease, Settle, AcquireFlock,
         LoadInventory, ApplySucceeds, Finish, StartApply
<1> QED
  BY <1>1, <1>2, <1>3, <1>4 DEF WorkerStep

\* A change begins with a target of at least one shard.
LEMMA TargetKept ==
  ASSUME TypeOK, ChangeInv, NEW w \in Worker, WorkerStep(w) \/ Environment(w),
         NEW v \in Worker, pc'[v] = "acquiring", own'[v].category = "topology"
  PROVE  own'[v].target_shards \in 1 .. MaxShards
<1> USE DEF TypeOK, WorldTypeOK, Goto
<1>1. CASE pc[v] = "acquiring" /\ own'[v] = own[v]
  BY <1>1 DEF ChangeInv, Target
<1>2. CASE v # w
  <2>1. pc'[v] = pc[v] /\ own'[v] = own[v]
    <3>1. CASE Environment(w)
      BY <1>2, <3>1 DEF Environment, Submit, ApplyFails, ReadFails, Crash, Raise,
                        Finish, world
    <3>2. CASE Decide(w)
      BY <1>2, <3>2 DEF Decide, Resume, StartTopology, StartDatabase, StartFullApply,
                        StartRecover, RefuseCommand, Refuse, Finish, StartApply, world
    <3>3. CASE VerifyLock(w) \/ StageStorage(w) \/ ScaleShards(w)
                 \/ ShardsReady(w) \/ ShardsDrained(w) \/ TrimStorage(w)
      BY <1>2, <3>3 DEF VerifyLock, StageStorage, ScaleShards, ShardsReady,
                        ShardsDrained, TrimStorage, StartApply, Local, world
    <3>4. CASE ReloadInventory(w) \/ ReleaseLock(w) \/ ConfirmRelease(w) \/ Settle(w)
                 \/ AcquireFlock(w) \/ LoadInventory(w) \/ ApplySucceeds(w)
      BY <1>2, <3>4 DEF ReloadInventory, ReleaseLock, ConfirmRelease, Settle,
                        AcquireFlock, LoadInventory, ApplySucceeds, Finish,
                        StartApply, world
    <3>5. CASE RunApply(w)
      BY <1>2, <3>5 DEF RunApply, ApplyStep, PrepareVolume, CleanupVolume,
                        UpdateShardCount, WriteMetadata, CreateLock, DeleteLock, control
    <3> QED
      BY <3>1, <3>2, <3>3, <3>4, <3>5 DEF WorkerStep
  <2> QED
    BY <1>1, <2>1
<1>3. CASE v = w /\ StartTopology(w)
  <2>1. own' = [own EXCEPT ![w] = NewLock(w, "topology", NewTarget(w))]
        /\ NewTarget(w) \in 1 .. MaxShards
    BY <1>3 DEF StartTopology, StartApply, StartAllowed
  <2> QED
    BY <1>3, <2>1 DEF NewLock
<1>4. CASE v = w /\ StartDatabase(w)
  <2>1. own' = [own EXCEPT ![w] = NewLock(w, "database", inv[w].shard_count)]
    BY <1>4 DEF StartDatabase, StartApply
  <2> QED
    BY <1>4, <2>1 DEF NewLock
<1>5. CASE v = w /\ RunApply(w)
  <2>1. pc' = pc /\ own' = own
    BY <1>5 DEF RunApply, ApplyStep, PrepareVolume, CleanupVolume,
                UpdateShardCount, WriteMetadata, CreateLock, DeleteLock, control
  <2> QED
    BY <1>1, <2>1
<1>6. CASE v = w /\ ~StartTopology(w) /\ ~StartDatabase(w) /\ ~RunApply(w)
  <2>1. Environment(w) => pc'[w] # "acquiring"
    BY DEF Environment, Submit, ApplyFails, ReadFails, Crash, Raise, Finish
  <2>2. Decide(w) => pc'[w] # "acquiring"
    BY <1>6 DEF Decide, Resume, StartFullApply, StartRecover, RefuseCommand, Refuse,
                Finish, StartApply
  <2>3. (VerifyLock(w) \/ StageStorage(w) \/ ScaleShards(w)
           \/ ShardsReady(w) \/ ShardsDrained(w) \/ TrimStorage(w))
          => pc'[w] # "acquiring"
    BY DEF VerifyLock, StageStorage, ScaleShards, ShardsReady, ShardsDrained,
           TrimStorage, StartApply, Local
  <2>4. (ReloadInventory(w) \/ ReleaseLock(w) \/ ConfirmRelease(w) \/ Settle(w)
           \/ AcquireFlock(w) \/ LoadInventory(w)) => pc'[w] # "acquiring"
    BY DEF ReloadInventory, ReleaseLock, ConfirmRelease, Settle, AcquireFlock,
           LoadInventory, Finish, StartApply
  <2>5. ApplySucceeds(w) => pc'[w] # "acquiring"
    BY DEF ApplySucceeds, AfterApply, ApplyPC
  <2> QED
    BY <1>6, <2>1, <2>2, <2>3, <2>4, <2>5 DEF WorkerStep
<1> QED
  BY <1>2, <1>3, <1>4, <1>5, <1>6

-----------------------------------------------------------------------------
(* What each step means for the pending change.                             *)

\* A lock of a topology change stands for a pending change, with two ends.
LEMMA PendingLock ==
  ASSUME TopologyInv
  PROVE  /\ lock.category = "topology" =>
              /\ lock.start_shards \in Nat /\ lock.target_shards \in Nat
              /\ lock.start_shards # lock.target_shards
              /\ Change!Pending
              /\ spec \in {lock.start_shards, lock.target_shards}
         /\ lock.category # "topology" =>
              /\ ~Change!Pending
              /\ spec = vault.shard_count
<1>1. lock.start_shards \in Nat /\ lock.target_shards \in Nat
  BY MaxShardsAssumption DEF TopologyInv, TypeOK, WorldTypeOK, LockData, Size
<1>2. lock.category = "topology" => lock.start_shards # lock.target_shards
  BY <1>1 DEF TopologyInv, LockInv
<1> QED
  BY <1>1, <1>2 DEF Change!Pending, Change!NoChange, PendingChange, TopologyInv,
                    LockInv, LockDescribesTopology

\* Vault records another shard count only as the target of the pending change.
LEMMA MetadataStep ==
  ASSUME TopologyInv, NEW w \in Worker, WriteMetadata(w)
  PROVE  \/ vault'.shard_count = vault.shard_count
         \/ /\ lock.category = "topology"
            /\ vault'.shard_count = lock.target_shards
<1>1. pc[w] \in ApplyPC
  BY Alone DEF WriteMetadata, Syncing
<1>2. CASE pc[w] = "scaling"
  <2>1. lock = own[w] /\ lock.category = "topology"
    BY <1>2 DEF TopologyInv, ControlInv, OwnInv, Owns, Topology
  <2>2. inv[w].shard_count = Target(w)
    BY <1>2 DEF TopologyInv, PhaseInv
  <2> QED
    BY <2>1, <2>2 DEF WriteMetadata, Target
<1>3. CASE pc[w] # "scaling"
  BY <1>1, <1>3 DEF TopologyInv, SnapshotCurrent, ApplyPC, WriteMetadata
<1> QED
  BY <1>2, <1>3

\* The shards between the two ends are those the change affects.
LEMMA BetweenIsAffected ==
  ASSUME TopologyInv, lock.category = "topology", NEW i \in Shard,
         \/ lock.start_shards <= i /\ i < lock.target_shards
         \/ lock.target_shards <= i /\ i < lock.start_shards
  PROVE  i \in Change!Affected
<1>1. i \in Nat /\ lock.start_shards \in Nat /\ lock.target_shards \in Nat
  BY Numbers, PendingLock
<1> QED
  BY <1>1 DEF Change!Affected, PendingChange

\* A StatefulSet appears or goes only for a shard the pending change affects.
LEMMA OperatorShard ==
  ASSUME TopologyInv, ChangeInv, NEW i \in Shard, CreateShard(i) \/ RemoveShard(i)
  PROVE  /\ lock.category = "topology"
         /\ \/ lock.start_shards <= i /\ i < lock.target_shards
            \/ lock.target_shards <= i /\ i < lock.start_shards
<1>1. i \in Nat /\ spec \in Nat /\ vault.shard_count \in Nat
  BY Numbers
<1>2. CASE CreateShard(i)
  <2>1. i < spec /\ ~Alive(i)
    BY <1>2 DEF CreateShard, Alive
  <2> QED
    BY <1>1, <2>1, PendingLock DEF ChangeInv
<1>3. CASE RemoveShard(i)
  <2>1. ~(i < spec) /\ Alive(i)
    BY <1>1, <1>3 DEF RemoveShard
  <2>2. IF lock.category = "topology"
        THEN i < lock.start_shards \/ i < lock.target_shards
        ELSE i < vault.shard_count
    BY <2>1 DEF TopologyInv, LockInv
  <2> QED
    BY <1>1, <2>1, <2>2, PendingLock
<1> QED
  BY <1>2, <1>3

\* What the Operator does to one StatefulSet.
LEMMA OperatorLive ==
  ASSUME TypeOK, NEW i \in Shard
  PROVE  /\ CreateShard(i) => LiveShards' = LiveShards \cup {i}
         /\ RemoveShard(i) => LiveShards' = LiveShards \ {i}
         /\ ShardComesOnline(i) \/ ShardDegrades(i) => LiveShards' = LiveShards
BY DEF TypeOK, WorldTypeOK, LiveShards, Alive, CreateShard, RemoveShard,
       ShardComesOnline, ShardDegrades

-----------------------------------------------------------------------------
(* ChangeInv is an invariant.                                               *)

\* The cluster of the initial states has all of its shards.
LEMMA InitChangeInv == Init => ChangeInv
BY MaxShardsAssumption, TopologyAssumption
   DEF Init, WorldInit, ChangeInv, NoLock, Alive, Shard

\* The live shards outside the pending change stay, in every step of an apply.
LEMMA ApplyChangeInv ==
  ASSUME TopologyInv, ChangeInv, NEW w \in Worker, RunApply(w)
  PROVE  \A i \in Shard :
           (IF lock'.category = "topology"
            THEN i < lock'.start_shards /\ i < lock'.target_shards
            ELSE i < vault'.shard_count) => shards'[i] # "Absent"
<1>1. shards' = shards
  BY DEF RunApply, ApplyStep, PrepareVolume, CleanupVolume, UpdateShardCount,
         WriteMetadata, CreateLock, DeleteLock
<1>2. CASE PrepareVolume(w) \/ CleanupVolume(w) \/ UpdateShardCount(w)
  BY <1>1, <1>2 DEF PrepareVolume, CleanupVolume, UpdateShardCount, ChangeInv, Alive
<1>3. CASE WriteMetadata(w)
  <2>1. lock' = lock
    BY <1>3 DEF WriteMetadata
  <2> QED
    BY <1>1, <1>3, <2>1, MetadataStep DEF ChangeInv, Alive
<1>4. CASE CreateLock(w)
  <2>1. lock = NoLock /\ lock' = own[w] /\ vault' = vault /\ op[w] = "acquire"
    BY <1>4 DEF CreateLock
  <2>2. pc[w] = "acquiring"
    BY <2>1, Alone DEF TopologyInv, ControlInv, ApplyPC
  <2>3. own[w].start_shards = vault.shard_count
    BY <2>2 DEF TopologyInv, OwnInv, SnapshotCurrent
  <2> QED
    BY <1>1, <2>1, <2>3 DEF ChangeInv, NoLock, Alive
<1>5. CASE DeleteLock(w)
  <2>1. lock' = NoLock /\ vault' = vault
    BY <1>5 DEF DeleteLock
  <2> QED
    BY <1>1, <1>5, <2>1, DeleteLockSettled DEF ChangeInv, NoLock, Alive
<1> QED
  BY <1>2, <1>3, <1>4, <1>5 DEF RunApply, ApplyStep

\* The Operator removes no shard that both ends of the change have.
LEMMA OperatorChangeInv ==
  ASSUME TopologyInv, ChangeInv, Operator \/ PodLost
  PROVE  ChangeInv'
<1>1. UNCHANGED <<vault, lock, own, pc>>
  BY DEF Operator, PodLost, OperatorStep
<1>2. PICK i \in Shard : CreateShard(i) \/ ShardComesOnline(i) \/ RemoveShard(i)
                           \/ ShardDegrades(i)
  BY DEF Operator, PodLost, OperatorStep
<1>3. \A j \in Shard : Alive(j) => shards'[j] # "Absent" \/ (j = i /\ RemoveShard(i))
  BY <1>2 DEF TopologyInv, TypeOK, WorldTypeOK, CreateShard, ShardComesOnline,
              RemoveShard, ShardDegrades, Alive
<1>4. RemoveShard(i) => ~(IF lock.category = "topology"
                          THEN i < lock.start_shards /\ i < lock.target_shards
                          ELSE i < vault.shard_count)
  <2>1. i \in Nat /\ (lock.category = "topology" =>
                        lock.start_shards \in Nat /\ lock.target_shards \in Nat)
    BY Numbers, PendingLock
  <2> QED
    BY <2>1, OperatorShard
<1> QED
  BY <1>1, <1>3, <1>4 DEF ChangeInv, Alive, Target

\* ChangeInv is inductive relative to TopologyInv.
LEMMA NextChangeInv ==
  ASSUME TopologyInv, ChangeInv, [Next]_vars
  PROVE  ChangeInv'
<1>1. CASE UNCHANGED vars
  BY <1>1 DEF vars, world, control, ChangeInv, Alive, Target
<1>2. CASE Operator \/ PodLost
  BY <1>2, OperatorChangeInv
<1>3. ASSUME NEW w \in Worker, WorkerStep(w) \/ Environment(w)
      PROVE  ChangeInv'
  <2>1. \A v \in Worker : pc'[v] = "acquiring" /\ own'[v].category = "topology"
                            => Target(v)' \in 1 .. MaxShards
    BY <1>3, TargetKept DEF TopologyInv, Target
  <2>2. CASE RunApply(w)
    BY <2>1, <2>2, ApplyChangeInv DEF ChangeInv, Alive
  <2>3. CASE ~RunApply(w)
    BY <1>3, <2>1, <2>3, WorldMoves DEF ChangeInv, Alive, world
  <2> QED
    BY <2>2, <2>3
<1> QED
  BY <1>1, <1>2, <1>3 DEF Next

-----------------------------------------------------------------------------
(* The refinement.                                                          *)

\* Every initial state is one of TopologyChange.
LEMMA InitRefines == Init => Change!Init
BY MaxShardsAssumption, TopologyAssumption
   DEF Init, WorldInit, Change!Init, Change!Ordinals, Change!NoChange, PendingChange,
       LiveShards, Alive, Shard, NoLock

\* A step of Terraform begins, records or completes the change, or is hidden.
LEMMA ApplyRefines ==
  ASSUME TopologyInv, ChangeInv, NEW w \in Worker, RunApply(w)
  PROVE  Change!Next \/ UNCHANGED abstract
<1>1. shards' = shards /\ LiveShards' = LiveShards
  BY DEF RunApply, ApplyStep, PrepareVolume, CleanupVolume, UpdateShardCount,
         WriteMetadata, CreateLock, DeleteLock, LiveShards, Alive
<1>2. CASE PrepareVolume(w) \/ CleanupVolume(w) \/ UpdateShardCount(w)
  BY <1>1, <1>2 DEF PrepareVolume, CleanupVolume, UpdateShardCount, abstract,
                    PendingChange
<1>3. CASE WriteMetadata(w)
  <2>1. PendingChange' = PendingChange
    BY <1>3 DEF WriteMetadata, PendingChange
  <2>2. CASE vault'.shard_count = vault.shard_count
    BY <1>1, <2>1, <2>2 DEF abstract
  <2>3. CASE lock.category = "topology" /\ vault'.shard_count = lock.target_shards
    <3>1. Change!Record
      BY <1>1, <2>1, <2>3, PendingLock DEF Change!Record, PendingChange
    <3> QED
      BY <3>1 DEF Change!Next
  <2> QED
    BY <1>3, <2>2, <2>3, MetadataStep
<1>4. CASE CreateLock(w)
  <2>1. lock = NoLock /\ lock' = own[w] /\ vault' = vault /\ op[w] = "acquire"
    BY <1>4 DEF CreateLock
  <2>2. pc[w] = "acquiring"
    BY <2>1, Alone DEF TopologyInv, ControlInv, ApplyPC
  <2>3. PendingChange = Change!NoChange
    BY <2>1 DEF PendingChange, NoLock, Change!NoChange
  <2>4. CASE own[w].category = "topology"
    <3>1. own[w].start_shards = vault.shard_count
      BY <2>2 DEF TopologyInv, OwnInv, SnapshotCurrent
    <3>2. Target(w) \in 1 .. MaxShards
      BY <2>2, <2>4 DEF ChangeInv
    <3>3. Target(w) # vault.shard_count
      <4>1. Start(w) # Target(w)
        BY <2>2, <2>4, Numbers DEF TopologyInv, ControlInv, OwnInv, Topology
      <4> QED
        BY <3>1, <4>1 DEF Start
    <3>4. PendingChange' = [from |-> vault.shard_count, to |-> Target(w)]
      BY <2>1, <2>4, <3>1 DEF PendingChange, Target
    <3>5. Change!Begin(Target(w))
      BY <1>1, <2>1, <2>3, <3>3, <3>4 DEF Change!Begin, Change!Pending
    <3> QED
      BY <3>2, <3>5 DEF Change!Next
  <2>5. CASE own[w].category # "topology"
    BY <1>1, <2>1, <2>3, <2>5 DEF abstract, PendingChange, Change!NoChange
  <2> QED
    BY <2>4, <2>5
<1>5. CASE DeleteLock(w)
  <2>1. lock' = NoLock /\ vault' = vault
    BY <1>5 DEF DeleteLock
  <2>2. PendingChange' = Change!NoChange
    BY <2>1 DEF PendingChange, NoLock, Change!NoChange
  <2>3. CASE lock.category = "topology"
    <3>1. /\ vault.shard_count = lock.target_shards
          /\ \A i \in Shard : Alive(i) <=> i < lock.target_shards
      BY <1>5, <2>3, DeleteLockSettled
    <3>2. lock.target_shards \in 0 .. MaxShards
      BY DEF TopologyInv, TypeOK, WorldTypeOK, LockData, Size
    <3>3. LiveShards = Change!Ordinals(lock.target_shards)
      BY <3>1, <3>2, MaxShardsAssumption DEF LiveShards, Change!Ordinals, Shard
    <3>4. Change!Complete
      BY <1>1, <2>1, <2>2, <2>3, <3>1, <3>3, PendingLock
         DEF Change!Complete, PendingChange
    <3> QED
      BY <3>4 DEF Change!Next
  <2>4. CASE lock.category # "topology"
    BY <1>1, <2>1, <2>2, <2>4 DEF abstract, PendingChange, Change!NoChange
  <2> QED
    BY <2>3, <2>4
<1> QED
  BY <1>2, <1>3, <1>4, <1>5 DEF RunApply, ApplyStep

\* A step of the Operator adds or removes an affected shard, or is hidden.
LEMMA OperatorRefines ==
  ASSUME TopologyInv, ChangeInv, Operator \/ PodLost
  PROVE  Change!Next \/ UNCHANGED abstract
<1>1. vault' = vault /\ PendingChange' = PendingChange
  BY DEF Operator, PodLost, OperatorStep, PendingChange
<1>2. PICK i \in Shard : CreateShard(i) \/ ShardComesOnline(i) \/ RemoveShard(i)
                           \/ ShardDegrades(i)
  BY DEF Operator, PodLost, OperatorStep
<1>3. CASE ShardComesOnline(i) \/ ShardDegrades(i)
  BY <1>1, <1>3, OperatorLive DEF abstract, TopologyInv
<1>4. CASE CreateShard(i) \/ RemoveShard(i)
  <2>1. i \in Change!Affected
    BY <1>4, OperatorShard, BetweenIsAffected
  <2>2. LiveShards' \in {LiveShards \cup {i}, LiveShards \ {i}}
    BY <1>4, OperatorLive DEF TopologyInv
  <2>3. Change!AddOrRemove(i)
    BY <1>1, <2>1, <2>2 DEF Change!AddOrRemove
  <2>4. i \in Change!Ordinals(MaxShards)
    BY DEF Change!Ordinals, Shard
  <2> QED
    BY <2>3, <2>4 DEF Change!Next
<1> QED
  BY <1>2, <1>3, <1>4

\* Every step is a step of TopologyChange or hidden from it.
LEMMA NextRefines ==
  ASSUME TopologyInv, ChangeInv, [Next]_vars
  PROVE  Change!Next \/ UNCHANGED abstract
<1>1. UNCHANGED world => UNCHANGED abstract
  BY DEF world, abstract, PendingChange, LiveShards, Alive
<1>2. ASSUME NEW w \in Worker, WorkerStep(w) \/ Environment(w)
      PROVE  Change!Next \/ UNCHANGED abstract
  BY <1>1, <1>2, ApplyRefines, WorldMoves
<1> QED
  BY <1>1, <1>2, OperatorRefines DEF Next, vars

\* ShardTopology implements TopologyChange: at most one change is pending, only
\* its shards come and go, and it ends complete, for any number of workers,
\* whatever fails and whatever else is applied meanwhile.
THEOREM ChangeCorrect == Spec => TopologyChangeSpec
<1>1. Init => TopologyInv /\ ChangeInv
  BY InitInv, InitChangeInv
<1>2. TopologyInv /\ ChangeInv /\ [Next]_vars => ChangeInv'
  BY NextChangeInv
<1>3. TopologyInv /\ ChangeInv /\ [Next]_vars =>
        [Change!Next]_<<vault.shard_count, LiveShards, PendingChange>>
  BY NextRefines DEF abstract
<1> QED
  BY <1>1, <1>2, <1>3, InitRefines, InvariantCorrect, PTL
     DEF Spec, TopologyChangeSpec, Change!Spec
=============================================================================
