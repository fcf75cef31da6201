------------------------ MODULE ShardTopologyProofs ------------------------
(***************************************************************************)
(* Proofs about ShardTopology, for every set of workers, every MaxShards   *)
(* and every bound on commands and faults.                                 *)
(***************************************************************************)
EXTENDS ShardTopology, TLAPS

\* The cluster that AddShardedCluster left behind has the right type.
LEMMA InitTypeOK == Init => TypeOK
BY MaxShardsAssumption, TopologyAssumption
   DEF Init, WorldInit, TypeOK, WorldTypeOK, Size, Shard, Inventory, LockData,
       NoInventory, NoLock, NoCommand, Ordinals, PC

\* What a Terraform or Operator step does to the world keeps its type.
LEMMA ApplyStepType ==
  ASSUME NEW w \in Worker, WorldTypeOK, ApplyStep(w)
  PROVE  WorldTypeOK'
<1> USE MaxShardsAssumption DEF WorldTypeOK, Size, Shard, Inventory, LockData, Ordinals
<1>1. CASE PrepareVolume(w)
  BY <1>1 DEF PrepareVolume
<1>2. CASE CleanupVolume(w)
  BY <1>2 DEF CleanupVolume
<1>3. CASE UpdateShardCount(w)
  BY <1>3 DEF UpdateShardCount
<1>4. CASE WriteMetadata(w)
  BY <1>4 DEF WriteMetadata
<1>5. CASE CreateLock(w)
  BY <1>5 DEF CreateLock
<1>6. CASE DeleteLock(w)
  BY <1>6 DEF DeleteLock, NoLock
<1> QED
  BY <1>1, <1>2, <1>3, <1>4, <1>5, <1>6 DEF ApplyStep

\* The three ways a worker moves on keep TypeOK.
LEMMA LocalType ==
  ASSUME NEW w \in Worker, NEW p \in PC, TypeOK, pc[w] # "idle", Local(w, p)
  PROVE  TypeOK'
BY DEF TypeOK, WorldTypeOK, Local, Goto, world

\* Handing an inventory and a lock record to Terraform keeps TypeOK.
LEMMA StartApplyType ==
  ASSUME NEW w \in Worker, NEW p \in ApplyPC, NEW i \in Inventory,
         NEW l \in LockData, NEW o \in {"sync", "acquire", "release", "targeted"},
         TypeOK, pc[w] # "idle", StartApply(w, p, i, l, o)
  PROVE  TypeOK'
<1>1. p \in PC
  BY DEF PC
<1> QED
  BY <1>1 DEF TypeOK, WorldTypeOK, StartApply, Goto, world

\* The end of a command keeps TypeOK.
LEMMA FinishType ==
  ASSUME NEW w \in Worker,
         NEW r \in {"succeeded", "failed", "resumable", "crashed"},
         TypeOK, Finish(w, r), faults' \in Nat
  PROVE  TypeOK'
<1>1. "idle" \in PC /\ NoInventory \in Inventory /\ NoLock \in LockData
  BY MaxShardsAssumption
     DEF PC, NoInventory, NoLock, Inventory, LockData, Size
<1> QED
  BY <1>1 DEF TypeOK, WorldTypeOK, Finish, Goto, world

\* A failed command ends in one of the recorded outcomes.
LEMMA FailureReportType ==
  ASSUME NEW w \in Worker
  PROVE  FailureReport(w) \in {"succeeded", "failed", "resumable", "crashed"}
BY DEF FailureReport

\* The count of faults stays a number.
LEMMA FaultType == ASSUME TypeOK, Fault PROVE faults' \in Nat
BY DEF TypeOK, Fault

\* The lock record a command asks for is a lock record.
LEMMA NewLockType ==
  ASSUME NEW w \in Worker, TypeOK, pc[w] # "idle",
         NEW c \in {"topology", "database"}, NEW t \in Size,
         cmd[w].kind \in {"AddShard", "DeleteShard", "Database"}
  PROVE  NewLock(w, c, t) \in LockData
BY DEF NewLock, LockData, TypeOK, WorldTypeOK, Inventory, Command

\* An apply that raises keeps TypeOK, in a database change and elsewhere.
LEMMA RaiseType ==
  ASSUME NEW w \in Worker, TypeOK, pc[w] # "idle", Raise(w), faults' \in Nat
  PROVE  TypeOK'
<1>1. CASE pc[w] = "working"
  <2>1. "reload" \in PC
    BY DEF PC, ReadPC
  <2> QED
    BY <1>1, <2>1 DEF Raise, Goto, TypeOK, WorldTypeOK, world
<1>2. CASE pc[w] # "working"
  BY <1>2, FinishType, FailureReportType DEF Raise
<1> QED
  BY <1>1, <1>2

\* The first decision of every kind of command keeps TypeOK.
LEMMA DecideType ==
  ASSUME NEW w \in Worker, TypeOK, Decide(w)
  PROVE  TypeOK'
<1>1. pc[w] = "decide"
  BY DEF Decide, Resume, StartTopology, StartDatabase, StartFullApply,
         StartRecover, RefuseCommand
<1>2. inv[w] \in Inventory /\ own[w] \in LockData /\ lock \in LockData
  BY DEF TypeOK, WorldTypeOK
<1>3. inv[w].shard_count \in Size
  BY <1>2 DEF Inventory
<1>4. CASE Resume(w)
  <2>1. "storage" \in PC /\ "scale" \in PC
    BY DEF PC, TryPC
  <2> QED
    BY <1>4, <2>1 DEF Resume, Goto, TypeOK, WorldTypeOK, world
<1>5. CASE StartTopology(w)
  <2>1. NewTarget(w) \in Size
    BY <1>5, MaxShardsAssumption DEF StartTopology, StartAllowed, Size
  <2>2. NewLock(w, "topology", NewTarget(w)) \in LockData
    BY <1>1, <1>5, <2>1, NewLockType DEF StartTopology, Topology
  <2> QED
    BY <1>1, <1>2, <1>5, <2>2, StartApplyType DEF StartTopology, ApplyPC
<1>6. CASE StartDatabase(w)
  <2>1. NewLock(w, "database", inv[w].shard_count) \in LockData
    BY <1>1, <1>3, <1>6, NewLockType DEF StartDatabase
  <2> QED
    BY <1>1, <1>2, <1>6, <2>1, StartApplyType DEF StartDatabase, ApplyPC
<1>7. CASE StartFullApply(w)
  <2>1. NoLock \in LockData
    BY MaxShardsAssumption DEF NoLock, LockData, Size
  <2> QED
    BY <1>1, <1>2, <1>7, <2>1, StartApplyType DEF StartFullApply, ApplyPC
<1>8. CASE StartRecover(w)
  BY <1>1, <1>2, <1>8, StartApplyType DEF StartRecover, ApplyPC
<1>9. CASE RefuseCommand(w)
  BY <1>9, FinishType DEF RefuseCommand, Refuse, TypeOK
<1> QED
  BY <1>4, <1>5, <1>6, <1>7, <1>8, <1>9 DEF Decide

\* The work under the deployment lock keeps TypeOK.
LEMMA WorkType ==
  ASSUME NEW w \in Worker, TypeOK,
         \/ VerifyLock(w) \/ StageStorage(w) \/ ScaleShards(w)
         \/ ShardsReady(w) \/ ShardsDrained(w)
         \/ TrimStorage(w) \/ ReloadInventory(w) \/ ReleaseLock(w)
         \/ ConfirmRelease(w) \/ Settle(w)
  PROVE  TypeOK'
<1>1. /\ inv[w] \in Inventory /\ own[w] \in LockData /\ vault \in Inventory
      /\ Target(w) \in Size
  BY DEF TypeOK, WorldTypeOK, Target, LockData
<1>2. /\ [inv[w] EXCEPT !.storage_shard_count = Target(w)] \in Inventory
      /\ [inv[w] EXCEPT !.shard_count = Target(w)] \in Inventory
  BY <1>1 DEF Inventory
<1>3. {"storage", "scale", "waiting", "release", "draining", "trim"} \subseteq PC
  BY DEF PC, TryPC
<1>4. {"working", "staging", "scaling", "trimming", "releasing"} \subseteq ApplyPC
  BY DEF ApplyPC
<1>5. faults \in Nat
  BY DEF TypeOK
<1>6. CASE VerifyLock(w)
  <2>1. CASE Local(w, "storage") \/ Local(w, "scale")
    BY <1>3, <1>6, <2>1, LocalType DEF VerifyLock
  <2>2. CASE StartApply(w, "working", inv[w], own[w], "sync")
    BY <1>1, <1>4, <1>6, <2>2, StartApplyType DEF VerifyLock
  <2> QED
    BY <1>6, <2>1, <2>2 DEF VerifyLock
<1>7. CASE StageStorage(w)
  <2>1. CASE Local(w, "scale")
    BY <1>3, <1>7, <2>1, LocalType DEF StageStorage
  <2>2. CASE StartApply(w, "staging",
                        [inv[w] EXCEPT !.storage_shard_count = Target(w)],
                        own[w], "sync")
    BY <1>1, <1>2, <1>4, <1>7, <2>2, StartApplyType DEF StageStorage
  <2> QED
    BY <1>7, <2>1, <2>2 DEF StageStorage
<1>8. CASE ScaleShards(w)
  <2>1. CASE Local(w, "waiting")
    BY <1>3, <1>8, <2>1, LocalType DEF ScaleShards
  <2>2. CASE StartApply(w, "scaling", [inv[w] EXCEPT !.shard_count = Target(w)],
                        own[w], "sync")
    BY <1>1, <1>2, <1>4, <1>8, <2>2, StartApplyType DEF ScaleShards
  <2> QED
    BY <1>8, <2>1, <2>2 DEF ScaleShards
<1>9. CASE ShardsReady(w)
  BY <1>3, <1>9, LocalType DEF ShardsReady
<1>10. CASE ShardsDrained(w)
  BY <1>3, <1>10, LocalType DEF ShardsDrained
<1>11. CASE TrimStorage(w)
  <2>1. CASE Local(w, "release")
    BY <1>3, <1>11, <2>1, LocalType DEF TrimStorage
  <2>2. CASE StartApply(w, "trimming",
                        [inv[w] EXCEPT !.storage_shard_count = Target(w)],
                        own[w], "sync")
    BY <1>1, <1>2, <1>4, <1>11, <2>2, StartApplyType DEF TrimStorage
  <2> QED
    BY <1>11, <2>1, <2>2 DEF TrimStorage
<1>12. CASE ReloadInventory(w)
  BY <1>1, <1>3, <1>12 DEF ReloadInventory, Goto, TypeOK, WorldTypeOK, world
<1>13. CASE ReleaseLock(w)
  BY <1>1, <1>4, <1>13, StartApplyType DEF ReleaseLock
<1>14. CASE ConfirmRelease(w)
  BY <1>5, <1>14, FinishType, FailureReportType DEF ConfirmRelease
<1>15. CASE Settle(w)
  BY <1>5, <1>15, FinishType DEF Settle
<1> QED
  BY <1>6, <1>7, <1>8, <1>9, <1>10, <1>11, <1>12, <1>13, <1>14, <1>15

\* Every step of a worker keeps TypeOK.
LEMMA WorkerStepType ==
  ASSUME NEW w \in Worker, TypeOK, WorkerStep(w)
  PROVE  TypeOK'
<1>1. CASE AcquireFlock(w)
  <2>1. "load" \in PC
    BY DEF PC, ReadPC
  <2> QED
    BY <1>1, <2>1 DEF AcquireFlock, Goto, TypeOK, WorldTypeOK, world
<1>2. CASE LoadInventory(w)
  <2>1. "decide" \in PC
    BY DEF PC, ReadPC
  <2> QED
    BY <1>2, <2>1 DEF LoadInventory, Goto, TypeOK, WorldTypeOK, world
<1>3. CASE Decide(w)
  BY <1>3, DecideType
<1>4. CASE RunApply(w)
  BY <1>4, ApplyStepType DEF RunApply, TypeOK, control
<1>5. CASE ApplySucceeds(w)
  <2>1. AfterApply[pc[w]] \in PC
    BY <1>5 DEF ApplySucceeds, ApplyPC, AfterApply, PC, TryPC, ReadPC
  <2>2. pc[w] # "idle"
    BY <1>5 DEF ApplySucceeds, ApplyPC
  <2> QED
    BY <1>5, <2>1, <2>2 DEF ApplySucceeds, Goto, TypeOK, WorldTypeOK, world
<1> QED
  BY <1>1, <1>2, <1>3, <1>4, <1>5, WorkType DEF WorkerStep

\* Submissions, failures and kills keep TypeOK.
LEMMA EnvironmentType ==
  ASSUME NEW w \in Worker, TypeOK, Environment(w)
  PROVE  TypeOK'
<1>1. CASE Submit(w)
  <2>1. "queued" \in PC
    BY DEF PC
  <2> QED
    BY <1>1, <2>1 DEF Submit, Goto, TypeOK, WorldTypeOK, world, Command
<1>2. CASE ApplyFails(w)
  <2>1. pc[w] # "idle"
    BY <1>2 DEF ApplyFails, ApplyPC
  <2> QED
    BY <1>2, <2>1, RaiseType, FaultType DEF ApplyFails
<1>3. CASE ReadFails(w)
  BY <1>3, FinishType, FailureReportType, FaultType DEF ReadFails
<1>4. CASE Crash(w)
  BY <1>4, FinishType, FaultType DEF Crash
<1> QED
  BY <1>1, <1>2, <1>3, <1>4 DEF Environment

\* The Operator changes nothing but the StatefulSets.
LEMMA OperatorType ==
  ASSUME TypeOK, Operator \/ PodLost
  PROVE  TypeOK'
BY FaultType
   DEF Operator, PodLost, OperatorStep, CreateShard, ShardComesOnline,
       ShardDegrades, RemoveShard, TypeOK, WorldTypeOK

\* Every variable keeps its type in every reachable state.
THEOREM TypeCorrect == Spec => []TypeOK
<1>1. TypeOK /\ [Next]_vars => TypeOK'
  <2> SUFFICES ASSUME TypeOK, [Next]_vars PROVE TypeOK'
    OBVIOUS
  <2>1. CASE UNCHANGED vars
    BY <2>1 DEF vars, world, control, TypeOK, WorldTypeOK
  <2> QED
    BY <2>1, WorkerStepType, EnvironmentType, OperatorType DEF Next
<1> QED
  BY <1>1, InitTypeOK, PTL DEF Spec

-----------------------------------------------------------------------------
(* The inductive invariant.                                                 *)

\* The cluster that AddShardedCluster left behind satisfies the invariant.
LEMMA InitInv == Init => TopologyInv
<1> SUFFICES ASSUME Init PROVE TopologyInv
  OBVIOUS
<1>1. TypeOK
  BY InitTypeOK
<1>2. StorageInv /\ LockInv
  BY MaxShardsAssumption, TopologyAssumption
     DEF Init, WorldInit, StorageInv, StorageUnderShards, LockInv,
         LockDescribesTopology, NoLock, Ordinals, Alive, Shard
<1>3. ControlInv
  BY DEF Init, WorldInit, ControlInv, Working, ApplyPC, Topology
<1>4. OwnInv /\ SnapshotCurrent /\ PhaseInv
  BY DEF Init, WorldInit, OwnInv, Owns, SnapshotCurrent, PhaseInv, Settled
<1> QED
  BY <1>1, <1>2, <1>3, <1>4 DEF TopologyInv

\* The parts of the invariant that speak of no worker.
LEMMA WorldUnchanged ==
  ASSUME StorageInv, LockInv, UNCHANGED world
  PROVE  StorageInv' /\ LockInv'
BY DEF StorageInv, StorageUnderShards, LockInv, LockDescribesTopology, world,
       Ordinals, Alive

WorkerInv == ControlInv /\ OwnInv /\ SnapshotCurrent /\ PhaseInv

\* A command that ends, at any place, leaves nothing to show.
LEMMA FinishInv ==
  ASSUME TopologyInv, NEW w \in Worker, NEW r, Finish(w, r)
  PROVE  StorageInv' /\ LockInv' /\ WorkerInv'
<1>1. StorageInv' /\ LockInv'
  BY WorldUnchanged DEF TopologyInv, Finish
<1>2. pc' = [pc EXCEPT ![w] = "idle"] /\ op' = [op EXCEPT ![w] = "off"]
  BY DEF Finish, Goto
<1>3. ControlInv'
  BY <1>2, TopologyAssumption
     DEF Finish, TopologyInv, TypeOK, WorldTypeOK, ControlInv, Working, ApplyPC,
         Topology
<1>4. OwnInv'
  BY <1>2 DEF Finish, TopologyInv, TypeOK, WorldTypeOK, OwnInv, Owns, Topology,
              Start, Target, world
<1>5. SnapshotCurrent'
  BY <1>2 DEF Finish, TopologyInv, TypeOK, WorldTypeOK, SnapshotCurrent, world
<1>6. PhaseInv'
  BY <1>2 DEF Finish, TopologyInv, TypeOK, WorldTypeOK, PhaseInv, Settled,
              Topology, Target, Ordinals, Alive, world
<1> QED
  BY <1>1, <1>3, <1>4, <1>5, <1>6 DEF WorkerInv

\* load_inventory under the flock: the snapshot is the current record.
LEMMA LoadInventoryInv ==
  ASSUME TopologyInv, NEW w \in Worker, LoadInventory(w)
  PROVE  StorageInv' /\ LockInv' /\ WorkerInv'
<1>1. StorageInv' /\ LockInv'
  BY WorldUnchanged DEF TopologyInv, LoadInventory, Goto
<1>2. \A v \in Worker \ {w} : pc[v] \in {"idle", "queued"}
  BY DEF TopologyInv, TypeOK, ControlInv, Working, LoadInventory, Goto
<1>3. ControlInv'
  BY <1>2 DEF LoadInventory, Goto, TopologyInv, TypeOK, WorldTypeOK,
     ControlInv, Working, ApplyPC, Topology
<1>4. OwnInv'
  BY <1>2 DEF LoadInventory, Goto, TopologyInv, TypeOK, WorldTypeOK,
     ControlInv, OwnInv, Owns, Topology, Start, Target, world
<1>5. SnapshotCurrent'
  BY <1>2 DEF LoadInventory, Goto, TopologyInv, TypeOK, WorldTypeOK,
     SnapshotCurrent, world
<1>6. PhaseInv'
  BY <1>2 DEF LoadInventory, Goto, TopologyInv, TypeOK, WorldTypeOK,
     ControlInv, PhaseInv, Settled, Topology, Target, Ordinals, Alive, world
<1> QED
  BY <1>1, <1>3, <1>4, <1>5, <1>6 DEF WorkerInv

\* A resumed change works under the lock it found.
LEMMA ResumeInv ==
  ASSUME TopologyInv, NEW w \in Worker, Resume(w)
  PROVE  StorageInv' /\ LockInv' /\ WorkerInv'
<1>1. StorageInv' /\ LockInv'
  BY WorldUnchanged DEF TopologyInv, Resume, Goto
<1>2. \A v \in Worker \ {w} : pc[v] \in {"idle", "queued"}
  BY DEF TopologyInv, TypeOK, ControlInv, Working, Resume, Goto
<1>3. ControlInv'
  BY <1>2 DEF Resume, Goto, TopologyInv, TypeOK, WorldTypeOK, ControlInv,
     Working, ApplyPC, Topology
<1>4. OwnInv'
  BY <1>2 DEF Resume, Goto, TopologyInv, TypeOK, WorldTypeOK, ControlInv,
     OwnInv, Owns, Topology, Start, Target, world, ResumeAllowed, LockData
<1>5. SnapshotCurrent'
  BY <1>2 DEF Resume, Goto, TopologyInv, TypeOK, WorldTypeOK,
     SnapshotCurrent, world
<1>6. PhaseInv'
  BY <1>2 DEF Resume, Goto, TopologyInv, TypeOK, WorldTypeOK, ControlInv,
     PhaseInv, Settled, Topology, Target, Ordinals, Alive, world,
     ResumeAllowed
<1> QED
  BY <1>1, <1>3, <1>4, <1>5, <1>6 DEF WorkerInv

\* A new AddShard or DeleteShard asks for a lock that runs from the recorded
\* count to a different target.
LEMMA StartTopologyInv ==
  ASSUME TopologyInv, NEW w \in Worker, StartTopology(w)
  PROVE  StorageInv' /\ LockInv' /\ WorkerInv'
<1>1. StorageInv' /\ LockInv'
  BY WorldUnchanged DEF TopologyInv, StartTopology, StartApply, Goto
<1>2. \A v \in Worker \ {w} : pc[v] \in {"idle", "queued"}
  BY DEF TopologyInv, TypeOK, ControlInv, Working, StartTopology,
     StartApply, Goto
<1>3. ControlInv'
  BY <1>2 DEF StartTopology, StartApply, Goto, TopologyInv, TypeOK,
     WorldTypeOK, ControlInv, Working, ApplyPC, Topology
<1>4. OwnInv'
  <2>1. /\ inv[w].shard_count \in Nat
        /\ cmd[w].count \in Nat \ {0}
    <3>1. cmd[w] \in Command /\ inv[w] \in Inventory
      BY DEF StartTopology, TopologyInv, TypeOK, WorldTypeOK
    <3>2. cmd[w].count \in Counts
      BY <3>1 DEF Command
    <3>3. inv[w].shard_count \in 0 .. MaxShards
      BY <3>1 DEF Inventory, Size
    <3>4. inv[w].shard_count \in Nat
      BY <3>3, MaxShardsAssumption
    <3>5. cmd[w].count \in Nat \ {0}
      BY <3>2, TopologyAssumption
    <3> QED
      BY <3>4, <3>5
  <2>2. /\ own' = [own EXCEPT ![w] = NewLock(w, "topology", NewTarget(w))]
        /\ inv' = [inv EXCEPT ![w] = inv[w]]
        /\ op' = [op EXCEPT ![w] = "acquire"]
        /\ pc' = [pc EXCEPT ![w] = "acquiring"] /\ cmd' = cmd
        /\ Topology(w)
    BY DEF StartTopology, StartApply, Goto
  <2>3. /\ own'[w].start_shards = inv'[w].shard_count
        /\ own'[w].action = cmd[w].kind /\ own'[w].category = "topology"
        /\ own'[w].target_shards = NewTarget(w)
    BY <2>2 DEF NewLock, TopologyInv, TypeOK, WorldTypeOK
  <2>4. /\ cmd[w].kind = "AddShard" => own'[w].start_shards < own'[w].target_shards
        /\ cmd[w].kind = "DeleteShard" => own'[w].target_shards < own'[w].start_shards
    BY <2>1, <2>2, <2>3 DEF NewTarget, TopologyInv, TypeOK, WorldTypeOK
  <2>5. pc'[w] = "acquiring" /\ op'[w] = "acquire"
    BY <2>2 DEF TopologyInv, TypeOK, WorldTypeOK
  <2>6. \A v \in Worker \ {w} : pc'[v] \in {"idle", "queued"}
    BY <1>2, <2>2 DEF TopologyInv, TypeOK
  <2> QED
    BY <2>2, <2>3, <2>4, <2>5, <2>6 DEF OwnInv, Owns, Topology, Start, Target
<1>5. SnapshotCurrent'
  BY <1>2 DEF StartTopology, StartApply, Goto, TopologyInv, TypeOK,
     WorldTypeOK, SnapshotCurrent, world
<1>6. PhaseInv'
  BY <1>2 DEF StartTopology, StartApply, Goto, TopologyInv, TypeOK,
     WorldTypeOK, ControlInv, PhaseInv, Settled, Topology, Target, Ordinals,
     Alive, world
<1> QED
  BY <1>1, <1>3, <1>4, <1>5, <1>6 DEF WorkerInv

\* A database change asks for a lock that names the recorded count.
LEMMA StartDatabaseInv ==
  ASSUME TopologyInv, NEW w \in Worker, StartDatabase(w)
  PROVE  StorageInv' /\ LockInv' /\ WorkerInv'
<1>1. StorageInv' /\ LockInv'
  BY WorldUnchanged DEF TopologyInv, StartDatabase, StartApply, Goto
<1>2. \A v \in Worker \ {w} : pc[v] \in {"idle", "queued"}
  BY DEF TopologyInv, TypeOK, ControlInv, Working, StartDatabase,
     StartApply, Goto
<1>3. ControlInv'
  BY <1>2 DEF StartDatabase, StartApply, Goto, TopologyInv, TypeOK,
     WorldTypeOK, ControlInv, Working, ApplyPC, Topology
<1>4. OwnInv'
  BY <1>2 DEF StartDatabase, StartApply, Goto, TopologyInv, TypeOK,
     WorldTypeOK, ControlInv, OwnInv, Owns, Topology, Start, Target, world,
     NewLock
<1>5. SnapshotCurrent'
  BY <1>2 DEF StartDatabase, StartApply, Goto, TopologyInv, TypeOK,
     WorldTypeOK, SnapshotCurrent, world
<1>6. PhaseInv'
  BY <1>2 DEF StartDatabase, StartApply, Goto, TopologyInv, TypeOK,
     WorldTypeOK, ControlInv, PhaseInv, Settled, Topology, Target, Ordinals,
     Alive, world
<1> QED
  BY <1>1, <1>3, <1>4, <1>5, <1>6 DEF WorkerInv

\* A complete-inventory apply replays what Vault holds.
LEMMA StartFullApplyInv ==
  ASSUME TopologyInv, NEW w \in Worker, StartFullApply(w)
  PROVE  StorageInv' /\ LockInv' /\ WorkerInv'
<1>1. StorageInv' /\ LockInv'
  BY WorldUnchanged DEF TopologyInv, StartFullApply, StartApply, Goto
<1>2. \A v \in Worker \ {w} : pc[v] \in {"idle", "queued"}
  BY DEF TopologyInv, TypeOK, ControlInv, Working, StartFullApply,
     StartApply, Goto
<1>3. ControlInv'
  BY <1>2 DEF StartFullApply, StartApply, Goto, TopologyInv, TypeOK,
     WorldTypeOK, ControlInv, Working, ApplyPC, Topology
<1>4. OwnInv'
  BY <1>2 DEF StartFullApply, StartApply, Goto, TopologyInv, TypeOK,
     WorldTypeOK, ControlInv, OwnInv, Owns, Topology, Start, Target, world
<1>5. SnapshotCurrent'
  BY <1>2 DEF StartFullApply, StartApply, Goto, TopologyInv, TypeOK,
     WorldTypeOK, SnapshotCurrent, world
<1>6. PhaseInv'
  BY <1>2 DEF StartFullApply, StartApply, Goto, TopologyInv, TypeOK,
     WorldTypeOK, ControlInv, PhaseInv, Settled, Topology, Target, Ordinals,
     Alive, world
<1> QED
  BY <1>1, <1>3, <1>4, <1>5, <1>6 DEF WorkerInv

\* RecoverDeploymentLock has checked what LockReleasedWhenSettled asks.
LEMMA StartRecoverInv ==
  ASSUME TopologyInv, NEW w \in Worker, StartRecover(w)
  PROVE  StorageInv' /\ LockInv' /\ WorkerInv'
<1>1. StorageInv' /\ LockInv'
  BY WorldUnchanged DEF TopologyInv, StartRecover, StartApply, Goto
<1>2. \A v \in Worker \ {w} : pc[v] \in {"idle", "queued"}
  BY DEF TopologyInv, TypeOK, ControlInv, Working, StartRecover, StartApply,
     Goto
<1>3. ControlInv'
  BY <1>2 DEF StartRecover, StartApply, Goto, TopologyInv, TypeOK,
     WorldTypeOK, ControlInv, Working, ApplyPC, Topology
<1>4. OwnInv'
  BY <1>2 DEF StartRecover, StartApply, Goto, TopologyInv, TypeOK,
     WorldTypeOK, ControlInv, OwnInv, Owns, Topology, Start, Target, world,
     RecoverAllowed
<1>5. SnapshotCurrent'
  BY <1>2 DEF StartRecover, StartApply, Goto, TopologyInv, TypeOK,
     WorldTypeOK, SnapshotCurrent, world
<1>6. PhaseInv'
  <2>1. /\ own' = [own EXCEPT ![w] = lock]
        /\ pc' = [pc EXCEPT ![w] = "releasing"] /\ UNCHANGED world
    BY DEF StartRecover, StartApply, Goto
  <2>2. spec = lock.target_shards /\ vault.shard_count = lock.target_shards
    BY DEF StartRecover, RecoverAllowed, TopologyInv, SnapshotCurrent
  <2>3. \A i \in Ordinals(lock.target_shards) : Alive(i)
    BY DEF StartRecover, RecoverAllowed, Online, Alive
  <2>4. /\ lock.target_shards \in Nat /\ lock.start_shards \in Nat
        /\ Shard \subseteq Nat
    BY MaxShardsAssumption
       DEF TopologyInv, TypeOK, WorldTypeOK, LockData, Size, Shard
  <2>5. \A i \in Shard : Alive(i) => i < lock.target_shards
    BY <2>4 DEF StartRecover, RecoverAllowed, TopologyInv, LockInv
  <2>6. own'[w] = lock /\ pc'[w] = "releasing"
    BY <2>1 DEF TopologyInv, TypeOK, WorldTypeOK
  <2>7. \A v \in Worker \ {w} : pc'[v] \in {"idle", "queued"}
    BY <1>2, <2>1 DEF TopologyInv, TypeOK
  <2> QED
    BY <2>1, <2>2, <2>3, <2>5, <2>6, <2>7
       DEF PhaseInv, Settled, Target, Ordinals, Alive, world
<1> QED
  BY <1>1, <1>3, <1>4, <1>5, <1>6 DEF WorkerInv

\* The verified lock is the one the worker asked for.
LEMMA VerifyLockInv ==
  ASSUME TopologyInv, NEW w \in Worker, VerifyLock(w)
  PROVE  StorageInv' /\ LockInv' /\ WorkerInv'
<1>1. StorageInv' /\ LockInv'
  BY WorldUnchanged DEF TopologyInv, VerifyLock, Local, StartApply, Goto
<1>2. \A v \in Worker \ {w} : pc[v] \in {"idle", "queued"}
  BY DEF TopologyInv, TypeOK, ControlInv, Working, VerifyLock, Local,
     StartApply, Goto
<1>3. ControlInv'
  BY <1>2 DEF VerifyLock, Local, StartApply, Goto, TopologyInv, TypeOK,
     WorldTypeOK, ControlInv, Working, ApplyPC, Topology
<1>4. OwnInv'
  BY <1>2 DEF VerifyLock, Local, StartApply, Goto, TopologyInv, TypeOK,
     WorldTypeOK, ControlInv, OwnInv, Owns, Topology, Start, Target, world
<1>5. SnapshotCurrent'
  BY <1>2 DEF VerifyLock, Local, StartApply, Goto, TopologyInv, TypeOK,
     WorldTypeOK, SnapshotCurrent, world
<1>6. PhaseInv'
  BY <1>2 DEF VerifyLock, Local, StartApply, Goto, TopologyInv, TypeOK,
     WorldTypeOK, ControlInv, PhaseInv, Settled, Topology, Target, Ordinals,
     Alive, world
<1> QED
  BY <1>1, <1>3, <1>4, <1>5, <1>6 DEF WorkerInv

\* Staging only raises the storage count.
LEMMA StageStorageInv ==
  ASSUME TopologyInv, NEW w \in Worker, StageStorage(w)
  PROVE  StorageInv' /\ LockInv' /\ WorkerInv'
<1>1. StorageInv' /\ LockInv'
  BY WorldUnchanged DEF TopologyInv, StageStorage, Local, StartApply, Goto
<1>2. \A v \in Worker \ {w} : pc[v] \in {"idle", "queued"}
  BY DEF TopologyInv, TypeOK, ControlInv, Working, StageStorage, Local,
     StartApply, Goto
<1>3. ControlInv'
  BY <1>2 DEF StageStorage, Local, StartApply, Goto, TopologyInv, TypeOK,
     WorldTypeOK, ControlInv, Working, ApplyPC, Topology
<1>4. OwnInv'
  BY <1>2 DEF StageStorage, Local, StartApply, Goto, TopologyInv, TypeOK,
     WorldTypeOK, ControlInv, OwnInv, Owns, Topology, Start, Target, world
<1>5. SnapshotCurrent'
  BY <1>2 DEF StageStorage, Local, StartApply, Goto, TopologyInv, TypeOK,
     WorldTypeOK, SnapshotCurrent, world, Inventory
<1>6. PhaseInv'
  BY <1>2, MaxShardsAssumption DEF StageStorage, Local, StartApply, Goto,
     TopologyInv, TypeOK, WorldTypeOK, ControlInv, PhaseInv, Settled,
     Topology, Target, Ordinals, Alive, world, SnapshotCurrent, Inventory,
     LockData, Size, Start
<1> QED
  BY <1>1, <1>3, <1>4, <1>5, <1>6 DEF WorkerInv

\* AddShard scales up to staged storage; a skipped scale is a finished one.
LEMMA ScaleShardsInv ==
  ASSUME TopologyInv, NEW w \in Worker, ScaleShards(w)
  PROVE  StorageInv' /\ LockInv' /\ WorkerInv'
<1>1. StorageInv' /\ LockInv'
  BY WorldUnchanged DEF TopologyInv, ScaleShards, Local, StartApply, Goto
<1>2. \A v \in Worker \ {w} : pc[v] \in {"idle", "queued"}
  BY DEF TopologyInv, TypeOK, ControlInv, Working, ScaleShards, Local,
     StartApply, Goto
<1>3. ControlInv'
  BY <1>2 DEF ScaleShards, Local, StartApply, Goto, TopologyInv, TypeOK,
     WorldTypeOK, ControlInv, Working, ApplyPC, Topology
<1>4. OwnInv'
  BY <1>2 DEF ScaleShards, Local, StartApply, Goto, TopologyInv, TypeOK,
     WorldTypeOK, ControlInv, OwnInv, Owns, Topology, Start, Target, world
<1>5. SnapshotCurrent'
  BY <1>2 DEF ScaleShards, Local, StartApply, Goto, TopologyInv, TypeOK,
     WorldTypeOK, SnapshotCurrent, world, Inventory
<1>6. PhaseInv'
  BY <1>2, MaxShardsAssumption DEF ScaleShards, Local, StartApply, Goto,
     TopologyInv, TypeOK, WorldTypeOK, ControlInv, PhaseInv, Settled,
     Topology, Target, Ordinals, Alive, world, SnapshotCurrent, MustScale,
     OwnInv, Owns, Inventory, LockData, Size, Start, LockInv,
     LockDescribesTopology
<1> QED
  BY <1>1, <1>3, <1>4, <1>5, <1>6 DEF WorkerInv

\* With every target shard Online, AddShard has no other StatefulSet.
LEMMA ShardsReadyInv ==
  ASSUME TopologyInv, NEW w \in Worker, ShardsReady(w)
  PROVE  StorageInv' /\ LockInv' /\ WorkerInv'
<1>1. StorageInv' /\ LockInv'
  BY WorldUnchanged DEF TopologyInv, ShardsReady, Local, Goto
<1>2. \A v \in Worker \ {w} : pc[v] \in {"idle", "queued"}
  BY DEF TopologyInv, TypeOK, ControlInv, Working, ShardsReady, Local, Goto
<1>3. ControlInv'
  BY <1>2 DEF ShardsReady, Local, Goto, TopologyInv, TypeOK, WorldTypeOK,
     ControlInv, Working, ApplyPC, Topology
<1>4. OwnInv'
  BY <1>2 DEF ShardsReady, Local, Goto, TopologyInv, TypeOK, WorldTypeOK,
     ControlInv, OwnInv, Owns, Topology, Start, Target, world
<1>5. SnapshotCurrent'
  BY <1>2 DEF ShardsReady, Local, Goto, TopologyInv, TypeOK, WorldTypeOK,
     SnapshotCurrent, world
<1>6. PhaseInv'
  <2>1. /\ pc' = [pc EXCEPT ![w] = IF cmd[w].kind = "AddShard" THEN "release"
                                                         ELSE "draining"]
        /\ UNCHANGED <<world, own, cmd>>
    BY DEF ShardsReady, Local, Goto
  <2>2. spec = Target(w) /\ vault.shard_count = Target(w) /\ lock = own[w]
    BY DEF ShardsReady, TopologyInv, PhaseInv, Settled, OwnInv, Owns
  <2>3. \A i \in Ordinals(Target(w)) : Alive(i)
    BY DEF ShardsReady, Online, Alive
  <2>4. /\ Target(w) \in Nat /\ Start(w) \in Nat
        /\ Shard \subseteq Nat
    BY MaxShardsAssumption
       DEF TopologyInv, TypeOK, WorldTypeOK, LockData, Size, Shard, Target, Start
  <2>5. /\ lock.category = "topology" /\ lock.action = cmd[w].kind
        /\ Topology(w)
    BY <2>2 DEF ShardsReady, TopologyInv, ControlInv, Topology, OwnInv, Owns
  <2>6. cmd[w].kind = "AddShard" => \A i \in Shard : Alive(i) => i < Target(w)
    <3> SUFFICES ASSUME cmd[w].kind = "AddShard", NEW i \in Shard, Alive(i)
                 PROVE  i < Target(w)
      OBVIOUS
    <3>1. lock.start_shards < lock.target_shards
      BY <2>5 DEF TopologyInv, LockInv
    <3>2. i < lock.start_shards \/ i < lock.target_shards
      BY <2>5 DEF TopologyInv, LockInv
    <3>3. lock.target_shards = Target(w) /\ lock.start_shards = Start(w)
      BY <2>2 DEF Target, Start
    <3> QED
      BY <2>4, <3>1, <3>2, <3>3
  <2>7. pc'[w] = (IF cmd[w].kind = "AddShard" THEN "release" ELSE "draining")
    BY <2>1 DEF TopologyInv, TypeOK
  <2>8. \A v \in Worker \ {w} : pc'[v] \in {"idle", "queued"}
    BY <1>2, <2>1 DEF TopologyInv, TypeOK
  <2> QED
    BY <2>1, <2>2, <2>3, <2>6, <2>7, <2>8
       DEF PhaseInv, Settled, Target, Ordinals, Alive, world
<1> QED
  BY <1>1, <1>3, <1>4, <1>5, <1>6 DEF WorkerInv

\* The removed StatefulSets are gone before storage is trimmed.
LEMMA ShardsDrainedInv ==
  ASSUME TopologyInv, NEW w \in Worker, ShardsDrained(w)
  PROVE  StorageInv' /\ LockInv' /\ WorkerInv'
<1>1. StorageInv' /\ LockInv'
  BY WorldUnchanged DEF TopologyInv, ShardsDrained, Local, Goto
<1>2. \A v \in Worker \ {w} : pc[v] \in {"idle", "queued"}
  BY DEF TopologyInv, TypeOK, ControlInv, Working, ShardsDrained, Local,
     Goto
<1>3. ControlInv'
  BY <1>2 DEF ShardsDrained, Local, Goto, TopologyInv, TypeOK, WorldTypeOK,
     ControlInv, Working, ApplyPC, Topology
<1>4. OwnInv'
  BY <1>2 DEF ShardsDrained, Local, Goto, TopologyInv, TypeOK, WorldTypeOK,
     ControlInv, OwnInv, Owns, Topology, Start, Target, world
<1>5. SnapshotCurrent'
  BY <1>2 DEF ShardsDrained, Local, Goto, TopologyInv, TypeOK, WorldTypeOK,
     SnapshotCurrent, world
<1>6. PhaseInv'
  BY <1>2, MaxShardsAssumption DEF ShardsDrained, Local, Goto, TopologyInv,
     TypeOK, WorldTypeOK, ControlInv, PhaseInv, Settled, Topology, Target,
     Ordinals, Alive, world, OwnInv, Owns, Start, LockData, Size, Shard,
     LockInv, LockDescribesTopology
<1> QED
  BY <1>1, <1>3, <1>4, <1>5, <1>6 DEF WorkerInv

\* Trimming lowers the storage count to the target and nothing else.
LEMMA TrimStorageInv ==
  ASSUME TopologyInv, NEW w \in Worker, TrimStorage(w)
  PROVE  StorageInv' /\ LockInv' /\ WorkerInv'
<1>1. StorageInv' /\ LockInv'
  BY WorldUnchanged DEF TopologyInv, TrimStorage, Local, StartApply, Goto
<1>2. \A v \in Worker \ {w} : pc[v] \in {"idle", "queued"}
  BY DEF TopologyInv, TypeOK, ControlInv, Working, TrimStorage, Local,
     StartApply, Goto
<1>3. ControlInv'
  BY <1>2 DEF TrimStorage, Local, StartApply, Goto, TopologyInv, TypeOK,
     WorldTypeOK, ControlInv, Working, ApplyPC, Topology
<1>4. OwnInv'
  BY <1>2 DEF TrimStorage, Local, StartApply, Goto, TopologyInv, TypeOK,
     WorldTypeOK, ControlInv, OwnInv, Owns, Topology, Start, Target, world
<1>5. SnapshotCurrent'
  BY <1>2 DEF TrimStorage, Local, StartApply, Goto, TopologyInv, TypeOK,
     WorldTypeOK, SnapshotCurrent, world, Inventory
<1>6. PhaseInv'
  BY <1>2 DEF TrimStorage, Local, StartApply, Goto, TopologyInv, TypeOK,
     WorldTypeOK, ControlInv, PhaseInv, Settled, Topology, Target, Ordinals,
     Alive, world, Inventory
<1> QED
  BY <1>1, <1>3, <1>4, <1>5, <1>6 DEF WorkerInv

\* The finally block works on a fresh snapshot.
LEMMA ReloadInventoryInv ==
  ASSUME TopologyInv, NEW w \in Worker, ReloadInventory(w)
  PROVE  StorageInv' /\ LockInv' /\ WorkerInv'
<1>1. StorageInv' /\ LockInv'
  BY WorldUnchanged DEF TopologyInv, ReloadInventory, Goto
<1>2. \A v \in Worker \ {w} : pc[v] \in {"idle", "queued"}
  BY DEF TopologyInv, TypeOK, ControlInv, Working, ReloadInventory, Goto
<1>3. ControlInv'
  BY <1>2 DEF ReloadInventory, Goto, TopologyInv, TypeOK, WorldTypeOK,
     ControlInv, Working, ApplyPC, Topology
<1>4. OwnInv'
  BY <1>2 DEF ReloadInventory, Goto, TopologyInv, TypeOK, WorldTypeOK,
     ControlInv, OwnInv, Owns, Topology, Start, Target, world
<1>5. SnapshotCurrent'
  BY <1>2 DEF ReloadInventory, Goto, TopologyInv, TypeOK, WorldTypeOK,
     SnapshotCurrent, world
<1>6. PhaseInv'
  BY <1>2 DEF ReloadInventory, Goto, TopologyInv, TypeOK, WorldTypeOK,
     ControlInv, PhaseInv, Settled, Topology, Target, Ordinals, Alive, world
<1> QED
  BY <1>1, <1>3, <1>4, <1>5, <1>6 DEF WorkerInv

\* A topology change asks for its release when it is settled.
LEMMA ReleaseLockInv ==
  ASSUME TopologyInv, NEW w \in Worker, ReleaseLock(w)
  PROVE  StorageInv' /\ LockInv' /\ WorkerInv'
<1>1. StorageInv' /\ LockInv'
  BY WorldUnchanged DEF TopologyInv, ReleaseLock, StartApply, Goto
<1>2. \A v \in Worker \ {w} : pc[v] \in {"idle", "queued"}
  BY DEF TopologyInv, TypeOK, ControlInv, Working, ReleaseLock, StartApply,
     Goto
<1>3. ControlInv'
  BY <1>2 DEF ReleaseLock, StartApply, Goto, TopologyInv, TypeOK,
     WorldTypeOK, ControlInv, Working, ApplyPC, Topology
<1>4. OwnInv'
  BY <1>2 DEF ReleaseLock, StartApply, Goto, TopologyInv, TypeOK,
     WorldTypeOK, ControlInv, OwnInv, Owns, Topology, Start, Target, world
<1>5. SnapshotCurrent'
  BY <1>2 DEF ReleaseLock, StartApply, Goto, TopologyInv, TypeOK,
     WorldTypeOK, SnapshotCurrent, world
<1>6. PhaseInv'
  BY <1>2 DEF ReleaseLock, StartApply, Goto, TopologyInv, TypeOK,
     WorldTypeOK, ControlInv, PhaseInv, Settled, Topology, Target, Ordinals,
     Alive, world
<1> QED
  BY <1>1, <1>3, <1>4, <1>5, <1>6 DEF WorkerInv

\* A finished apply has committed the inventory it was given.
LEMMA ApplySucceedsInv ==
  ASSUME TopologyInv, NEW w \in Worker, ApplySucceeds(w)
  PROVE  StorageInv' /\ LockInv' /\ WorkerInv'
<1>1. StorageInv' /\ LockInv'
  BY WorldUnchanged DEF TopologyInv, ApplySucceeds, Goto, AfterApply
<1>2. \A v \in Worker \ {w} : pc[v] \in {"idle", "queued"}
  BY DEF TopologyInv, TypeOK, ControlInv, Working, ApplySucceeds, Goto,
     AfterApply, ApplyPC
<1>3. ControlInv'
  BY <1>2 DEF ApplySucceeds, Goto, AfterApply, TopologyInv, TypeOK,
     WorldTypeOK, ControlInv, Working, ApplyPC, Topology, ApplyPC
<1>4. OwnInv'
  BY <1>2 DEF ApplySucceeds, Goto, AfterApply, TopologyInv, TypeOK,
     WorldTypeOK, ControlInv, OwnInv, Owns, Topology, Start, Target, world,
     ApplyPC, Converged
<1>5. SnapshotCurrent'
  BY <1>2 DEF ApplySucceeds, Goto, AfterApply, TopologyInv, TypeOK,
     WorldTypeOK, SnapshotCurrent, world, ControlInv, ApplyPC, Converged
<1>6. PhaseInv'
  BY <1>2 DEF ApplySucceeds, Goto, AfterApply, TopologyInv, TypeOK,
     WorldTypeOK, ControlInv, PhaseInv, Settled, Topology, Target, Ordinals,
     Alive, world, ApplyPC, Converged, OwnInv, Owns, SnapshotCurrent,
     Inventory, LockInv, LockDescribesTopology
<1> QED
  BY <1>1, <1>3, <1>4, <1>5, <1>6 DEF WorkerInv

\* Nothing is known of a command before it has the flock.
LEMMA SubmitInv ==
  ASSUME TopologyInv, NEW w \in Worker, Submit(w)
  PROVE  StorageInv' /\ LockInv' /\ WorkerInv'
<1>1. StorageInv' /\ LockInv'
  BY WorldUnchanged DEF TopologyInv, Submit
<1>2. /\ pc[w] = "idle" /\ pc' = [pc EXCEPT ![w] = "queued"]
      /\ \A v \in Worker \ {w} : cmd'[v] = cmd[v]
      /\ UNCHANGED <<world, inv, own, op, holder>>
  BY DEF Submit, Goto, TopologyInv, TypeOK
<1>3. ControlInv'
  BY <1>2 DEF TopologyInv, TypeOK, ControlInv, Working, ApplyPC, Topology
<1>4. OwnInv'
  BY <1>2 DEF TopologyInv, TypeOK, OwnInv, Owns, Topology, Start, Target, world
<1>5. SnapshotCurrent'
  BY <1>2 DEF TopologyInv, TypeOK, SnapshotCurrent, world
<1>6. PhaseInv'
  BY <1>2 DEF TopologyInv, TypeOK, PhaseInv, Settled, Topology, Target,
              Ordinals, Alive, world
<1> QED
  BY <1>1, <1>3, <1>4, <1>5, <1>6 DEF WorkerInv

\* The flock is taken only when nobody works.
LEMMA AcquireFlockInv ==
  ASSUME TopologyInv, NEW w \in Worker, AcquireFlock(w)
  PROVE  StorageInv' /\ LockInv' /\ WorkerInv'
<1>1. StorageInv' /\ LockInv'
  BY WorldUnchanged DEF TopologyInv, AcquireFlock
<1>2. \A v \in Worker : pc[v] \in {"idle", "queued"}
  BY TopologyAssumption DEF TopologyInv, TypeOK, ControlInv, Working, AcquireFlock
<1>3. /\ pc' = [pc EXCEPT ![w] = "load"] /\ holder' = w
      /\ UNCHANGED <<world, inv, own, op, cmd>>
  BY DEF AcquireFlock, Goto
<1>4. ControlInv'
  BY <1>2, <1>3 DEF TopologyInv, TypeOK, ControlInv, Working, ApplyPC, Topology
<1>5. OwnInv' /\ SnapshotCurrent' /\ PhaseInv'
  BY <1>2, <1>3 DEF TopologyInv, TypeOK, OwnInv, Owns, SnapshotCurrent, PhaseInv,
                    Settled
<1> QED
  BY <1>1, <1>4, <1>5 DEF WorkerInv

\* A failing apply ends its command, except that a database change goes on to
\* its finally block with the lock still its own.
LEMMA RaiseInv ==
  ASSUME TopologyInv, NEW w \in Worker, Raise(w)
  PROVE  StorageInv' /\ LockInv' /\ WorkerInv'
<1>1. CASE pc[w] # "working"
  BY <1>1, FinishInv DEF Raise
<1>2. CASE pc[w] = "working"
  <2>1. /\ pc' = [pc EXCEPT ![w] = "reload"] /\ op' = [op EXCEPT ![w] = "off"]
        /\ UNCHANGED <<world, inv, own, holder, cmd>>
    BY <1>2 DEF Raise, Goto
  <2>2. StorageInv' /\ LockInv'
    BY <2>1, WorldUnchanged DEF TopologyInv
  <2>3. \A v \in Worker \ {w} : pc[v] \in {"idle", "queued"}
    BY <1>2 DEF TopologyInv, TypeOK, ControlInv, Working
  <2>4. ControlInv'
    BY <1>2, <2>1, <2>3
       DEF TopologyInv, TypeOK, WorldTypeOK, ControlInv, Working, ApplyPC, Topology
  <2>5. OwnInv'
    BY <1>2, <2>1, <2>3
       DEF TopologyInv, TypeOK, OwnInv, Owns, Topology, world
  <2>6. SnapshotCurrent' /\ PhaseInv'
    BY <1>2, <2>1, <2>3
       DEF TopologyInv, TypeOK, SnapshotCurrent, PhaseInv, Settled
  <2> QED
    BY <2>2, <2>4, <2>5, <2>6 DEF WorkerInv
<1> QED
  BY <1>1, <1>2

-----------------------------------------------------------------------------
(* Terraform's steps.                                                       *)

\* What TypeOK says of the counts, in the form the arithmetic needs.
LEMMA Numbers ==
  ASSUME TopologyInv
  PROVE  /\ Shard \subseteq Nat
         /\ spec \in Nat
         /\ vault.shard_count \in Nat /\ vault.storage_shard_count \in Nat
         /\ \A w \in Worker :
              /\ inv[w].shard_count \in Nat /\ inv[w].storage_shard_count \in Nat
              /\ Target(w) \in Nat /\ Start(w) \in Nat
BY MaxShardsAssumption
   DEF TopologyInv, TypeOK, WorldTypeOK, Shard, Size, Inventory, LockData, Target,
       Start

\* While the worker of an apply runs, the others hold nothing.
LEMMA Alone ==
  ASSUME TopologyInv, NEW w \in Worker, op[w] # "off"
  PROVE  /\ pc[w] \in ApplyPC
         /\ \A v \in Worker \ {w} : pc[v] \in {"idle", "queued"} /\ op[v] = "off"
BY DEF TopologyInv, TypeOK, ControlInv, Working, ApplyPC

\* An apply that touches the world is given an inventory whose storage covers
\* the live shards, and whose shard count the recorded storage covers.
LEMMA SyncCovers ==
  ASSUME TopologyInv, NEW w \in Worker, Syncing(w)
  PROVE  /\ inv[w].shard_count <= inv[w].storage_shard_count
         /\ inv[w].shard_count <= vault.storage_shard_count
         /\ spec <= inv[w].storage_shard_count
         /\ \A i \in Shard : Alive(i) => i < inv[w].storage_shard_count
<1>1. pc[w] \in ApplyPC
  BY Alone DEF Syncing
<1>2. CASE pc[w] \in {"acquiring", "working", "applying", "releasing"}
  <2>1. inv[w] = vault
    BY <1>2 DEF TopologyInv, SnapshotCurrent
  <2> QED
    BY <2>1 DEF TopologyInv, StorageInv
<1>3. CASE pc[w] = "staging"
  <2>1. /\ inv[w].shard_count = vault.shard_count
        /\ vault.storage_shard_count <= inv[w].storage_shard_count
    BY <1>3 DEF TopologyInv, SnapshotCurrent, PhaseInv
  <2> QED
    BY <2>1, Numbers DEF TopologyInv, StorageInv
<1>4. CASE pc[w] = "scaling"
  <2>1. /\ inv[w].shard_count = Target(w)
        /\ inv[w].storage_shard_count = vault.storage_shard_count
    BY <1>4 DEF TopologyInv, SnapshotCurrent, PhaseInv
  <2>2. CASE cmd[w].kind = "AddShard"
    BY <1>4, <2>1, <2>2 DEF TopologyInv, StorageInv, PhaseInv
  <2>3. CASE cmd[w].kind = "DeleteShard"
    <3>1. /\ lock = own[w] /\ lock.category = "topology"
          /\ lock.action = "DeleteShard"
      BY <1>4, <2>3 DEF TopologyInv, OwnInv, Owns, Topology
    <3>2. Target(w) < Start(w) /\ vault.shard_count \in {Start(w), Target(w)}
      BY <3>1 DEF TopologyInv, LockInv, LockDescribesTopology, Target, Start
    <3> QED
      BY <2>1, <3>2, Numbers DEF TopologyInv, StorageInv
  <2> QED
    BY <1>4, <2>2, <2>3 DEF TopologyInv, ControlInv, Topology
<1>5. CASE pc[w] = "trimming"
  <2>1. /\ inv[w].shard_count = vault.shard_count
        /\ inv[w].storage_shard_count = Target(w)
        /\ spec = Target(w) /\ vault.shard_count = Target(w)
        /\ \A i \in Shard : Alive(i) => i < Target(w)
    BY <1>5 DEF TopologyInv, SnapshotCurrent, PhaseInv, Settled
  <2> QED
    BY <2>1, Numbers DEF TopologyInv, StorageInv
<1> QED
  BY <1>1, <1>2, <1>3, <1>4, <1>5 DEF ApplyPC

\* The storage steps touch the volumes alone.
LEMMA VolumeStepInv ==
  ASSUME TopologyInv, NEW w \in Worker, PrepareVolume(w) \/ CleanupVolume(w),
         UNCHANGED control
  PROVE  StorageInv' /\ LockInv' /\ WorkerInv'
<1>1. UNCHANGED <<vault, spec, shards, lock, inv, own, op, control>>
  BY DEF PrepareVolume, CleanupVolume
<1>2. LockInv' /\ WorkerInv'
  BY <1>1 DEF TopologyInv, LockInv, LockDescribesTopology, WorkerInv, ControlInv,
     Working, Topology, OwnInv, Owns, Start, Target, SnapshotCurrent, PhaseInv,
     Settled, Ordinals, Alive, control
<1>3. CASE PrepareVolume(w)
  <2>1. volumes \subseteq volumes'
    BY <1>3 DEF PrepareVolume
  <2> QED
    BY <1>1, <1>2, <2>1
       DEF TopologyInv, StorageInv, StorageUnderShards, Ordinals, Alive
<1>4. CASE CleanupVolume(w)
  <2>1. PICK i \in volumes \ Ordinals(inv[w].storage_shard_count) :
               volumes' = volumes \ {i}
    BY <1>4 DEF CleanupVolume
  <2>2. i \in Shard /\ i \in Nat
    BY <2>1, Numbers DEF TopologyInv, TypeOK, WorldTypeOK
  <2>3. ~(i < inv[w].storage_shard_count)
    BY <2>1, <2>2, Numbers DEF Ordinals
  <2>4. spec <= inv[w].storage_shard_count
        /\ \A j \in Shard : Alive(j) => j < inv[w].storage_shard_count
    BY <1>4, SyncCovers DEF CleanupVolume
  <2>5. i \notin Ordinals(spec)
    BY <2>2, <2>3, <2>4, Numbers DEF Ordinals
  <2>6. ~Alive(i)
    BY <2>2, <2>3, <2>4
  <2> QED
    BY <1>1, <1>2, <2>1, <2>5, <2>6
       DEF TopologyInv, StorageInv, StorageUnderShards, Ordinals, Alive
<1> QED
  BY <1>3, <1>4

\* The live shard count moves only to the target of the lock that is held.
LEMMA UpdateShardCountInv ==
  ASSUME TopologyInv, NEW w \in Worker, UpdateShardCount(w), UNCHANGED control
  PROVE  StorageInv' /\ LockInv' /\ WorkerInv'
<1>1. /\ spec' = inv[w].shard_count /\ spec # inv[w].shard_count
      /\ Ordinals(inv[w].storage_shard_count) \subseteq volumes
      /\ Syncing(w)
      /\ UNCHANGED <<vault, volumes, shards, lock, inv, own, op, control>>
  BY DEF UpdateShardCount
<1>2. /\ inv[w].shard_count <= inv[w].storage_shard_count
      /\ inv[w].shard_count <= vault.storage_shard_count
  BY <1>1, SyncCovers
<1>3. /\ pc[w] \in ApplyPC
      /\ \A v \in Worker \ {w} : pc[v] \in {"idle", "queued"} /\ op[v] = "off"
  BY <1>1, Alone DEF Syncing
<1>4. StorageInv'
  <2>1. Ordinals(inv[w].shard_count) \subseteq volumes
    BY <1>1, <1>2, Numbers DEF Ordinals
  <2> QED
    BY <1>1, <1>2, <2>1
       DEF TopologyInv, StorageInv, StorageUnderShards, Ordinals, Alive
<1>5. pc[w] # "scaling" => inv[w].shard_count = vault.shard_count
  BY <1>3 DEF TopologyInv, SnapshotCurrent, ApplyPC
<1>6. pc[w] = "scaling" =>
        /\ lock = own[w] /\ lock.category = "topology"
        /\ inv[w].shard_count = lock.target_shards
  BY DEF TopologyInv, ControlInv, OwnInv, Owns, PhaseInv, Topology, Target
<1>7. LockInv'
  BY <1>1, <1>5, <1>6 DEF TopologyInv, LockInv, LockDescribesTopology, Alive
<1>8. ControlInv' /\ OwnInv' /\ SnapshotCurrent'
  BY <1>1 DEF TopologyInv, ControlInv, Working, Topology, OwnInv, Owns, Start,
              Target, SnapshotCurrent, control
<1>9. PhaseInv'
  <2>1. ~Settled(w)
    BY <1>1, <1>5 DEF TopologyInv, PhaseInv, Settled
  <2> QED
    BY <1>1, <1>3, <2>1
       DEF TopologyInv, PhaseInv, Settled, Topology, Target, Ordinals, Alive, control
<1> QED
  BY <1>4, <1>7, <1>8, <1>9 DEF WorkerInv

\* Vault moves only in the three applies that change the inventory.
LEMMA WriteMetadataInv ==
  ASSUME TopologyInv, NEW w \in Worker, WriteMetadata(w), UNCHANGED control
  PROVE  StorageInv' /\ LockInv' /\ WorkerInv'
<1>1. /\ spec = inv[w].shard_count /\ vault # inv[w] /\ vault' = inv[w]
      /\ Syncing(w)
      /\ UNCHANGED <<spec, volumes, shards, lock, inv, own, op, control>>
  BY DEF WriteMetadata
<1>2. /\ inv[w].shard_count <= inv[w].storage_shard_count
      /\ spec <= inv[w].storage_shard_count
      /\ \A i \in Shard : Alive(i) => i < inv[w].storage_shard_count
  BY <1>1, SyncCovers
<1>3. /\ pc[w] \in {"staging", "scaling", "trimming"}
      /\ \A v \in Worker \ {w} : pc[v] \in {"idle", "queued"} /\ op[v] = "off"
  BY <1>1, Alone DEF Syncing, TopologyInv, SnapshotCurrent, ApplyPC
<1>4. StorageInv'
  BY <1>1, <1>2 DEF TopologyInv, StorageInv, StorageUnderShards, Ordinals, Alive
<1>5. /\ lock = own[w] /\ lock.category = "topology"
      /\ lock.target_shards = Target(w)
  BY <1>3 DEF TopologyInv, ControlInv, OwnInv, Owns, Topology, Target
<1>6. pc[w] = "scaling" => inv[w].shard_count = lock.target_shards
  BY <1>5 DEF TopologyInv, PhaseInv
<1>7. pc[w] # "scaling" => inv[w].shard_count = vault.shard_count
  BY <1>3 DEF TopologyInv, SnapshotCurrent
<1>8. LockInv'
  BY <1>1, <1>5, <1>6, <1>7
     DEF TopologyInv, LockInv, LockDescribesTopology, Alive
<1>9. ControlInv' /\ OwnInv'
  BY <1>1 DEF TopologyInv, ControlInv, Working, Topology, OwnInv, Owns, Start,
              Target, control
<1>10. SnapshotCurrent'
  BY <1>1, <1>3 DEF SnapshotCurrent, control
<1>11. PhaseInv'
  <2>1. pc[w] = "staging" => inv[w].storage_shard_count = Target(w)
    BY DEF TopologyInv, PhaseInv
  <2>2. pc[w] = "scaling" => inv[w].storage_shard_count = vault.storage_shard_count
    BY DEF TopologyInv, SnapshotCurrent
  <2>3. pc[w] = "trimming" => inv[w].shard_count = Target(w)
    BY <1>7 DEF TopologyInv, PhaseInv, Settled
  <2> QED
    BY <1>1, <1>3, <2>1, <2>2, <2>3, Numbers
       DEF TopologyInv, PhaseInv, Settled, Topology, Target, Ordinals, Alive, control
<1> QED
  BY <1>4, <1>8, <1>9, <1>10, <1>11 DEF WorkerInv

\* The new lock describes the topology it is taken over.
LEMMA CreateLockInv ==
  ASSUME TopologyInv, NEW w \in Worker, CreateLock(w), UNCHANGED control
  PROVE  StorageInv' /\ LockInv' /\ WorkerInv'
<1>1. /\ op[w] = "acquire" /\ lock = NoLock /\ lock' = own[w]
      /\ op' = [op EXCEPT ![w] = "sync"]
      /\ UNCHANGED <<vault, spec, volumes, shards, inv, own, control>>
  BY DEF CreateLock
<1>2. /\ pc[w] = "acquiring"
      /\ \A v \in Worker \ {w} : pc[v] \in {"idle", "queued"} /\ op[v] = "off"
  BY <1>1, Alone DEF TopologyInv, ControlInv, ApplyPC
<1>3. StorageInv'
  BY <1>1 DEF TopologyInv, StorageInv, StorageUnderShards, Ordinals, Alive
<1>4. own[w].start_shards = vault.shard_count /\ spec = vault.shard_count
  BY <1>1, <1>2 DEF TopologyInv, OwnInv, SnapshotCurrent, LockInv,
                    LockDescribesTopology, NoLock
<1>5. \A i \in Shard : Alive(i) => i < vault.shard_count
  BY <1>1 DEF TopologyInv, LockInv, NoLock
<1>6. \/ own[w].category = "database"
      \/ /\ own[w].category = "topology"
         /\ \/ own[w].action = "AddShard" /\ Start(w) < Target(w)
            \/ own[w].action = "DeleteShard" /\ Target(w) < Start(w)
  BY <1>2 DEF TopologyInv, ControlInv, OwnInv, Topology
<1>7. LockInv'
  <2>1. own[w].category = "topology" => Start(w) # Target(w)
    BY <1>6, Numbers
  <2> QED
    BY <1>1, <1>4, <1>5, <1>6, <2>1
       DEF LockInv, LockDescribesTopology, Alive, Start, Target
<1>8. ControlInv'
  BY <1>1, <1>2 DEF TopologyInv, TypeOK, WorldTypeOK, ControlInv, Working,
                    Topology, ApplyPC, control
<1>9. OwnInv'
  BY <1>1, <1>2 DEF TopologyInv, TypeOK, WorldTypeOK, OwnInv, Owns, Topology,
                    Start, Target, control
<1>10. SnapshotCurrent' /\ PhaseInv'
  BY <1>1, <1>2 DEF TopologyInv, SnapshotCurrent, PhaseInv, Settled, control
<1> QED
  BY <1>3, <1>7, <1>8, <1>9, <1>10 DEF WorkerInv

\* Only the owner's lock goes, and a topology lock only when it is settled.
LEMMA DeleteLockSettled ==
  ASSUME TopologyInv, NEW w \in Worker, DeleteLock(w),
         lock.category = "topology"
  PROVE  /\ spec = lock.target_shards /\ vault.shard_count = lock.target_shards
         /\ \A i \in Shard : Alive(i) <=> i < lock.target_shards
<1>1. op[w] \in {"release", "targeted"}
  BY DEF DeleteLock
<1>2. pc[w] = "releasing"
  BY <1>1, Alone DEF TopologyInv, ControlInv, ApplyPC
<1>3. lock = own[w]
  BY <1>1, <1>2 DEF TopologyInv, OwnInv, Owns
<1>4. Settled(w)
  BY <1>1, <1>2, <1>3 DEF TopologyInv, OwnInv, Owns, Settled
<1>5. /\ spec = Target(w) /\ vault.shard_count = Target(w)
      /\ \A i \in Ordinals(Target(w)) : Alive(i)
      /\ \A i \in Shard : Alive(i) => i < Target(w)
  BY <1>2, <1>4 DEF TopologyInv, PhaseInv
<1>6. \A i \in Shard : i < Target(w) => i \in Ordinals(Target(w))
  BY Numbers, MaxShardsAssumption DEF Ordinals, Shard
<1> QED
  BY <1>3, <1>5, <1>6 DEF Target

\* The invariant survives the deletion of a lock by its owner.
LEMMA DeleteLockInv ==
  ASSUME TopologyInv, NEW w \in Worker, DeleteLock(w), UNCHANGED control
  PROVE  StorageInv' /\ LockInv' /\ WorkerInv'
<1>1. /\ op[w] \in {"release", "targeted"} /\ lock' = NoLock
      /\ op' = [op EXCEPT ![w] = IF op[w] = "release" THEN "sync" ELSE "done"]
      /\ UNCHANGED <<vault, spec, volumes, shards, inv, own, control>>
  BY DEF DeleteLock
<1>2. /\ pc[w] = "releasing"
      /\ \A v \in Worker \ {w} : pc[v] \in {"idle", "queued"} /\ op[v] = "off"
  BY <1>1, Alone DEF TopologyInv, ControlInv, ApplyPC
<1>3. StorageInv'
  BY <1>1 DEF TopologyInv, StorageInv, StorageUnderShards, Ordinals, Alive
<1>4. /\ spec = vault.shard_count
      /\ \A i \in Shard : Alive(i) => i < vault.shard_count
  BY DeleteLockSettled DEF TopologyInv, LockInv, LockDescribesTopology
<1>5. LockInv'
  BY <1>1, <1>4 DEF LockInv, LockDescribesTopology, NoLock, Alive
<1>6. ControlInv'
  BY <1>1, <1>2 DEF TopologyInv, TypeOK, WorldTypeOK, ControlInv, Working,
                    Topology, ApplyPC, control
<1>7. OwnInv'
  BY <1>1, <1>2 DEF TopologyInv, TypeOK, WorldTypeOK, OwnInv, Owns, control
<1>8. SnapshotCurrent' /\ PhaseInv'
  BY <1>1, <1>2 DEF TopologyInv, TypeOK, WorldTypeOK, SnapshotCurrent, PhaseInv,
                    Settled, control
<1> QED
  BY <1>3, <1>5, <1>6, <1>7, <1>8 DEF WorkerInv

\* Every resource Terraform changes keeps the invariant.
LEMMA RunApplyInv ==
  ASSUME TopologyInv, NEW w \in Worker, RunApply(w)
  PROVE  StorageInv' /\ LockInv' /\ WorkerInv'
BY VolumeStepInv, UpdateShardCountInv, WriteMetadataInv, CreateLockInv,
   DeleteLockInv
   DEF RunApply, ApplyStep

-----------------------------------------------------------------------------
(* The MongoDB Operator.                                                    *)

\* A StatefulSet appears only below the live shard count, and goes only at or
\* above it.
LEMMA OperatorInv ==
  ASSUME TopologyInv, Operator \/ PodLost
  PROVE  StorageInv' /\ LockInv' /\ WorkerInv'
<1>1. /\ UNCHANGED <<vault, spec, volumes, lock, inv, own, op, holder, pc, cmd>>
      /\ shards' \in [Shard -> {"Absent", "Starting", "Online"}]
      /\ \A i \in Shard : (shards'[i] # "Absent") =>
           Alive(i) \/ i < spec
      /\ \A i \in Shard : Alive(i) => shards'[i] # "Absent" \/ i >= spec
  BY DEF Operator, PodLost, OperatorStep, CreateShard, ShardComesOnline,
         ShardDegrades, RemoveShard, Alive, TopologyInv, TypeOK, WorldTypeOK
<1>2. \A i \in Shard : i < spec => i \in Ordinals(spec)
  BY Numbers, MaxShardsAssumption DEF Ordinals, Shard
<1>3. StorageInv'
  BY <1>1, <1>2, Numbers
     DEF TopologyInv, StorageInv, StorageUnderShards, Ordinals, Alive
<1>4. LockInv'
  <2>1. lock.category = "topology" => spec \in {lock.start_shards, lock.target_shards}
    BY DEF TopologyInv, LockInv, LockDescribesTopology
  <2>2. lock.category # "topology" => spec = vault.shard_count
    BY DEF TopologyInv, LockInv, LockDescribesTopology
  <2> QED
    BY <1>1, <2>1, <2>2 DEF TopologyInv, LockInv, LockDescribesTopology, Alive
<1>5. ControlInv' /\ OwnInv' /\ SnapshotCurrent'
  BY <1>1 DEF TopologyInv, ControlInv, Working, Topology, OwnInv, Owns, Start,
              Target, SnapshotCurrent
<1>6. PhaseInv'
  <2> SUFFICES ASSUME NEW w \in Worker, Settled(w)
               PROVE  /\ pc[w] # "waiting" =>
                           \A i \in Ordinals(Target(w)) : shards'[i] # "Absent"
                      /\ pc[w] \notin {"waiting", "draining"} =>
                           \A i \in Shard : shards'[i] # "Absent" => i < Target(w)
    BY <1>1 DEF TopologyInv, PhaseInv, Settled, Topology, Target, Ordinals, Alive
  <2>1. spec = Target(w)
    BY DEF TopologyInv, PhaseInv
  <2>2. \A i \in Ordinals(Target(w)) : i \in Shard /\ ~(i >= spec)
    BY <2>1, MaxShardsAssumption, Numbers
       DEF Ordinals, Shard, TopologyInv, TypeOK, WorldTypeOK, Size
  <2>3. pc[w] # "waiting" => \A i \in Ordinals(Target(w)) : Alive(i)
    BY DEF TopologyInv, PhaseInv
  <2>4. pc[w] \notin {"waiting", "draining"} =>
          \A i \in Shard : Alive(i) => i < Target(w)
    BY DEF TopologyInv, PhaseInv
  <2> QED
    BY <1>1, <2>1, <2>2, <2>3, <2>4
<1> QED
  BY <1>3, <1>4, <1>5, <1>6 DEF WorkerInv

-----------------------------------------------------------------------------
(* The theorems.                                                            *)

\* Every step of a worker keeps the invariant.
LEMMA WorkerStepInv ==
  ASSUME TopologyInv, NEW w \in Worker, WorkerStep(w)
  PROVE  StorageInv' /\ LockInv' /\ WorkerInv'
<1>1. CASE Decide(w)
  <2>1. CASE RefuseCommand(w)
    BY <2>1, FinishInv DEF RefuseCommand, Refuse
  <2> QED
    BY <1>1, <2>1, ResumeInv, StartTopologyInv, StartDatabaseInv,
       StartFullApplyInv, StartRecoverInv DEF Decide
<1>2. CASE ConfirmRelease(w)
  BY <1>2, FinishInv DEF ConfirmRelease
<1>3. CASE Settle(w)
  BY <1>3, FinishInv DEF Settle
<1> QED
  BY <1>1, <1>2, <1>3, AcquireFlockInv, LoadInventoryInv,
     VerifyLockInv, StageStorageInv, ScaleShardsInv, ShardsReadyInv,
     ShardsDrainedInv, TrimStorageInv, ReloadInventoryInv, ReleaseLockInv,
     RunApplyInv, ApplySucceedsInv DEF WorkerStep

\* Submissions, failures and kills keep the invariant.
LEMMA EnvironmentInv ==
  ASSUME TopologyInv, NEW w \in Worker, Environment(w)
  PROVE  StorageInv' /\ LockInv' /\ WorkerInv'
<1>1. CASE Submit(w)
  BY <1>1, SubmitInv
<1>2. CASE ApplyFails(w)
  BY <1>2, RaiseInv DEF ApplyFails
<1>3. CASE ReadFails(w)
  BY <1>3, FinishInv DEF ReadFails
<1>4. CASE Crash(w)
  BY <1>4, FinishInv DEF Crash
<1> QED
  BY <1>1, <1>2, <1>3, <1>4 DEF Environment

\* The invariant depends on the variables alone.
LEMMA StutterInv ==
  ASSUME TopologyInv, UNCHANGED vars
  PROVE  StorageInv' /\ LockInv' /\ WorkerInv'
<1>1. UNCHANGED <<vault, spec, volumes, shards, lock, inv, own, op, holder, pc, cmd>>
  BY DEF vars, world, control
<1>2. StorageInv' /\ LockInv'
  BY <1>1, WorldUnchanged DEF TopologyInv, world
<1>3. WorkerInv'
  BY <1>1 DEF TopologyInv, WorkerInv, ControlInv, Working, Topology, OwnInv,
     Owns, Start, Target, SnapshotCurrent, PhaseInv, Settled, Ordinals, Alive
<1> QED
  BY <1>2, <1>3

\* The inductive invariant holds in every reachable state.
THEOREM InvariantCorrect == Spec => []TopologyInv
<1>1. TopologyInv /\ [Next]_vars => TopologyInv'
  <2> SUFFICES ASSUME TopologyInv, [Next]_vars PROVE TopologyInv'
    OBVIOUS
  <2>1. TypeOK'
    <3>1. CASE UNCHANGED vars
      BY <3>1 DEF TopologyInv, vars, world, control, TypeOK, WorldTypeOK
    <3> QED
      BY <3>1, WorkerStepType, EnvironmentType, OperatorType DEF Next, TopologyInv
  <2>2. StorageInv' /\ LockInv' /\ WorkerInv'
    BY WorkerStepInv, EnvironmentInv, OperatorInv, StutterInv DEF Next
  <2> QED
    BY <2>1, <2>2 DEF TopologyInv, WorkerInv
<1> QED
  BY <1>1, InitInv, PTL DEF Spec

\* No shard is ever without its volumes, however applies, failures, kills and
\* reruns interleave.
THEOREM StorageCorrect == Spec => []StorageUnderShards
<1>1. TopologyInv => StorageUnderShards
  BY DEF TopologyInv, StorageInv
<1> QED
  BY <1>1, InvariantCorrect, PTL

\* The lock ConfigMap always describes the live and the recorded topology.
THEOREM LockCorrect == Spec => []LockDescribesTopology
<1>1. TopologyInv => LockDescribesTopology
  BY DEF TopologyInv, LockInv
<1> QED
  BY <1>1, InvariantCorrect, PTL

\* No worker ever holds an inventory older than what Vault records.
THEOREM SnapshotCorrect == Spec => []SnapshotCurrent
<1>1. TopologyInv => SnapshotCurrent
  BY DEF TopologyInv
<1> QED
  BY <1>1, InvariantCorrect, PTL

\* A topology lock is removed only by the step that finds its change complete.
LEMMA LockStep ==
  ASSUME TopologyInv, [Next]_vars, lock.category = "topology", lock' # lock
  PROVE  /\ lock' = NoLock
         /\ spec = lock.target_shards /\ vault.shard_count = lock.target_shards
         /\ \A i \in Shard : Alive(i) <=> i < lock.target_shards
<1>1. \A w \in Worker : (WorkerStep(w) \/ Environment(w)) => ApplyStep(w)
  <2> SUFFICES ASSUME NEW w \in Worker, WorkerStep(w) \/ Environment(w),
                      ~RunApply(w)
               PROVE  lock' = lock
    BY DEF RunApply
  <2>1. Environment(w) => lock' = lock
    BY DEF Environment, Submit, ApplyFails, ReadFails, Crash, Raise, Finish, world
  <2>2. Decide(w) => lock' = lock
    BY DEF Decide, Resume, StartTopology, StartDatabase, StartFullApply,
           StartRecover, RefuseCommand, Refuse, Finish, StartApply, world
  <2>3. (VerifyLock(w) \/ StageStorage(w) \/ ScaleShards(w)
           \/ ShardsReady(w) \/ ShardsDrained(w) \/ TrimStorage(w)) => lock' = lock
    BY DEF VerifyLock, StageStorage, ScaleShards, ShardsReady,
           ShardsDrained, TrimStorage, Refuse, Finish, StartApply, Local, world
  <2>4. (ReloadInventory(w) \/ ReleaseLock(w) \/ ConfirmRelease(w) \/ Settle(w)
           \/ AcquireFlock(w) \/ LoadInventory(w) \/ ApplySucceeds(w)) => lock' = lock
    BY DEF ReloadInventory, ReleaseLock, ConfirmRelease, Settle, AcquireFlock,
           LoadInventory, ApplySucceeds, Finish,
           StartApply, world
  <2> QED
    BY <2>1, <2>2, <2>3, <2>4 DEF WorkerStep
<1>2. ~Operator /\ ~PodLost /\ ~UNCHANGED vars
  BY DEF Operator, OperatorStep, PodLost, vars, world
<1>3. PICK w \in Worker : ApplyStep(w)
  BY <1>1, <1>2 DEF Next
<1>4. DeleteLock(w) \/ CreateLock(w)
  BY <1>3 DEF ApplyStep, PrepareVolume, CleanupVolume, UpdateShardCount,
              WriteMetadata
<1>5. DeleteLock(w)
  BY <1>4 DEF CreateLock, NoLock
<1> QED
  BY <1>5, DeleteLockSettled DEF DeleteLock

\* The action property: the lock of an unfinished change stays.
THEOREM LockReleaseCorrect == Spec => LockReleasedWhenSettled
<1>1. TopologyInv /\ [Next]_vars =>
        [(lock.category = "topology" /\ lock' # lock) =>
           /\ lock' = NoLock
           /\ spec = lock.target_shards /\ vault.shard_count = lock.target_shards
           /\ \A i \in Shard : Alive(i) <=> i < lock.target_shards]_vars
  BY LockStep
<1> QED
  BY <1>1, InvariantCorrect, PTL DEF Spec, LockReleasedWhenSettled
=============================================================================
