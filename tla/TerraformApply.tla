--------------------------- MODULE TerraformApply ---------------------------
(***************************************************************************)
(* One `terraform apply` of the controller, seen from one ShardedCluster   *)
(* with persistent static-local storage (terraform-dbaas/*.tf, the script  *)
(* scripts/lifecycle.sh and privateWorkerReplacement/terraform_runner.py). *)
(*                                                                         *)
(* An apply receives the complete inventory the worker holds in memory and *)
(* at most one one-shot operation.  Terraform changes one resource at a    *)
(* time, in any order its dependency graph allows, and may fail after any  *)
(* subset of the changes: an apply is a sequence of steps here, never one  *)
(* atomic assignment.  The MongoDB Operator runs beside it.                *)
(***************************************************************************)
EXTENDS Integers

CONSTANTS
  Worker,          \* the controller processes of the private-worker host
  MaxShards        \* Sharding.max_shards_per_cluster of dev.config

ASSUME MaxShardsAssumption == MaxShards \in Nat \ {0}

VARIABLES
  vault,    \* the cluster's record in the Vault inventory
  spec,     \* spec.shardCount of the live MongoDB custom resource
  volumes,  \* the shard indexes whose persistent volumes exist
  shards,   \* the state of each shard's StatefulSet
  lock,     \* the deployment-lock ConfigMap of the cluster
  inv,      \* inv[w]: the cluster's record in the inventory worker w holds
  own,      \* own[w]: the lock record worker w asks for, then works under
  op        \* op[w]: what is left of the one-shot operation of w's apply

world == <<vault, spec, volumes, shards, lock>>

-----------------------------------------------------------------------------

Size      == 0 .. MaxShards
Shard     == 0 .. MaxShards - 1
Inventory == [shard_count : Size, storage_shard_count : Size]
LockData  == [operation_id  : Nat,
              category      : {"none", "topology", "database"},
              action        : {"none", "AddShard", "DeleteShard", "Database"},
              start_shards  : Size,
              target_shards : Size]

NoInventory == [shard_count |-> 0, storage_shard_count |-> 0]
NoLock      == [operation_id |-> 0, category |-> "none", action |-> "none",
                start_shards |-> 0, target_shards |-> 0]

\* The shards a count of n stands for: MongoDB numbers them from zero.
Ordinals(n) == 0 .. n - 1

Alive(i) == shards[i] # "Absent"

\* wait_sharded_cluster_ready and require_running: every shard Online.
Online(n) == \A i \in Ordinals(n) : shards[i] = "Online"

WorldTypeOK ==
  /\ vault \in Inventory
  /\ spec \in Size
  /\ volumes \in SUBSET Shard
  /\ shards \in [Shard -> {"Absent", "Starting", "Online"}]
  /\ lock \in LockData
  /\ inv \in [Worker -> Inventory]
  /\ own \in [Worker -> LockData]
  /\ op \in [Worker -> {"off", "sync", "acquire", "release", "targeted", "done"}]

\* A cluster that AddShardedCluster has just brought up with n shards.
WorldInit(n) ==
  /\ vault = [shard_count |-> n, storage_shard_count |-> n]
  /\ spec = n
  /\ volumes = Ordinals(n)
  /\ shards = [i \in Shard |-> IF i < n THEN "Online" ELSE "Absent"]
  /\ lock = NoLock
  /\ inv = [w \in Worker |-> NoInventory]
  /\ own = [w \in Worker |-> NoLock]
  /\ op = [w \in Worker |-> "off"]

-----------------------------------------------------------------------------
(* Terraform's steps.  op[w] is "off" when w runs no apply; "acquire" or    *)
(* "release" while the lifecycle operation of the apply is outstanding;     *)
(* "sync" once only the resources of the inventory are left.  A "targeted"  *)
(* apply (RecoverDeploymentLock) touches the lifecycle operation alone.     *)

Syncing(w) == op[w] \in {"sync", "acquire", "release"}

\* terraform_data.sharded_cluster_shard_storage, created: prepare_local_pv.
PrepareVolume(w) ==
  /\ Syncing(w)
  /\ \E i \in Ordinals(inv[w].storage_shard_count) \ volumes :
       volumes' = volumes \cup {i}
  /\ UNCHANGED <<vault, spec, shards, lock, inv, own, op>>

\* terraform_data.sharded_cluster_shard_storage, destroyed: cleanup_local_pv
\* refuses while a pod mounts the claim.  A shard that is not Online may have
\* no pod at all, so the script's check passes for it.
CleanupVolume(w) ==
  /\ Syncing(w)
  /\ \E i \in volumes \ Ordinals(inv[w].storage_shard_count) :
       /\ shards[i] # "Online"
       /\ volumes' = volumes \ {i}
  /\ UNCHANGED <<vault, spec, shards, lock, inv, own, op>>

\* kubernetes_manifest.sharded_cluster depends on all of the shard storage.
UpdateShardCount(w) ==
  /\ Syncing(w)
  /\ Ordinals(inv[w].storage_shard_count) \subseteq volumes
  /\ spec # inv[w].shard_count
  /\ spec' = inv[w].shard_count
  /\ UNCHANGED <<vault, volumes, shards, lock, inv, own, op>>

\* vault_kv_secret_v2.replica_set_metadata depends on the custom resource.
WriteMetadata(w) ==
  /\ Syncing(w)
  /\ Ordinals(inv[w].storage_shard_count) \subseteq volumes
  /\ spec = inv[w].shard_count
  /\ vault # inv[w]
  /\ vault' = inv[w]
  /\ UNCHANGED <<spec, volumes, shards, lock, inv, own, op>>

\* lifecycle.sh acquire_deployment_lock: kubectl create, never apply, so it
\* cannot succeed over an existing ConfigMap.
CreateLock(w) ==
  /\ op[w] = "acquire"
  /\ lock = NoLock
  /\ lock' = own[w]
  /\ op' = [op EXCEPT ![w] = "sync"]
  /\ UNCHANGED <<vault, spec, volumes, shards, inv, own>>

\* lifecycle.sh release_deployment_lock: an absent lock is success, another
\* operation's lock is refused.
DeleteLock(w) ==
  /\ op[w] \in {"release", "targeted"}
  /\ \/ lock = NoLock
     \/ lock.operation_id = own[w].operation_id
  /\ lock' = NoLock
  /\ op' = [op EXCEPT ![w] = IF op[w] = "release" THEN "sync" ELSE "done"]
  /\ UNCHANGED <<vault, spec, volumes, shards, inv, own>>

\* Terraform exits 0 once the plan is carried out.
Converged(w) ==
  \/ op[w] = "done"
  \/ /\ op[w] = "sync"
     /\ volumes = Ordinals(inv[w].storage_shard_count)
     /\ spec = inv[w].shard_count
     /\ vault = inv[w]

ApplyStep(w) ==
  \/ PrepareVolume(w)
  \/ CleanupVolume(w)
  \/ UpdateShardCount(w)
  \/ WriteMetadata(w)
  \/ CreateLock(w)
  \/ DeleteLock(w)

-----------------------------------------------------------------------------
(* The MongoDB Operator, external: what the controller's waits and checks   *)
(* observe of it.                                                           *)

\* A StatefulSet is created for every shard the custom resource asks for.
CreateShard(i) ==
  /\ i < spec
  /\ shards[i] = "Absent"
  /\ shards' = [shards EXCEPT ![i] = "Starting"]

\* Its pods can be scheduled only on prepared storage.
ShardComesOnline(i) ==
  /\ shards[i] = "Starting"
  /\ i < spec /\ i \in volumes
  /\ shards' = [shards EXCEPT ![i] = "Online"]

\* A pod is lost or restarted: readyReplicas falls below replicas.
ShardDegrades(i) ==
  /\ shards[i] = "Online"
  /\ shards' = [shards EXCEPT ![i] = "Starting"]

\* Scale-down: the StatefulSet of a shard no longer asked for goes away.
RemoveShard(i) ==
  /\ i >= spec
  /\ Alive(i)
  /\ shards' = [shards EXCEPT ![i] = "Absent"]

OperatorStep ==
  /\ \E i \in Shard : \/ CreateShard(i)
                      \/ ShardComesOnline(i)
                      \/ RemoveShard(i)
  /\ UNCHANGED <<vault, spec, volumes, lock, inv, own, op>>
=============================================================================
