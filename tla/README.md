# Verification of the private-worker MongoDB controller

TLA+ models, TLC runs and TLAPS proofs of `privateWorkerReplacement`, the
controller that provisions MongoDB ReplicaSets and ShardedClusters through
Terraform, Vault, Kubernetes and the MongoDB Operator, and of the Terraform root
module and lifecycle script it drives (`terraform-dbaas/`).

## 1. The system

A command line (`privateWorkerReplacement.py` for customers,
`privateWorkerReplacementAdmin.py` for administrators) executes commands, most of
them in a detached worker process.  A mutating command

1. takes the host-local *controller-state flock* (`mutation_lock.py`),
2. loads the complete inventory of deployments from Vault (`vault.py`),
3. changes its own part of that inventory in memory,
4. hands the complete inventory, and at most one one-shot operation, to
   `terraform apply` (`terraform_runner.py`), perhaps several times,
5. reads and waits for Kubernetes in between (`kube.py`), and
6. gives the flock back when it ends.

Terraform (with `scripts/lifecycle.sh`) changes volumes, custom resources,
Secrets, Vault records and lock ConfigMaps one resource at a time; the MongoDB
Operator follows the custom resources at its own pace.

| Component | State it keeps | Operations | Hard behaviour | What makes it correct |
|---|---|---|---|---|
| Shard topology, `shards.py` | none of its own: Vault record, custom resource, volumes, lock | AddShard, DeleteShard, resume | partial applies, kills, reruns, waits | storage under every shard; a rerun goes to the recorded target; the lock outlives an unfinished change |
| Deployment lock, `deployment_lock.py`, `lifecycle.sh` | one ConfigMap per ShardedCluster | acquire, verify, release, confirm, `protected_database_change` | create and verify, delete and confirm are separate; the finally block | only its owner removes it, and only when the change is complete |
| Mutation lock, `mutation_lock.py` | a flock | take, drop (also by death) | waiting commands | no worker applies an older inventory over a newer one |
| Terraform apply, `terraform_runner.py`, `*.tf` | Terraform state, the live resources | apply with or without an operation, targeted apply | fails after any prefix, several providers | dependency order |
| Maintenance, `maintenance.py` | none | Reconcile, RecoverDeploymentLock, RecoverOrphanedResources | checks made one after the other before a destructive step | refuses unless the change is provably finished |
| Operation journal, `async_operations.py`, both `main()` | one JSON file per operation, a shared temporary file, transcripts | submit, record pid, mark running, succeeded, failed, archive, list | three processes, no lock, kills between any two writes | no false success, a running worker is visible, a dead one is detected |
| Databases, `databases.py`, `database-accounts.tf` | Vault metadata and credentials, password Secrets, MongoDBUsers | add, delete, rotate, disable and enable Owner | two write-only password sinks, retry, owner policy | both sinks hold the same password when success is reported |
| Deployments, `deployments.py` | custom resources, controller administrators, Vault records | add and delete ReplicaSet and ShardedCluster | adoption of what an interrupted command left, cleanup after the record is gone | a record has its MongoDB; only its own Delete removes it, and only empty |
| Operator artifacts, `operator_artifacts.py` | hook Jobs, agent-auth Secrets | clean up, discover, list orphans | outside Terraform's state, known by their names only | those of a MongoDB that exists are left alone |
| Ops Manager projects, `ops_manager.py` | projects, group Secrets | delete and poll, inventory | deletion is asynchronous; the Secret is named after an id that is gone | the permanent project and those in use are left alone |
| Volume scripts, `lifecycle.sh` | PV, PVC, directory | prepare, clean up | bindings that drifted, pods still mounting, failed reads, several scripts at a time | no volume in use is deleted, no other member's claim |
| Status, `admin_status.py`, `maintenance.py` | none | three planes side by side | the planes disagree in the middle of every command | CLEAN is never said of leftovers |
| CLI, logging, configuration | none | parsing and rendering | none | |

The components meet in four places: the flock (every mutating command), the
Vault inventory (every apply rewrites all of it), the lock ConfigMap (the
commands on one ShardedCluster), and the *name* of a deployment, by which
Terraform, the MongoDB Operator, the Helm hooks and Ops Manager each find
what belongs together.

## 2. Modules

| Module | Models | Extends |
|---|---|---|
| `TerraformApply` | one cluster's world (Vault record, custom resource, volumes, StatefulSets, lock) and the steps of one `terraform apply`, and of the MongoDB Operator, on it | |
| `ShardTopology` | the workers and their commands, over `TerraformApply` | `TerraformApply` |
| `TopologyChange` | abstract: what AddShard and DeleteShard promise of one cluster | |
| `OperationJournal` | the asynchronous operation journal | |
| `DatabaseCredentials` | one database, its accounts and their passwords, and the commands on them | |
| `DatabaseService` | abstract: what the customer of one database relies on | |
| `DeploymentWorld` | every deployment seen from outside: its Terraform resources, Operator artifacts and Ops Manager project | |
| `ManagedInventory` | the inventory of the three planes and the status drawn from it | `DeploymentWorld` |
| `DeploymentLifecycle` | adding, deleting, reconciling and recovering deployments | `ManagedInventory` |
| `DeploymentService` | abstract: the catalogue of deployments users rely on | |
| `StorageCleanup` | the script that removes static-local volumes, call by call | |
| `ShardTopologyProofs`, `TopologyRefinementProofs` | proofs about `ShardTopology`, and that it implements `TopologyChange` | `ShardTopology`, `TLAPS` |
| `DatabaseCredentialsProofs`, `DatabaseCommandProofs` | proofs about `DatabaseCredentials`, and that it implements `DatabaseService` | `DatabaseCredentials`, `TLAPS` |
| `DeploymentLifecycleProofs` | proofs about `DeploymentLifecycle`, and that it implements `DeploymentService` | `DeploymentLifecycle`, `TLAPS` |
| `DeploymentOutcomeProofs` | proofs of what its commands have done when they report success, and of the status | `DeploymentLifecycleProofs` |
| `OperationJournalProofs`, `StorageCleanupProofs` | proofs about these modules | the module, `TLAPS` |
| `MCShardTopology`, `MCOperationJournal` | symmetry for TLC | the above |

How they fit together: `ShardTopology` is the one module with several workers,
and shows that the flock makes commands serial (`SnapshotCorrect`).  Relying on
that, `DatabaseCredentials` looks into one database and `DeploymentLifecycle` at
all deployments with one command at a time, each with the interruptions of
earlier commands.  `TerraformApply` and `DeploymentWorld` are two views of one
Terraform: a cluster's shards from inside, deployments as a whole from outside.
What the first takes as one step, the cleanup of a volume, is `StorageCleanup`.

### TerraformApply

`vault`, `spec`, `volumes`, `shards` and `lock` are the outside world:
the cluster's two counts in Vault (`shard_count`, `storage_shard_count`), the live
`spec.shardCount`, the shard indexes that have persistent volumes, the
StatefulSets, and the lock ConfigMap.  `inv[w]`, `own[w]` and `op[w]` are what
worker `w` hands to Terraform: its inventory, its lock record, and what is left
of the one-shot operation.

An apply is not one step.  `PrepareVolume`, `CleanupVolume`, `UpdateShardCount`,
`WriteMetadata`, `CreateLock` and `DeleteLock` are its resources; their guards are the
`depends_on` of `storage.tf`, `deployments.tf` and `metadata.tf`.  The lifecycle
operation depends on nothing, so it interleaves freely with the rest.  An
apply has converged when nothing is left to change; it may fail before, leaving
whatever it has done.  A *targeted* apply (RecoverDeploymentLock) runs its
lifecycle operation alone.

The volumes of one shard (one per member) are one index here, and
`cleanup_local_pv`, which waits for the pods that mount a claim, is
one step with the guard that the shard is not Online.  A shard that is
*Starting* may have no pod yet, so for the script it may look unused: the guard
deliberately does not protect it, and that no volume is lost has to come from
the order of the workflow.

### ShardTopology

One constant set of workers; each runs one command at a time, and takes a new one when
it has ended.  `pc[w]` names the place in `add_shard`, `delete_shard`,
`protected_database_change`, `reconcile` or `recover_deployment_lock`:

| `pc` | code |
|---|---|
| `queued`, `load` | waiting for the flock, `load_inventory` |
| `decide` | the checks before any change: `Resume`, `StartTopology`, `StartDatabase`, `StartFullApply`, `StartRecover`, `RefuseCommand` |
| `acquiring`, `verify` | `acquire_deployment_lock` |
| `storage`, `staging` | AddShard stage 1 |
| `scale`, `scaling`, `waiting` | the change of `shardCount` and the wait |
| `draining`, `trim`, `trimming` | DeleteShard's `wait_absent` and storage trim |
| `working`, `reload` | a database change and its finally block |
| `applying`, `settling` | a complete-inventory apply (Reconcile, another deployment's command) and its wait |
| `release`, `releasing`, `confirm` | `release_deployment_lock` |

A place that ends in *-ing* and is in `ApplyPC` is inside `apply_inventory`:
Terraform's steps happen there.  Failures (`ApplyFails`, `ReadFails`), kills (`Crash`),
lost pods (`PodLost`) may happen at every such place.  That `lifecycle.sh` or
`acquire_deployment_lock` finds another operation's lock is no action: under
the flock it cannot happen (`OwnInv`).  The command of kind *Other* is any command
on another deployment: it takes the flock, loads everything, and
applies everything, without looking at this cluster's lock.

Abstractions, each of which adds behaviour rather than removing it, unless stated:

- the double-submit guard of the journal is left out: any commands may be queued;
- readiness of config servers and mongos goes with the shards';
- the loop of `wait_absent` over the removed StatefulSets is one check of them
  all (a StatefulSet the resource no longer asks for does not come back while the lock
  is held, so checking them in turn sees the same);
- the second read of the lock in `_resume_or_acquire_lock` (`shards.py:83`) is left
  out: under the flock no other command can have created a lock since the first;
- a kill takes Terraform with it (**removes** behaviour: see section 7).

### OperationJournal

`journal[o]` is `<id>.json`, `temp[o]` is `<id>.json.tmp`.  Each operation has a
foreground process, a worker and a reader; `mine[r, o]` is the dict that process loaded
and will write back, `staged[r, o]` says that it is between `write_text` and
`replace`.  `WriteTemp`, `Replace` and `ReplaceMissing` are the two halves of
`_write_state`, the same for every caller; what follows each save is `AfterSave`,
and the handlers of `main()` are `AfterMissing`.  `Submit` is the guard and
`create_operation`'s dict, `StartWorker`, `StartWorkerFails`, `ReloadForPid` the
rest of `launch_operation`; `MarkRunning`, `ActionEnds`, `MarkSucceeded`,
`MarkFailed` the worker; `ReadOperation`, `ShowOperation` ListOperation.  A record
keeps the three fields a decision depends on: result, pid, transcript archived.
The guard's scan of the journal is one step; a half-written JSON file and a
reused pid are left out.

### DatabaseCredentials

One database of one deployment.  `metadata` is its `_metadata` record in Vault
(`rotation_version`, `owner_disabled`); `credential[a]` and `secret[a]` are the two
places an account's password is written to, each with the version Terraform
last wrote there and the password; `user[a]` is the MongoDBUser; `login[a]` is
what MongoDB itself accepts; `materialized`, whether the database exists there.
A version or a password of 0 stands for "does not exist".

Both sinks are write-only: Terraform writes one when its version is not
the planned one, and cannot see what is in it.  The password is an ephemeral
`random_password`, drawn anew in every apply, so a password is named by the number
of the apply that drew it (`applies`).

`inv` is the database's record in the inventory the command holds, `want` what
`locals.tf` makes of it under the command's operation (`Planned`), `op` what is left
of the one-shot operation.  `WriteMetadata`, `WriteCredential`, `WriteSecret`,
`CreateUser`, `RemoveUser`, `RemoveCredential`, `RemoveSecret`, `RemoveMetadata`,
`ProvisionDatabase`, `DropDatabase`, `VerifyAccounts` and `ChangeLock` are the resources
of an apply, with the `depends_on` of `database-accounts.tf` and `metadata.tf` as guards.

| `pc` | code |
|---|---|
| `load`, `decide` | `load_inventory`; the checks of each command, and the early return of Disable/EnableOwner |
| `acquiring` | the deployment lock of `protected_database_change` (ShardedCluster only) |
| `changing`, `retry` | the first apply: `create_database`, `delete_database`, the rotation and its second attempt, disable, enable |
| `recording` | the second apply of AddDatabase and DeleteDatabase |
| `reload`, `waiting`, `verifying` | the reloaded inventory, `wait_phase`/`wait_absent`, the verification apply |
| `finally`, `releasing` | the finally block, also on the way of an exception (`failing`) |
| `applying`, `settling` | Reconcile, and the complete apply of a command on another deployment (*Other*) |

Abstractions: a command that runs alone (the flock; `SnapshotCorrect` of
`ShardTopologyProofs` is why that is enough), hence one command and no workers.
`Other` ignores this deployment's lock, as in `ShardTopology`.  A resource written just
before Terraform saves its state, so that the state file does not know of it, is
not modelled.  The rotation interval passes at any moment (`Age`).  A stale lock
blocks further commands here; how it arises is `ShardTopology`'s subject.

### DeploymentWorld and ManagedInventory

`tf[n]` is the set of Terraform resources of deployment `n` that exist: its storage,
its custom resource (`replica_set` or `sharded_cluster`), the Vault record
(`metadata`), and the three resources of its controller administrator.  `data[n]`
says that its MongoDB holds a user database, which a failed database command can have
created without Vault knowing.  `health[n]` is what the waits see: not Running,
Running, and *usable*, when the administrator's MongoDBUser is Updated too.
Outside Terraform are the hook Jobs (`jobs`), the agent-auth Secret (`agent`), the
Ops Manager project (`project`), its group Secret (`group`) and a group Secret that
an earlier project of that name has left (`stale`).

`CreateResource` and `DestroyResource` are the steps of an apply, one resource each,
for every deployment that differs from the inventory.  `DependsOn` holds the `depends_on`
and the references between resources; as Terraform joins whole resources, an edge
holds between the instances of all deployments.  `RunOperation` is the lifecycle
operation, which waits for the administrator's login.  The Operator and Ops
Manager are external: `CreateProject`, `CreateAgentSecret`, `BecomeRunning`,
`AdminUpdated` and `ProjectGone` are what the controller's waits, checks and
inventories observe of them.  What is assumed of the two:

- the Operator finds its project by name.  One that has answered 202 and is still
  listed (`deleting`) serves as well as any other: a deployment gets its agent Secret
  and reaches Running in it;
- Ops Manager carries a deletion it answered with 202 out at any later moment, and the
  deployment keeps the phase it had until the Operator notices;
- when the project is missing, the Operator makes a new one, with a new id and a
  group Secret of a new name, and sets the deployment up anew, so it leaves Running;
- a deployment is Running only after its agent Secret exists, and its administrator
  is Updated only while it is Running.

Foreign names are MongoDB resources of the same
namespace that the controller does not manage.

`ManagedInventory` has no action: it is `managed_resource_inventory` and
`_inventory_status` as operators, so that `StatusIsHonest` can be asked at every
step of every command.

### DeploymentLifecycle

| `pc` | code |
|---|---|
| `idle` | between commands; `AddDeployment`, `DeleteDeployment`, `Reconcile`, `NothingToReconcile`, `RecoverOrphanedResources` are the checks and the beginning of the first apply |
| `creating`, `starting`, `verifying` | Add: the apply, the waits, `verify_controller_admin` |
| `validating`, `destroying`, `leaving` | Delete: `validate_deployment_empty`, the apply without it, `wait_absent` |
| `cleaning` | `cleanup_deployment_operator_artifacts` for the keys in `todo` |
| `removing`, `polling` | `delete_project` |
| `converging`, `settling` | Reconcile: the apply, the waits for one deployment after the other |
| `emptying`, then `cleaning` | RecoverOrphanedResources |

`ManageDatabase` stands for AddDatabase and DeleteDatabase: all that the rest of the
life of a deployment sees of them is data, a record in Vault, the Job of a failed
hook and the lock of a killed command.  `Interrupted` is a failure, a timeout or a kill
at any place; `PodLoss` makes a deployment leave Running.

Abstractions: one command at a time, as for `DatabaseCredentials`.  The resources of
databases (Helm releases, MongoDBUsers, Secrets) appear only through
`ManageDatabase`, and it runs only when nothing of a removed deployment is left for
its apply to carry off.  The two hook Jobs and their pods are one object.  The
`lower()` and prefix rules that turn names into keys are left out (section 7).

### DeploymentService, DatabaseService and TopologyChange

The abstract specifications.  `DeploymentService`: a catalogue in which a deployment
keeps its type until it leaves, leaves only without data, and holds data only while
it is listed.  `TopologyChange`: one change between two counts at a time, during
which only the shards between its two ends come and go, and which is over only when
exactly the target's shards are there.  `DatabaseService`: commands asked for one at a
time and answered, and for each account at most one *valid* password, which only a
rotation (asked for as such) or a deletion takes away; only the password drawn last can become valid, so
an old one never does again; the Owner policy moves only as its commands say; and a success is
answered only when what it says is so.  `DeploymentLifecycle!ServiceSpec`, `DatabaseCredentials!ServiceSpec`
and `ShardTopology!TopologyChangeSpec` are their instances.  The catalogue is what
`load_inventory` would read; `count` is the Vault record, `live` the StatefulSets, and
`change` the two counts in a topology lock.  A password is valid when both sinks hold it at the
recorded version (`Valid`), which is when what Vault shows is also what MongoDB is given.

### StorageCleanup

`cleanup_local_pv`, one `kubectl` call per step, for several volumes at a time:

| `pc` | call |
|---|---|
| `exists` | `get mongodb`: does the cluster live? |
| `claim` | `get pv`, and which claim to go for |
| `bound` | `get pvc`, twice |
| `users` | `pvc_users` until nobody mounts the claim |
| `delete_pvc`, `wait_pvc`, `delete_pv`, `wait_pv` | the deletions and the waits |
| `erase` | `rm -rf` on the storage node |

A read whose exit status decides nothing is `Reads(answer, empty)`: the true answer, or,
as a fault, the empty one.  Kubernetes goes on between any two calls: pods end, members that stay
lose their pods and get them again, and finalizers hold back what is in use.
A claim is named by the volume prepared for it; `Init` has every binding of claims to
volumes, as volumes made before the prebinding may be bound crosswise.

## 3. Runs

All runs use `CHECK_DEADLOCK FALSE`: the system stops when no command is left to
submit.

| Run | Question | Bounds |
|---|---|---|
| `topology_safety` | Do storage, lock, snapshots and releases stay consistent whatever interleaves, fails or dies? Is it one change at a time (`TopologyChange`)? | 2 workers, at most 4 shards, 3 at the start, COUNT 1 or 2, 3 commands of 6 kinds, 2 faults |
| `topology_live` | Does every command end, does a rerun complete? | at most 3 shards, 2 at the start, COUNT 1, 3 kinds, 2 faults, no symmetry |
| `journal_races` | May the processes of one operation mislead the administrator, and does every accepted command end in the journal? | 1 operation, 1 kill |
| `journal_guard` | Does the guard hold a second command back while a worker runs? | 2 operations, 1 kill of either side |
| `credentials_safety` | Is what a database command reports so in Vault, Kubernetes and MongoDB, with the deployment lock and its finally block around it, and does a valid password stay so (`DatabaseService`)? | ShardedCluster, 2 accounts, 3 commands of 7 kinds, 2 faults |
| `credentials_live` | Without a lock: do rotation and deletion succeed from whatever a failure leaves? | ReplicaSet, 1 account, 3 commands of 7 kinds, 2 faults |
| `deployment_lifecycle` | Is nothing in use removed, does no apply get stuck, is what a command reports so on every plane, does the status tell, does an accepted command complete, and is it all a catalogue (`DeploymentService`)? | a deployed cluster `a`, the permanent project's name `p`, an unmanaged MongoDB `f`; 3 commands of 5 kinds, 2 faults |
| `storage_cleanup` | Do concurrent cleanup scripts remove what may go, and nothing else? | 2 volumes, one of them trimmed, every binding, 2 failed calls |

Why the bounds are enough.  An interrupted change needs one command and one fault,
its rerun or recovery a second command and a fault of its own, and a command of
another kind in between a third: three commands and two faults cover
*interrupt, disturb, resume, interrupt again*.  More than two workers only add
to the queue for the flock.  Three of at most four shards allow an addition and one
that exceeds the limit, a deletion of one and of two shards, so that several
StatefulSets drain, one that would leave no shard, and a rerun with another COUNT.
The proofs of section 5 have none of these bounds.

For a database: a partial rotation, what disturbs it, and its rerun are three
commands; two faults are the two failed attempts of a rotation, or a
failure of each of two commands.  Two accounts tell the Owner from the others, and let one
account's password be written while another's is not; a third adds nothing to the
guards, which are all "every account" or "this account".  One account is enough for
liveness, where the Owner is the one that may be disabled.

For the lifecycle: what an interrupted command leaves, what disturbs it or adopts
it, and the way back are three commands, of which two may be interrupted.  `a` is
up at the start, so that a Delete, a Reconcile and a database command have
something to work on at once; `p` can be added, which makes a second deployment, of
either type, beside `a`, and one with the most awkward name; `f` is what no command may touch.
A third managed name adds no guard that two do not reach: a command looks at its own
name or at all of them.

For the scripts: with two volumes there is one whose claim the other one's script can
hold, and every way to bind them; trimmed or torn down, each script may meet the
other's claim.  Two faults are the two failed calls that `NeverUnderPod` says it takes, so the
run shows that the bound there is exact.

What the safety properties say:

- `StorageUnderShards`: every shard that is asked for, and every StatefulSet still
  there, has its volumes.
- `LockDescribesTopology`: a topology lock has the live and the recorded count at one of
  its two ends, never the record ahead of the resource; without one the
  two agree.  It is what makes resume and recovery sound.
- `SnapshotCurrent`: a worker's inventory differs from Vault at most in the field its
  current apply changes, which is the purpose of the mutation lock.
- `LockReleasedWhenSettled`: a topology lock only goes away when its target is recorded and
  live and the StatefulSets are exactly the target's.
- `RunningIsVisible`, `InterruptedIsDead`, `SuccessIsReal`, `EndedIsUnblocked`,
  `SecondIsHeldBack`: what an administrator and the double-submit guard may
  conclude from a record.
- `SinksConverge`, `MetadataLeads`: what a reported AddDatabase or RotatePasswords means for the
  two write-only passwords, and why a rerun can always tell what to write.
- `OwnerAsReported`, `OwnerStaysOut`: the Owner policy, told by the record, Kubernetes and MongoDB
  together; only EnableOwner brings the account back.  The first
  speaks of the commands that apply, not of the early return of Disable/EnableOwner (see below).
- `DeletedIsGone`, `DatabaseFirst`: a reported DeleteDatabase leaves nothing, and no account is
  recorded for a database that was never created.
- `TopologyChangeSpec`, `ServiceSpec` (of deployments, and of a database): the refinements.  The
  last says in particular that no retry, verification, release, Reconcile or command elsewhere ever
  replaces a password the customer can use.
- `RecordedIsLive`, `RecordKept`: no record without its MongoDB and storage, at any step of
  any apply, and none removed by another command than the Delete of that name.
- `ApplyGoesOn`: what interrupted commands left is never such that an apply can neither create nor
  destroy what is in its way, neither for the order of dependencies across deployments nor for a MongoDB
  that already exists.
- `InUseKept`: cleanups that go by names leave alone what a MongoDB that exists runs on, and
  the permanent project even when a deployment has its name.
- `AddedIsFresh`: what an Add hands out never holds a database of an earlier deployment of that name,
  in MongoDB or in Vault, even when it adopts the MongoDB and the volumes of a Delete that stopped
  half-way; and as long as no command failed its project is not on its way out, which
  the Add itself does not look at: the polling of the Delete before it sees to that.
- `DeletionIsComplete`, `RecoveredIsClean`: what a reported success means
  on all planes, also when an earlier command was interrupted in the middle.
- `StatusIsHonest`: CLEAN is said of no leftovers, at no step of any interrupted command, and
  attention is not asked for between commands when nothing went wrong (a deployment with the permanent
  project's name aside).
- `AcceptedCompletes` (liveness): whatever earlier commands left half done, a command that
  passed its checks completes once nothing fails any more.
- `NeverUnderPod`, `MemberClaimKept`: how many failed calls it takes before a directory goes
  under a pod (two), or the claim of a member that stays goes (one).
- `ReleasedIsErased` (liveness): a volume that may go goes for good, wherever earlier runs
  of its script stopped.

### Runs that are expected to fail

Each checks one sentence of the repository, which the code does not keep:

| Run | The text | What happens |
|---|---|---|
| `no_false_failure` | `async_operations.py:101`, `:366` | two processes share one temporary file name |
| `reconcile_converges` | `maintenance.py:370` "verify convergence" | an AddDatabase that wrote one of an account's two passwords, then Reconcile: it writes the other sink with another password (a rotation that stops half-way does the same) |
| `delete_leaves_nothing` | `deployments.py:451-453` "Teardown is not complete until the project and its [...] group-secret are both gone" | a Delete stops while it polls (`ops_manager.py:331`); an Add takes over the project before Ops Manager deletes it; the next Delete finds it gone (`ops_manager.py:194`), reports success, and its Secret stays |
| `live_never_reinterpreted` | `tests/test_lifecycle_script.py:701` "A live cluster must never reinterpret a mismatched PV as safe", `lifecycle.sh:316` | a failed `get mongodb` (`lifecycle.sh:340`) counts as an absent cluster, and the claim of a member that stays is deleted |

More statements the models contradict have no run of their own:

- `shards.py:124` "The deployment lock remains in place": the release apply can delete the
  ConfigMap and fail afterwards, or the confirming read can fail; the rerun the message asks for then
  starts a second change.
- `maintenance.py:15` "a broad Terraform apply must not race with an
  AddShard/DeleteShard/database operation": Reconcile checks the locks of all deployments, but a
  command on another deployment applies a locked cluster's half-made change.
- `async_operations.py:165` "detecting a worker that disappeared early": when foreground and
  worker both die before a pid is recorded, the record reads In Progress for ever, and the guard
  blocks the deployment.  That is why `UnblockedCorrect` has a hypothesis.
- `databases.py:556` "is already Disabled": Terraform writes the metadata before it removes the
  Owner's MongoDBUser.  A DisableOwner that fails in between is believed by its rerun (line 555), which
  changes nothing, so MongoDB accepts the Owner until another command applies the inventory.
- `async_operations.py:454-455` "no longer running before a terminal result was recorded":
  ListOperation reads a record, its worker records Succeeded and ends, and ListOperation looks for the
  process (line 463): it says Interrupted and writes the old record over the result, for good.
- `maintenance.py:667` "Status: Clean": RecoverOrphanedResources prints it while an orphaned project
  or group Secret remains, which ListManagedResources shows right afterwards.  Its discovery
  takes every agent-auth Secret of the namespace for its own (`operator_artifacts.py:251`), so with an
  unmanaged MongoDB that has one it cannot succeed at all: it stops at the live resource.
- `ops_manager.py:166` "so retries are safe": a rerun of Delete does not get there, because its
  record is gone (`require_deployment`); only a new Add and Delete removes the project.
- `deployments.py:257-292`: an Add waits for phases and does not look at the project.  After a Delete
  that was stopped while it polled, it reports success in a project that Ops Manager still has to
  delete, which is why `AddedIsFresh` speaks of projects only while nothing has failed.
- A deployment with the name of the permanent project can be added; its Delete destroys it
  and then always fails at `delete_project`, and the status asks for attention as long as it is there.
- `deployment_lock.py:251` "ordinary command failures should not leave a stale lock": the acquire
  apply runs before the `try` (line 261), so an apply that fails after it has created the
  ConfigMap, or a failed verification read, leaves the database lock, and
  RecoverDeploymentLock refuses database locks (`maintenance.py:493`).
- `databases.py:615` "without rotating its password": EnableOwner after a rotation that failed
  behind its metadata writes the passwords that are still missing, as Reconcile does.
- `README-privateWorkerReplacement.md:657` "rotates [...] and verifies authentication": `wait_phase`
  accepts the *Updated* of the previous password (`kube.py:148`), and the login uses the
  Operator's connection Secret, so both checks pass while MongoDB has only the old password.
- `async_operations.py:295` "the parent never overwrites a Succeeded/Failed result": the worker may
  finish between the parent's reload (line 299) and its write (line 304).

## 4. Fairness

`ShardTopology!FairSpec`: weak fairness of each worker's own steps and of the
Operator.  A worker is a sequential program that blocks only on the flock
and on waits; the kernel hands a freed flock to a waiter, so with at most
`MaxCommands` commands no worker starves (a step of the worker is enabled
continuously once the last holder has ended).  A wait that times out is a fault:
within the fault budget it may always happen, beyond it the timeout is taken
to be longer than the Operator needs.  No fairness is assumed of
submissions, failures, kills or lost pods.  `ResumeCompletes` is stated for
`faults = MaxFaults`, the state in which nothing fails any more.

`OperationJournal!FairSpec`: weak fairness of the foreground's and of the
worker's steps, as long as they live; the business action ends, well or badly.

`DatabaseCredentials!FairSpec`: weak fairness of the command with its Terraform, and of the
MongoDB Operator; a submitted command is one sequential program, and Terraform under it
ends.  None of submissions, faults, kills or the passing of the interval.  Both liveness
properties are stated for `faults = MaxFaults`.

`DeploymentLifecycle!FairSpec`: weak fairness of the running command with its Terraform, and of
the Operator and Ops Manager together: they reconcile until there is nothing left to do.
`AcceptedCompletes` is stated for `faults = MaxFaults`, and for a Delete of a MongoDB that is empty
and does not have the permanent project's name.

`StorageCleanup!FairSpec`: weak fairness of every script on its own, as Terraform runs them
in parallel, and of what Kubernetes does at the end of a pod or once a finalizer has nothing to hold
back.  None of failures, reruns or pods that start.

## 5. Proofs

`ShardTopologyProofs` proves for every set of workers, every `MaxShards`, every set of
counts and kinds and every bound on commands and faults:

- `TypeCorrect`: `Spec => []TypeOK`
- `InvariantCorrect`: `Spec => []TopologyInv`
- `StorageCorrect`, `LockCorrect`, `SnapshotCorrect`: the three safety invariants
- `LockReleaseCorrect`: `Spec => LockReleasedWhenSettled`

The only assumptions are `MaxShardsAssumption` (at least one shard is allowed) and
`TopologyAssumption` (the kinds are kinds, counts are positive, the initial count
is within the limit).

`StorageUnderShards` is not inductive: whether an apply may trim a volume depends
on the inventory of the worker that runs it, hence on the flock, on what that worker has
waited for, and on what the lock says.  `TopologyInv` adds

- `ControlInv`: at most the holder of the flock works, and its apply and its kind fit
  its place;
- `StorageInv`: live and recorded shards are within the *recorded* storage count, so
  that any replay of the Vault record keeps their volumes;
- `LockInv`: the shape of the lock, and that no StatefulSet exists beyond both
  its ends;
- `OwnInv`: at which places the lock ConfigMap is the worker's own, so nobody else can
  remove it;
- `SnapshotCurrent`, itself part of the argument;
- `PhaseInv`: what a change has established at each place (after the wait all target
  shards are up; after the drain nothing is above the target).

The preservation proof has one lemma per action (`ResumeInv`, `StartTopologyInv`,
...), each with the conjuncts it can disturb.  `SyncCovers` is the heart: whatever the
place, the inventory a running apply converges to covers with storage every live shard
and every recorded one.  `DeleteLockSettled` gives `LockReleaseCorrect`.

`TopologyRefinementProofs` adds `ChangeCorrect`: `Spec => TopologyChangeSpec`, under the same
assumptions.  `ChangeInv` says in addition that the shards below both ends of the pending change, or
below the recorded count when none is pending, are all there; every step then maps to a step of `TopologyChange` or to a stutter: acquiring a topology
lock to `Begin`, the Operator's steps to `AddOrRemove`, the metadata to `Record`, removing
the lock to `Complete`.

`DatabaseCredentialsProofs` proves for every set of accounts, either type of deployment,
every set of kinds and every bound (`CredentialAssumption` says only that the Owner is one
of the accounts and the constants have their types):

- `TypeCorrect`: `Spec => []TypeOK`
- `InvariantCorrect`: `Spec => []CredentialInv`
- `MetadataCorrect`: `Spec => []MetadataLeads`
- `SinksCorrect`: `Spec => SinksConverge`

That the two passwords agree when success is reported follows from how the command got
there.  `PlanInv` says where the inventory it holds is what Vault records, so that an
attempt of a rotation plans a version above every version written so far
(`MetadataLeads`); `FreshInv` that while this version is being written, every password that
has it is of the apply that runs; `ConvergedAgree` that both are therefore the same once
Terraform has converged; `AgreeInv` carries that through reload, wait, verification and
release, all of which plan what Vault records and so write nothing.

`DatabaseCommandProofs` builds on that, under the same assumptions:

- `OwnerCorrect`, `OwnerOutCorrect`: `Spec => OwnerAsReported`, `Spec => OwnerStaysOut`
- `DeletionCorrect`: `Spec => DeletedIsGone`
- `DatabaseFirstCorrect`: `Spec => DatabaseFirst`
- `ServiceCorrect`: `Spec => ServiceSpec`, that is, it implements `DatabaseService`

`CommandInv` is the strengthening.  `PolicyInv` says what a command makes of the Owner policy, in
its plan, then in the record and the MongoDBUser, then in MongoDB; `OperationInv` how far the
one-shot operation has come at each place, and that the second apply does not start before; `GoneInv`
what a deletion has left.  Two facts carry it: what is converged plans nothing more, so that reload,
waits and release change none of it (`DoneIsSteady`), and a command that reaches its end without an
exception has asked MongoDB (`SuccessAsked`).

The refinement has one lemma for each kind of step (`WriteMetadataService`, `WriteSinkService`,
`HookService`, ...): the record moves only for the command whose purpose that is, a sink is
written only where it is behind the record and so is not part of a valid password, and what is removed from
a recorded database is removed by a deletion that has dropped it (`OnlyDeletions`).  It needs two more
invariants: `ServiceInv`, which operation belongs to which command, and `DrawInv`, that when the
record moves no password of the running apply is anywhere yet, so that what is valid after a rotation is
none that was valid before.

`DeploymentLifecycleProofs` proves for every set of names, every permanent project and unmanaged
resources among them, every mix of commands and every bound (`WorldAssumption`: the permanent
project's name is one of the names and not a foreign resource's; `LifecycleAssumption`: the deployments
at the start are neither, and the constants have their types):

- `CoreCorrect`: `Spec => []CoreInv`, with `TypeOK`
- `RecordCorrect`, `RecordKeptCorrect`, `InUseCorrect`: the properties of that name
- `DataKeptCorrect`: no apply of any command destroys storage that holds data
- `ServiceCorrect`: `Spec => ServiceSpec`, that is, it implements `DeploymentService`

`RecordedIsLive` is not inductive: an apply may destroy a storage or a custom resource whenever
its inventory leaves the deployment out, so one has to know what inventories leave out
(`PlanInv`: no record but that of the deployment a Delete names) and in which order an apply goes
(`ResourceInv`).  `CreateInv` and `DestroyInv` use the edges of `DependsOn` for it.  `DeleteInv` says that a
Delete cleans behind a MongoDB that is gone; `DataInv` that data lies in complete deployments only and
not in one that the running Delete has found empty, which is what makes the refinement's `Retire` step
possible.

`DeploymentOutcomeProofs` goes on from there, under the same assumptions, to what the commands have done
when they report success:

- `InvariantCorrect`: `Spec => []LifecycleInv`
- `AddedCorrect`, `DeletedCorrect`, `RecoveredCorrect`: `Spec => AddedIsFresh`,
  `Spec => DeletionIsComplete`, `Spec => RecoveredIsClean`
- `ApplyCorrect`: `Spec => []ApplyGoesOn`
- `StatusCorrect`: `Spec => []StatusIsHonest`

`CoreInv` says what an apply may not do; these need what a converged one has done, and that nothing
undoes it before the command ends.  `LifecycleInv` is `CoreInv /\ OutcomeInv`:

- `HealthInv`: a MongoDB that is up has an agent Secret, and the permanent project is there;
- `DatabaseInv`: Vault has databases of recorded deployments only, and none of one that the running
  Delete has found empty, so what an Add may use as a new name has none;
- `AddInv`: an Add plans for the type it was asked for, its deployment holds no data and no database
  from the first apply on, and if nothing failed its project is not on its way out once it is verified;
- `CleanInv`: what a Delete or a RecoverOrphanedResources cleans was destroyed before, and every
  artifact that is left is one it still has to clean (`todo`);
- `TidyInv`: as long as nothing failed, Terraform holds what the inventory says
  (`TidyResources`), hooks and locks leave nothing and agent Secrets belong to what is there
  (`TidyArtifacts`), and so do the projects (`TidyProjects`), except for the deployment that is being
  put up or taken down; and what is up has a project that stays (`TidyHealth`): only the Delete of that
  name sends one away, and it polls until Ops Manager has carried that out.

That what is clean stays clean rests on one fact: the Operator makes artifacts and projects only for a
MongoDB that exists, and no step but those of an apply changes which do (`LiveKept`, `DownKept`).
`TidyInv` is the half of `StatusIsHonest` about false alarms; the other half, that CLEAN is never said
of leftovers, holds in every state by how the inventory is drawn from the planes (`CleanIsClean`).

`ApplyGoesOn` follows from the layers of `DependsOn`: if anything is to go, something is that nothing
else stands on (`SomeDestroyable`); if something is missing, something is that has all it stands
on (`SomeCreatable`), and no MongoDB of that name exists beside it, which is what `PlanInv` makes of
`_check_new_name`.

`OperationJournalProofs` proves for any number of operations, readers and kills (`JournalAssumption`
gives the constants their types):

- `TypeCorrect`, `VisibleCorrect`, `InterruptedCorrect`, `SuccessCorrect`: `[]TypeOK`,
  `[]RunningIsVisible`, `[]InterruptedIsDead`, `[]SuccessIsReal`
- `GuardCorrect`: `Spec => SecondIsHeldBack`
- `UnblockedCorrect`: `Spec => [](~ForegroundKilled => EndedIsUnblocked)`

What a record says is no invariant by itself, since any of three processes may write over it what it
loaded earlier.  `JournalInv` therefore speaks of everything that can still reach the record: what each
process holds and has staged, and what is in the shared temporary file.  `VisibleInv`: until the action
ends all of it reads Queued or In Progress; `SuccessInv`: a success anywhere in it is one of the action;
`PidInv`: once the worker is started all of it has the pid, and a process that finds its temporary file
renamed by another one knows that a record with a pid is there.  The processes of two operations share
no file, so the invariant is proved for one and `StillInv` carries it over for the others.

`StorageCleanupProofs` proves for any number of volumes, any binding and any number of failed calls
(`StorageAssumption`):

- `TypeCorrect`: `Spec => []TypeOK`
- `PodCorrect`: `Spec => NeverUnderPod`
- `ClaimCorrect`: `Spec => MemberClaimKept`

`CleanupInv` counts: behind a claim that still has a pod, or gets one again, there is one failed call
(`UseInv`), and behind a volume that is still bound another one, because the finalizer keeps it.

TLC evaluates `TopologyInv`, `CredentialInv` and `LifecycleInv` too (`topology_safety`,
`credentials_safety`, `deployment_lifecycle`).  Only model-checked: all liveness
(`CommandEnds`, `ResumeCompletes`, `SubmissionEnds`, `RotationSucceeds`, `DeletionSucceeds`,
`AcceptedCompletes`, `ReleasedIsErased`; fairness and ENABLED are out of the prover's reach).  Every
safety invariant, action property and refinement that a passing run checks has its theorem.

## 6. Plan

Done: all modules of section 2, their runs, and the proofs of section 5.  Left, in this order:

1. **`prepare_local_pv`** and the prebinding, next to a scheduler that binds, so that the bindings in
   `StorageCleanup!Init` become a result; the ReplicaSet cleanup beside it.
2. **Operators** for the pure classifications: the status of a StatefulSet and of a cluster
   (`kube.py`), of a database (`database_status.py`) and of a deployment (`deployment_status.py`), each
   against a definition by what it promises, over all small inputs.
3. **Abstract specifications**: a *serial inventory*, implemented by what `ShardTopology` does to Vault
   under the flock; a *job* with one result, implemented by `OperationJournal` as far as its texts allow.

Not modelled, and why: parsing, logging, paths and rendering are pure I/O; the Helm chart and the
remaining Terraform are configuration without a protocol; ListDatabases and ListDeployments read
without deciding anything; the walk over the Vault tree is a pure read; Terraform, the MongoDB
Operator, Ops Manager and Kubernetes are modelled only as far as this code observes them.

## 7. Limits

- A SIGKILL of the worker does not reach its Terraform, which then runs without the
  flock, beside the next command's (Terraform's own state lock makes that
  one fail, or a stale state lock remains).  Here it dies with its worker.
- `ShardTopology` has one ShardedCluster with static-local persistent storage; other deployments
  appear as applies of the complete inventory.
- What Terraform's state knows and what exists are taken to be the same; a resource that
  somebody else removed, or that exists without being in the state, is not modelled (the controller
  imports nothing).
- Keys are the deployments' own names.  That two names can meet, a ReplicaSet `sc9-0` with a shard's
  StatefulSet of `sc9`, or the volumes of a ReplicaSet `a-shard` with those of a cluster `a`, is not
  modelled.
- The legacy Vault layout is left out.  It gives `replica-sets/` a meaning of its own: the inventory
  skips that folder (`vault.py:232`), so a deployment with this name would not be seen.
- A credential that only Vault holds is on no list of the inventory, so `StatusIsHonest` excepts it.
- `cleanup_replica_set_storage` (`lifecycle.sh:490-512`) waits for nothing but its own calls and ignores
  every error; it is one step of an apply in `DeploymentWorld` and not part of `StorageCleanup`.
- The check for a live MongoDB and the deletion of its Secrets (`operator_artifacts.py:72`, `:81`) are
  one step in `DeploymentLifecycle`, and foreign deployments do not come and go.  One that is created
  between the two calls would lose its agent Secret; no property covers it.
- A kill between a provider's write and Terraform's own record of it is not modelled: the next
  apply always knows what the last one has written.
- Edits from outside the controller (kubectl, Vault) are not modelled.
- PID reuse, torn JSON files and a full disk are not modelled.
- Parsing, rendering, logging and configuration are pure I/O and left out.
