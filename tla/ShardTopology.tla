--------------------------- MODULE ShardTopology ---------------------------
(***************************************************************************)
(* The mutating commands that meet on one ShardedCluster: AddShard and     *)
(* DeleteShard (shards.py), a database or credential change protected by   *)
(* protected_database_change (deployment_lock.py), a mutation of another   *)
(* deployment, Reconcile and RecoverDeploymentLock (maintenance.py).       *)
(*                                                                         *)
(* Every command runs in a worker process.  The worker takes the           *)
(* controller-state flock (mutation_lock.py), loads the inventory from     *)
(* Vault, does its work through a series of Terraform applies              *)
(* (TerraformApply) and Kubernetes reads, and gives the flock back when it *)
(* ends.  Any apply, read or wait may fail and any worker may be killed;   *)
(* the kernel then frees the flock, but the deployment-lock ConfigMap      *)
(* stays.                                                                  *)
(***************************************************************************)
EXTENDS TerraformApply

CONSTANTS
  Kinds,           \* the kinds of command that are submitted
  InitShards,      \* shards of the cluster at the start
  Counts,          \* the COUNT arguments of AddShard and DeleteShard
  NoWorker,        \* the flock is free
  MaxCommands,     \* bound on the commands submitted
  MaxFaults        \* bound on failures, timeouts, kills and lost pods

ASSUME TopologyAssumption ==
  /\ Kinds \subseteq {"AddShard", "DeleteShard", "Database", "Other",
                      "Reconcile", "Recover"}
  /\ InitShards \in 1 .. MaxShards
  /\ Counts \subseteq Nat \ {0}
  /\ NoWorker \notin Worker
  /\ MaxCommands \in Nat
  /\ MaxFaults \in Nat

VARIABLES
  holder,     \* the worker that holds the controller-state flock
  pc,         \* pc[w]: where the command of worker w is
  cmd,        \* cmd[w]: its kind, its COUNT and the uuid it would lock with
  outcome,    \* outcome[w]: how the last command of w ended
  submitted,  \* number of commands submitted so far
  faults      \* number of faults so far

control == <<holder, pc, cmd, outcome, submitted, faults>>
vars    == <<world, inv, own, op, control>>

Command   == [kind : Kinds, count : Counts, id : Nat]
NoCommand == [kind |-> "none", count |-> 0, id |-> 0]

\* Where a worker runs terraform apply.
ApplyPC == {"acquiring", "staging", "scaling", "trimming", "working",
            "applying", "releasing"}

\* Where it is inside the try block of add_shard or delete_shard.
TryPC == {"storage", "staging", "scale", "scaling", "waiting", "draining",
          "trim", "trimming", "release", "releasing", "confirm"}

\* Where it reads Kubernetes or Vault, or waits for Kubernetes.
ReadPC == {"load", "decide", "verify", "waiting", "draining", "settling",
           "reload", "confirm"}

PC == {"idle", "queued"} \cup ApplyPC \cup TryPC \cup ReadPC

Working(w)  == pc[w] \notin {"idle", "queued"}
Topology(w) == cmd[w].kind \in {"AddShard", "DeleteShard"}
Target(w)   == own[w].target_shards
Start(w)    == own[w].start_shards

Distance(a, b) == IF a < b THEN b - a ELSE a - b

TypeOK ==
  /\ WorldTypeOK
  /\ holder \in Worker \cup {NoWorker}
  /\ pc \in [Worker -> PC]
  /\ cmd \in [Worker -> Command \cup {NoCommand}]
  /\ \A w \in Worker : pc[w] # "idle" => cmd[w] \in Command
  /\ outcome \in [Worker -> {"none", "succeeded", "failed", "resumable", "crashed"}]
  /\ submitted \in Nat
  /\ faults \in Nat

Init ==
  /\ WorldInit(InitShards)
  /\ holder = NoWorker
  /\ pc = [w \in Worker |-> "idle"]
  /\ cmd = [w \in Worker |-> NoCommand]
  /\ outcome = [w \in Worker |-> "none"]
  /\ submitted = 0
  /\ faults = 0

-----------------------------------------------------------------------------
(* The parts actions are made of.                                           *)

Goto(w, p) == pc' = [pc EXCEPT ![w] = p]

\* The worker moves on without touching anything another process sees.
Local(w, p) ==
  /\ Goto(w, p)
  /\ UNCHANGED <<world, inv, own, op, holder, cmd, outcome, submitted, faults>>

\* apply_inventory: the worker hands the inventory i to Terraform.
StartApply(w, p, i, l, o) ==
  /\ Goto(w, p)
  /\ inv' = [inv EXCEPT ![w] = i]
  /\ own' = [own EXCEPT ![w] = l]
  /\ op' = [op EXCEPT ![w] = o]
  /\ UNCHANGED <<world, holder, cmd, outcome, submitted, faults>>

\* Mutant: the mutation lock outlives the command that took it.
Finish_KeepsFlock(w, result) ==
  /\ Goto(w, "idle")
  /\ inv' = [inv EXCEPT ![w] = NoInventory]
  /\ own' = [own EXCEPT ![w] = NoLock]
  /\ op' = [op EXCEPT ![w] = "off"]
  /\ outcome' = [outcome EXCEPT ![w] = result]
  /\ UNCHANGED <<world, holder, cmd, submitted>>

\* The command ends: the worker exits and its flock is freed.
Finish(w, result) ==
  /\ Goto(w, "idle")
  /\ inv' = [inv EXCEPT ![w] = NoInventory]
  /\ own' = [own EXCEPT ![w] = NoLock]
  /\ op' = [op EXCEPT ![w] = "off"]
  /\ holder' = IF holder = w THEN NoWorker ELSE holder
  /\ outcome' = [outcome EXCEPT ![w] = result]
  /\ UNCHANGED <<world, cmd, submitted>>

Fault ==
  /\ faults < MaxFaults
  /\ faults' = faults + 1

\* _raise_topology_failure promises that a rerun resumes the change.
FailureReport(w) ==
  IF Topology(w) /\ pc[w] \in TryPC THEN "resumable" ELSE "failed"

Refuse(w) == Finish(w, "failed") /\ UNCHANGED faults

-----------------------------------------------------------------------------
(* The start of every command.                                              *)

Submit(w) ==
  /\ pc[w] = "idle"
  /\ submitted < MaxCommands
  /\ \E k \in Kinds, n \in Counts :
       cmd' = [cmd EXCEPT ![w] = [kind |-> k, count |-> n, id |-> submitted + 1]]
  /\ submitted' = submitted + 1
  /\ outcome' = [outcome EXCEPT ![w] = "none"]
  /\ Goto(w, "queued")
  /\ UNCHANGED <<world, inv, own, op, holder, faults>>

\* Mutant: the mutation lock is shared, so two workers may hold it.
AcquireFlock_Unlocked(w) ==
  /\ pc[w] = "queued"
  /\ holder' = w
  /\ Goto(w, "load")
  /\ UNCHANGED <<world, inv, own, op, cmd, outcome, submitted, faults>>

\* controller_state_mutation_lock, before the inventory is loaded.
AcquireFlock(w) ==
  /\ pc[w] = "queued"
  /\ holder = NoWorker
  /\ holder' = w
  /\ Goto(w, "load")
  /\ UNCHANGED <<world, inv, own, op, cmd, outcome, submitted, faults>>

\* VaultClient.load_inventory.
LoadInventory(w) ==
  /\ pc[w] = "load"
  /\ inv' = [inv EXCEPT ![w] = vault]
  /\ Goto(w, "decide")
  /\ UNCHANGED <<world, own, op, holder, cmd, outcome, submitted, faults>>

-----------------------------------------------------------------------------
(* What each command checks before it changes anything.                     *)

\* validate_topology_resume, and AddShard's limit on the recorded target.
ResumeAllowed(w) ==
  /\ lock.category = "topology"
  /\ lock.action = cmd[w].kind
  /\ Distance(lock.start_shards, lock.target_shards) = cmd[w].count
  /\ cmd[w].kind = "AddShard" => lock.target_shards <= MaxShards

\* Mutant: a resumed change counts again from the recorded topology.
Resume_Recount(w) ==
  /\ pc[w] = "decide"
  /\ Topology(w)
  /\ ResumeAllowed(w)
  /\ LET recount == IF cmd[w].kind = "AddShard"
                    THEN inv[w].shard_count + cmd[w].count
                    ELSE inv[w].shard_count - cmd[w].count
     IN /\ recount \in 1 .. MaxShards
        /\ own' = [own EXCEPT ![w] = [lock EXCEPT !.target_shards = recount]]
  /\ Goto(w, IF cmd[w].kind = "AddShard" THEN "storage" ELSE "scale")
  /\ UNCHANGED <<world, inv, op, holder, cmd, outcome, submitted, faults>>

\* Mutant: a resumed change works under a fresh operation id.
Resume_OwnId(w) ==
  /\ pc[w] = "decide"
  /\ Topology(w)
  /\ ResumeAllowed(w)
  /\ own' = [own EXCEPT ![w] = [lock EXCEPT !.operation_id = cmd[w].id]]
  /\ Goto(w, IF cmd[w].kind = "AddShard" THEN "storage" ELSE "scale")
  /\ UNCHANGED <<world, inv, op, holder, cmd, outcome, submitted, faults>>

Resume(w) ==
  /\ pc[w] = "decide"
  /\ Topology(w)
  /\ ResumeAllowed(w)
  /\ own' = [own EXCEPT ![w] = lock]
  /\ Goto(w, IF cmd[w].kind = "AddShard" THEN "storage" ELSE "scale")
  /\ UNCHANGED <<world, inv, op, holder, cmd, outcome, submitted, faults>>

NewTarget(w) ==
  IF cmd[w].kind = "AddShard" THEN inv[w].shard_count + cmd[w].count
                              ELSE inv[w].shard_count - cmd[w].count

NewLock(w, c, t) ==
  [operation_id |-> cmd[w].id, category |-> c, action |-> cmd[w].kind,
   start_shards |-> inv[w].shard_count, target_shards |-> t]

\* add_shard and delete_shard without a lock: count limits, require_running,
\* then acquire_deployment_lock.
StartAllowed(w) ==
  /\ lock = NoLock
  /\ NewTarget(w) \in 1 .. MaxShards
  /\ Online(inv[w].shard_count)

StartTopology(w) ==
  /\ pc[w] = "decide"
  /\ Topology(w)
  /\ StartAllowed(w)
  /\ StartApply(w, "acquiring", inv[w], NewLock(w, "topology", NewTarget(w)),
                "acquire")

\* require_no_active_change, require_running, protected_database_change.
StartDatabase(w) ==
  /\ pc[w] = "decide"
  /\ cmd[w].kind = "Database"
  /\ lock = NoLock
  /\ Online(inv[w].shard_count)
  /\ StartApply(w, "acquiring", inv[w],
                NewLock(w, "database", inv[w].shard_count), "acquire")

\* A command on another deployment applies the complete inventory and looks
\* at no lock but its own deployment's; reconcile refuses any lock.
StartFullApply(w) ==
  /\ pc[w] = "decide"
  /\ \/ cmd[w].kind = "Other"
     \/ cmd[w].kind = "Reconcile" /\ lock = NoLock
  /\ StartApply(w, "applying", inv[w], NoLock, "sync")

\* Mutant: recovery looks at the live resource and not at Vault.
RecoverAllowed_LiveOnly(w) ==
  /\ lock.category = "topology"
  /\ spec = lock.target_shards
  /\ Online(lock.target_shards)
  /\ lock.action = "DeleteShard" =>
       \A i \in lock.target_shards .. lock.start_shards - 1 : ~Alive(i)

\* recover_deployment_lock: the change must be complete but for its lock.
RecoverAllowed(w) ==
  /\ lock.category = "topology"
  /\ inv[w].shard_count = lock.target_shards
  /\ spec = lock.target_shards
  /\ Online(lock.target_shards)
  /\ lock.action = "DeleteShard" =>
       \A i \in lock.target_shards .. lock.start_shards - 1 : ~Alive(i)

StartRecover(w) ==
  /\ pc[w] = "decide"
  /\ cmd[w].kind = "Recover"
  /\ RecoverAllowed(w)
  /\ StartApply(w, "releasing", inv[w], lock, "targeted")

\* Every other combination raises ControllerError before any change.
RefuseCommand(w) ==
  /\ pc[w] = "decide"
  /\ CASE Topology(w) -> ~ResumeAllowed(w) /\ ~StartAllowed(w)
       [] cmd[w].kind = "Database" -> lock # NoLock \/ ~Online(inv[w].shard_count)
       [] cmd[w].kind = "Reconcile" -> lock # NoLock
       [] cmd[w].kind = "Recover" -> ~RecoverAllowed(w)
       [] OTHER -> FALSE
  /\ Refuse(w)

Decide(w) ==
  \/ Resume(w)
  \/ StartTopology(w)
  \/ StartDatabase(w)
  \/ StartFullApply(w)
  \/ StartRecover(w)
  \/ RefuseCommand(w)

-----------------------------------------------------------------------------
(* The work under the deployment lock.                                      *)

\* acquire_deployment_lock reads the ConfigMap back.  Under the flock it finds
\* its own operation there (OwnInv), so its refusal is not an action.
VerifyLock(w) ==
  /\ pc[w] = "verify"
  /\ lock.operation_id = cmd[w].id
  /\ CASE cmd[w].kind = "AddShard"    -> Local(w, "storage")
       [] cmd[w].kind = "DeleteShard" -> Local(w, "scale")
       [] OTHER -> StartApply(w, "working", inv[w], own[w], "sync")

\* Mutant: AddShard scales without staging the storage.
StageStorage_Skipped(w) ==
  /\ pc[w] = "storage"
  /\ Local(w, "scale")

\* AddShard stage 1: storage before the custom resource asks for it.
StageStorage(w) ==
  /\ pc[w] = "storage"
  /\ \/ /\ inv[w].storage_shard_count < Target(w)
        /\ StartApply(w, "staging", [inv[w] EXCEPT !.storage_shard_count = Target(w)],
                      own[w], "sync")
     \/ /\ inv[w].storage_shard_count >= Target(w)
        /\ Local(w, "scale")

MustScale(w) ==
  IF cmd[w].kind = "AddShard" THEN inv[w].shard_count < Target(w)
                              ELSE inv[w].shard_count > Target(w)

ScaleShards(w) ==
  /\ pc[w] = "scale"
  /\ \/ /\ MustScale(w)
        /\ StartApply(w, "scaling", [inv[w] EXCEPT !.shard_count = Target(w)],
                      own[w], "sync")
     \/ /\ ~MustScale(w)
        /\ Local(w, "waiting")

\* wait_sharded_cluster_ready.
ShardsReady(w) ==
  /\ pc[w] = "waiting"
  /\ Online(Target(w))
  /\ Local(w, IF cmd[w].kind = "AddShard" THEN "release" ELSE "draining")

\* Mutant: DeleteShard waits for all removed StatefulSets but the last.
ShardsDrained_OffByOne(w) ==
  /\ pc[w] = "draining"
  /\ \A i \in Target(w) .. Start(w) - 2 : ~Alive(i)
  /\ Local(w, "trim")

\* wait_absent on the StatefulSet of every removed shard.
ShardsDrained(w) ==
  /\ pc[w] = "draining"
  /\ \A i \in Target(w) .. Start(w) - 1 : ~Alive(i)
  /\ Local(w, "trim")

TrimStorage(w) ==
  /\ pc[w] = "trim"
  /\ \/ /\ inv[w].storage_shard_count > Target(w)
        /\ StartApply(w, "trimming", [inv[w] EXCEPT !.storage_shard_count = Target(w)],
                      own[w], "sync")
     \/ /\ inv[w].storage_shard_count <= Target(w)
        /\ Local(w, "release")

\* The finally block of protected_database_change.
ReloadInventory(w) ==
  /\ pc[w] = "reload"
  /\ inv' = [inv EXCEPT ![w] = vault]
  /\ Goto(w, "release")
  /\ UNCHANGED <<world, own, op, holder, cmd, outcome, submitted, faults>>

ReleaseLock(w) ==
  /\ pc[w] = "release"
  /\ StartApply(w, "releasing", inv[w], own[w], "release")

\* release_deployment_lock reads the ConfigMap back; a database change that
\* failed before is reported as failed whatever its release did.
ConfirmRelease(w) ==
  /\ pc[w] = "confirm"
  /\ Finish(w, IF lock # NoLock THEN FailureReport(w)
               ELSE IF outcome[w] = "failed" THEN "failed" ELSE "succeeded")
  /\ UNCHANGED faults

\* reconcile waits for every deployment it applied.
Settle(w) ==
  /\ pc[w] = "settling"
  /\ cmd[w].kind = "Reconcile" => Online(inv[w].shard_count)
  /\ Finish(w, "succeeded")
  /\ UNCHANGED faults

-----------------------------------------------------------------------------
(* Terraform runs inside apply_inventory; apply_inventory returns or raises. *)

RunApply(w) ==
  /\ ApplyStep(w)
  /\ UNCHANGED control

AfterApply ==
  [acquiring |-> "verify", staging |-> "scale", scaling |-> "waiting",
   trimming |-> "release", working |-> "reload", applying |-> "settling",
   releasing |-> "confirm"]

ApplySucceeds(w) ==
  /\ pc[w] \in ApplyPC
  /\ Converged(w)
  /\ Goto(w, AfterApply[pc[w]])
  /\ op' = [op EXCEPT ![w] = "off"]
  /\ UNCHANGED <<world, inv, own, holder, cmd, outcome, submitted, faults>>

\* A database change that fails still runs its finally block.
Raise(w) ==
  IF pc[w] = "working"
  THEN /\ Goto(w, "reload")
       /\ op' = [op EXCEPT ![w] = "off"]
       /\ outcome' = [outcome EXCEPT ![w] = "failed"]
       /\ UNCHANGED <<world, inv, own, holder, cmd, submitted>>
  ELSE Finish(w, FailureReport(w))

\* Terraform exits non-zero after any part of its plan.  lifecycle.sh refusing
\* another operation's lock would end here too; under the flock it meets none.
ApplyFails(w) ==
  /\ pc[w] \in ApplyPC
  /\ Raise(w)
  /\ Fault

\* A Vault or Kubernetes read fails, or a wait times out.
ReadFails(w) ==
  /\ pc[w] \in ReadPC
  /\ Finish(w, FailureReport(w))
  /\ Fault

\* The worker is killed, and its Terraform with it.
Crash(w) ==
  /\ pc[w] # "idle"
  /\ Finish(w, "crashed")
  /\ Fault

Operator ==
  /\ OperatorStep
  /\ UNCHANGED <<holder, pc, cmd, outcome, submitted, faults>>

PodLost ==
  /\ \E i \in Shard : ShardDegrades(i)
  /\ Fault
  /\ UNCHANGED <<vault, spec, volumes, lock, inv, own, op,
                 holder, pc, cmd, outcome, submitted>>

-----------------------------------------------------------------------------

WorkerStep(w) ==
  \/ AcquireFlock(w)
  \/ LoadInventory(w)
  \/ Decide(w)
  \/ VerifyLock(w)
  \/ StageStorage(w)
  \/ ScaleShards(w)
  \/ ShardsReady(w)
  \/ ShardsDrained(w)
  \/ TrimStorage(w)
  \/ ReloadInventory(w)
  \/ ReleaseLock(w)
  \/ ConfirmRelease(w)
  \/ Settle(w)
  \/ RunApply(w)
  \/ ApplySucceeds(w)

Environment(w) ==
  \/ Submit(w)
  \/ ApplyFails(w)
  \/ ReadFails(w)
  \/ Crash(w)

Next ==
  \/ \E w \in Worker : WorkerStep(w) \/ Environment(w)
  \/ Operator
  \/ PodLost

Spec == Init /\ [][Next]_vars

\* A worker and the MongoDB Operator keep running; nobody owes a command, a
\* fault or a lost pod.
FairSpec ==
  /\ Spec
  /\ \A w \in Worker : WF_vars(WorkerStep(w))
  /\ WF_vars(Operator)
-----------------------------------------------------------------------------
(* Safety.                                                                  *)

\* No shard the custom resource asks for, and no shard whose StatefulSet is
\* still there, is without its persistent volumes: storage is staged before
\* the scale-up and trimmed only after the removed workloads are gone, over
\* every interleaving of applies, failures, kills and reruns.
StorageUnderShards ==
  /\ Ordinals(spec) \subseteq volumes
  /\ \A i \in Shard : Alive(i) => i \in volumes

\* What a rerun, a recovery or a database change may conclude from the lock
\* it reads: a topology lock has the live and the recorded shard count
\* between its two ends, the record behind the resource; without one they
\* agree, and a database lock names them.
LockDescribesTopology ==
  IF lock.category = "topology"
  THEN /\ {spec, vault.shard_count} \subseteq {lock.start_shards, lock.target_shards}
       /\ vault.shard_count = lock.target_shards => spec = lock.target_shards
  ELSE /\ spec = vault.shard_count
       /\ lock # NoLock => spec = lock.start_shards

\* Between load_inventory and its exit a worker's inventory differs from
\* Vault in nothing but the one field its current apply is changing: no
\* worker replays an older snapshot over a newer commit.
SnapshotCurrent ==
  \A w \in Worker :
    /\ pc[w] \notin {"idle", "queued", "load", "staging", "scaling",
                     "trimming", "reload"} => inv[w] = vault
    /\ pc[w] \in {"staging", "trimming"} => inv[w].shard_count = vault.shard_count
    /\ pc[w] = "scaling" =>
         inv[w].storage_shard_count = vault.storage_shard_count

\* A topology lock goes away only when the change it stands for is finished:
\* recorded, live, and the StatefulSets are exactly those of the target.
LockReleasedWhenSettled ==
  [][(lock.category = "topology" /\ lock' # lock) =>
       /\ lock' = NoLock
       /\ spec = lock.target_shards /\ vault.shard_count = lock.target_shards
       /\ \A i \in Shard : Alive(i) <=> i < lock.target_shards]_vars

-----------------------------------------------------------------------------
(* The inductive invariant the proofs of the safety properties rest on.     *)

\* One worker at a time, and a worker's apply and kind fit the place it is in.
ControlInv ==
  \A w \in Worker :
    /\ Working(w) => holder = w
    /\ pc[w] = "acquiring" => op[w] \in {"acquire", "sync"}
    /\ pc[w] \in ApplyPC \ {"acquiring", "releasing"} => op[w] = "sync"
    /\ pc[w] = "releasing" => op[w] \in {"release", "sync", "targeted", "done"}
    /\ pc[w] \notin ApplyPC => op[w] = "off"
    /\ pc[w] \in {"acquiring", "verify"} => Topology(w) \/ cmd[w].kind = "Database"
    /\ pc[w] \in {"storage", "staging"} => cmd[w].kind = "AddShard"
    /\ pc[w] \in {"scale", "scaling", "waiting"} => Topology(w)
    /\ pc[w] \in {"draining", "trim", "trimming"} => cmd[w].kind = "DeleteShard"
    /\ pc[w] \in {"working", "reload"} => cmd[w].kind = "Database"
    /\ pc[w] = "release" => Topology(w) \/ cmd[w].kind = "Database"
    /\ pc[w] \in {"releasing", "confirm"} =>
         Topology(w) \/ cmd[w].kind \in {"Database", "Recover"}

\* Live and recorded counts stay within the recorded storage.
StorageInv ==
  /\ StorageUnderShards
  /\ spec <= vault.storage_shard_count
  /\ vault.shard_count <= vault.storage_shard_count
  /\ \A i \in Shard : Alive(i) => i < vault.storage_shard_count

LockInv ==
  /\ LockDescribesTopology
  /\ lock.category = "none" => lock = NoLock
  /\ lock.category = "topology" =>
       \/ lock.action = "AddShard" /\ lock.start_shards < lock.target_shards
       \/ lock.action = "DeleteShard" /\ lock.target_shards < lock.start_shards
  /\ \A i \in Shard : Alive(i) =>
       IF lock.category = "topology"
       THEN i < lock.start_shards \/ i < lock.target_shards
       ELSE i < vault.shard_count

\* Where the lock ConfigMap is known to be the worker's own.
Owns(w) ==
  \/ pc[w] = "acquiring" /\ op[w] = "sync"
  \/ pc[w] \in {"verify", "storage", "staging", "scale", "scaling", "waiting",
                "draining", "trim", "trimming", "working", "reload", "release"}
  \/ pc[w] = "releasing" /\ op[w] \in {"release", "targeted"}

OwnInv ==
  \A w \in Worker :
    /\ Owns(w) => lock = own[w]
    /\ (Owns(w) \/ pc[w] = "acquiring") =>
         IF cmd[w].kind = "Database"
         THEN own[w].category = "database"
         ELSE own[w].category = "topology" /\ (Topology(w) => own[w].action = cmd[w].kind)
    /\ pc[w] = "acquiring" =>
         /\ own[w].start_shards = inv[w].shard_count
         /\ own[w].action = "AddShard" => Start(w) < Target(w)
         /\ own[w].action = "DeleteShard" => Target(w) < Start(w)

\* What a topology change has established when it is at a given place.
Settled(w) ==
  \/ pc[w] \in {"waiting", "draining", "trim", "trimming"}
  \/ pc[w] = "release" /\ Topology(w)
  \/ pc[w] = "releasing" /\ op[w] \in {"release", "targeted"}
       /\ cmd[w].kind # "Database"

PhaseInv ==
  \A w \in Worker :
    /\ pc[w] = "staging" => /\ inv[w].storage_shard_count = Target(w)
                            /\ vault.storage_shard_count <= Target(w)
    /\ (pc[w] \in {"scale", "scaling"} /\ cmd[w].kind = "AddShard") =>
         Target(w) <= vault.storage_shard_count
    /\ pc[w] = "scaling" => inv[w].shard_count = Target(w)
    /\ pc[w] = "trimming" => inv[w].storage_shard_count = Target(w)
    /\ Settled(w) =>
         /\ spec = Target(w) /\ vault.shard_count = Target(w)
         /\ pc[w] # "waiting" => \A i \in Ordinals(Target(w)) : Alive(i)
         /\ pc[w] \notin {"waiting", "draining"} =>
              \A i \in Shard : Alive(i) => i < Target(w)

TopologyInv ==
  /\ TypeOK
  /\ ControlInv
  /\ StorageInv
  /\ LockInv
  /\ OwnInv
  /\ SnapshotCurrent
  /\ PhaseInv

-----------------------------------------------------------------------------
(* ShardTopology implements TopologyChange: the pending change is the one    *)
(* the deployment lock describes, whether or not anybody works on it.        *)

LiveShards == {i \in Shard : Alive(i)}

PendingChange ==
  IF lock.category = "topology"
  THEN [from |-> lock.start_shards, to |-> lock.target_shards]
  ELSE [from |-> 0, to |-> 0]

Change == INSTANCE TopologyChange WITH
  count <- vault.shard_count, live <- LiveShards, change <- PendingChange

\* Applies of other commands, failures and reruns touch no shard but those of
\* the change the lock describes, never take a recorded change back, and the
\* change ends only when it is complete.
TopologyChangeSpec == Change!Spec

\* The shards on both sides of the pending change, or of no change, are there,
\* and a change that is about to begin leaves the cluster a shard.
ChangeInv ==
  /\ \A i \in Shard :
       (IF lock.category = "topology"
        THEN i < lock.start_shards /\ i < lock.target_shards
        ELSE i < vault.shard_count) => Alive(i)
  /\ \A w \in Worker :
       pc[w] = "acquiring" /\ own[w].category = "topology" => Target(w) \in 1 .. MaxShards

-----------------------------------------------------------------------------
(* Liveness.                                                                *)

\* Every command that waits for the flock ends, whatever became of the
\* command before it.
CommandEnds ==
  \A w \in Worker : pc[w] = "queued" ~> pc[w] = "idle"

\* Once nothing fails any more, rerunning the command a topology lock records
\* completes the interrupted change and releases the lock.
ResumeCompletes ==
  \A w \in Worker :
    (pc[w] = "decide" /\ Topology(w) /\ ResumeAllowed(w) /\ faults = MaxFaults)
      ~> (outcome[w] = "succeeded" /\ lock = NoLock)

=============================================================================
