------------------------ MODULE DeploymentLifecycle ------------------------
(***************************************************************************)
(* AddReplicaSet, AddShardedCluster, DeleteReplicaSet and                  *)
(* DeleteShardedCluster (deployments.py) with the cleanups a deletion ends *)
(* in (operator_artifacts.py, ops_manager.py), Reconcile and               *)
(* RecoverOrphanedResources (maintenance.py), and the status an            *)
(* administrator reads between them (ManagedInventory).                    *)
(*                                                                         *)
(* The controller-state flock lets one command run at a time               *)
(* (ShardTopology shows that it does), so there is one worker here.  What  *)
(* it meets is what earlier commands left behind: any of them may have     *)
(* been killed or have failed at any of its steps, and nothing undoes what *)
(* it had done.  The MongoDB Operator and Ops Manager run beside it.       *)
(***************************************************************************)
EXTENDS ManagedInventory

CONSTANTS
  Kinds,         \* the kinds of command that are submitted
  Deployed,      \* the deployments that are up at the start
  DeployedType,  \* their type
  MaxCommands,   \* bound on the commands submitted
  MaxFaults      \* bound on failures, timeouts, kills and lost pods

ASSUME LifecycleAssumption ==
  /\ Kinds \subseteq {"Add", "Delete", "Database", "Reconcile", "Recover"}
  /\ Deployed \subseteq Name \ (Foreign \cup {Platform})
  /\ DeployedType \in Type
  /\ MaxCommands \in Nat
  /\ MaxFaults \in Nat

VARIABLES
  db,         \* db[n]: Vault records a database of deployment n
  pc,         \* where the running command is
  cmd,        \* its kind, its deployment name and type
  todo,       \* the deployment keys whose artifacts it has still to clean
  outcome,    \* how the last command ended
  commands,   \* number of commands so far
  faults      \* number of faults so far

control == <<locked, db, pc, cmd, todo, outcome, commands, faults>>
vars    == <<planes, inv, op, control>>

Command   == [kind : {"none", "Add", "Delete", "Database", "Reconcile", "Recover"},
              name : Name, type : Type]
NoCommand == [kind |-> "none", name |-> Platform, type |-> "ReplicaSet"]

\* Where terraform apply runs, and where the command waits or cleans.
ApplyPC == {"creating", "verifying", "validating", "destroying", "converging",
            "emptying"}
PC      == ApplyPC \cup {"idle", "starting", "leaving", "cleaning", "removing",
                         "polling", "settling"}

TypeOK ==
  /\ WorldTypeOK
  /\ locked \in [Name -> BOOLEAN]
  /\ db \in [Name -> BOOLEAN]
  /\ pc \in PC
  /\ cmd \in Command
  /\ todo \subseteq Name
  /\ outcome \in {"none", "succeeded", "failed"}
  /\ commands \in 0 .. MaxCommands
  /\ faults \in 0 .. MaxFaults
  /\ (pc \in ApplyPC) = Applying

Init ==
  /\ WorldInit(Deployed, DeployedType)
  /\ locked = [n \in Name |-> FALSE]
  /\ db = [n \in Name |-> FALSE]
  /\ pc = "idle"
  /\ cmd = NoCommand
  /\ todo = {}
  /\ outcome = "none"
  /\ commands = 0
  /\ faults = 0

-----------------------------------------------------------------------------
(* The parts actions are made of.                                           *)

\* A command that passed its checks starts, with or without an apply.
Begin(c) ==
  /\ pc = "idle" /\ commands < MaxCommands /\ c.kind \in Kinds
  /\ cmd' = c
  /\ commands' = commands + 1
  /\ UNCHANGED <<planes, locked, db, faults>>

\* apply_inventory with inventory i and one-shot operation a.
Apply(p, i, a, n) ==
  /\ pc' = p
  /\ inv' = i
  /\ op' = [action |-> a, deployment |-> n]

Applied(p) == pc = p /\ Converged

\* The command goes on to p with no apply running.
Goto(p) ==
  /\ pc' = p
  /\ op' = NoOperation

\* Mutant: the apply of a command that gave up is still under way.
Finish_ApplyGoesOn(result) ==
  /\ pc' = "idle"
  /\ outcome' = result
  /\ todo' = {}
  /\ UNCHANGED <<inv, op, locked, db, cmd, commands>>

Finish(result) ==
  /\ Goto("idle")
  /\ inv' = NoInventory
  /\ outcome' = result
  /\ todo' = {}
  /\ UNCHANGED <<locked, db, cmd, commands>>

Same == UNCHANGED <<locked, db, cmd, todo, outcome, commands, faults>>

Fault ==
  /\ faults < MaxFaults
  /\ faults' = faults + 1

-----------------------------------------------------------------------------
(* AddReplicaSet, AddShardedCluster.                                        *)

\* Mutant: only managed MongoDBs are looked at.
CanAdd_ManagedOnly(n, t) ==
  /\ ~Recorded(n)
  /\ LiveType(n) \in {"none", t}

\* _check_new_name: what an earlier Add or Delete left may be adopted, by a
\* deployment of the same type; what somebody else owns may not.
CanAdd(n, t) ==
  /\ ~Recorded(n)
  /\ n \notin Foreign
  /\ LiveType(n) \in {"none", t}

\* Mutant: the apply is given the new deployment alone.
AddDeployment_Alone(n, t) ==
  /\ CanAdd(n, t)
  /\ Begin([kind |-> "Add", name |-> n, type |-> t])
  /\ Apply("creating", [NoInventory EXCEPT ![n] = t], "sync", n)
  /\ outcome' = "none" /\ UNCHANGED todo

AddDeployment(n, t) ==
  /\ CanAdd(n, t)
  /\ Begin([kind |-> "Add", name |-> n, type |-> t])
  /\ Apply("creating", [Inventory EXCEPT ![n] = t], "sync", n)
  /\ outcome' = "none" /\ UNCHANGED todo

Created ==
  /\ Applied("creating")
  /\ Goto("starting")
  /\ UNCHANGED <<planes, inv>> /\ Same

\* wait_phase or wait_sharded_cluster_ready, then the MongoDBUser's phase.
Started ==
  /\ pc = "starting"
  /\ health[cmd.name] = "usable"
  /\ Apply("verifying", inv, "verify_controller_admin", cmd.name)
  /\ UNCHANGED planes /\ Same

Verified ==
  /\ Applied("verifying")
  /\ Finish("succeeded")
  /\ UNCHANGED <<planes, faults>>

-----------------------------------------------------------------------------
(* DeleteReplicaSet, DeleteShardedCluster.                                  *)

\* require_deployment, require_no_active_change, require_running and the
\* recorded databases.
CanDelete(n, t) ==
  /\ Recorded(n) /\ LiveType(n) = t
  /\ ~locked[n]
  /\ health[n] # "down"
  /\ ~db[n]

DeleteDeployment(n, t) ==
  /\ CanDelete(n, t)
  /\ Begin([kind |-> "Delete", name |-> n, type |-> t])
  /\ Apply("validating", Inventory, "validate_deployment_empty", n)
  /\ outcome' = "none" /\ UNCHANGED todo

Validated ==
  /\ Applied("validating")
  /\ Apply("destroying", [inv EXCEPT ![cmd.name] = "none"], "sync", cmd.name)
  /\ UNCHANGED planes /\ Same

NotEmpty ==
  /\ pc = "validating" /\ OperationRefused
  /\ Finish("failed")
  /\ UNCHANGED <<planes, faults>>

Destroyed ==
  /\ Applied("destroying")
  /\ Goto("leaving")
  /\ UNCHANGED <<planes, inv>> /\ Same

\* Mutant: the artifacts outside Terraform's state are forgotten.
Absent_NoArtifacts ==
  /\ pc = "leaving"
  /\ ~Live(cmd.name)
  /\ Goto("cleaning")
  /\ UNCHANGED <<planes, inv, locked, db, cmd, todo, outcome, commands, faults>>

\* wait_absent
Absent ==
  /\ pc = "leaving"
  /\ ~Live(cmd.name)
  /\ Goto("cleaning")
  /\ todo' = {cmd.name}
  /\ UNCHANGED <<planes, inv, locked, db, cmd, outcome, commands, faults>>

\* Mutant: 202 is taken for the end of the deletion.
RemoveProject_NotPolled ==
  /\ pc = "removing" /\ cmd.name # Platform /\ project[cmd.name] # "none"
  /\ project' = [project EXCEPT ![cmd.name] = "deleting"]
  /\ Finish("succeeded")
  /\ UNCHANGED <<tf, data, health, jobs, agent, group, stale, faults>>

\* delete_project.  A project that is not there counts as deleted, and then
\* nothing looks for its group Secret.
RemoveProject ==
  /\ pc = "removing" /\ cmd.name # Platform /\ project[cmd.name] # "none"
  /\ project' = [project EXCEPT ![cmd.name] = "deleting"]
  /\ Goto("polling")
  /\ UNCHANGED <<tf, data, health, jobs, agent, group, stale, inv>> /\ Same

NoProject ==
  /\ pc = "removing"
  /\ \/ cmd.name = Platform /\ Finish("failed")
     \/ cmd.name # Platform /\ project[cmd.name] = "none" /\ Finish("succeeded")
  /\ UNCHANGED <<planes, faults>>

ProjectRemoved ==
  /\ pc = "polling" /\ project[cmd.name] = "none"
  /\ group' = [group EXCEPT ![cmd.name] = FALSE]
  /\ Finish("succeeded")
  /\ UNCHANGED <<tf, data, health, jobs, agent, project, stale, faults>>

-----------------------------------------------------------------------------
(* cleanup_deployment_operator_artifacts, for one key of todo after the     *)
(* other: first the hook Jobs, then the agent-auth Secret.                  *)

CleanJobs(k) ==
  /\ pc = "cleaning" /\ k \in todo
  /\ ~Live(k) /\ jobs[k]
  /\ jobs' = [jobs EXCEPT ![k] = FALSE]
  /\ UNCHANGED <<tf, data, health, agent, project, group, stale, inv, op, pc>> /\ Same

\* Mutant: the live resource is not looked for again.
CleanSecret_Live(k) ==
  /\ pc = "cleaning" /\ k \in todo
  /\ ~jobs[k]
  /\ agent' = [agent EXCEPT ![k] = FALSE]
  /\ todo' = todo \ {k}
  /\ UNCHANGED <<tf, data, health, jobs, project, group, stale, inv, op, pc,
                 locked, db, cmd, outcome, commands, faults>>

CleanSecret(k) ==
  /\ pc = "cleaning" /\ k \in todo
  /\ ~Live(k) /\ ~jobs[k]
  /\ agent' = [agent EXCEPT ![k] = FALSE]
  /\ todo' = todo \ {k}
  /\ UNCHANGED <<tf, data, health, jobs, project, group, stale, inv, op, pc,
                 locked, db, cmd, outcome, commands, faults>>

\* A MongoDB resource of that name exists, so its artifacts are in use.
CleanRefused ==
  /\ pc = "cleaning"
  /\ \E k \in todo : Live(k)
  /\ Finish("failed")
  /\ UNCHANGED <<planes, faults>>

Cleaned ==
  /\ pc = "cleaning" /\ todo = {}
  /\ \/ cmd.kind = "Delete" /\ Goto("removing") /\ UNCHANGED inv /\ Same
     \/ cmd.kind = "Recover" /\ Finish("succeeded") /\ UNCHANGED faults
  /\ UNCHANGED planes

-----------------------------------------------------------------------------
(* Reconcile.                                                               *)

NothingToReconcile ==
  /\ RecordedNames = {}
  /\ Begin([NoCommand EXCEPT !.kind = "Reconcile"])
  /\ Goto("idle")
  /\ outcome' = "succeeded" /\ UNCHANGED <<inv, todo>>

Reconcile ==
  /\ RecordedNames # {}
  /\ \A n \in RecordedNames : ~locked[n]
  /\ Begin([NoCommand EXCEPT !.kind = "Reconcile"])
  /\ Apply("converging", Inventory, "sync", Platform)
  /\ todo' = RecordedNames /\ outcome' = "none"

Reconciled ==
  /\ Applied("converging")
  /\ Goto("settling")
  /\ UNCHANGED <<planes, inv>> /\ Same

\* One deployment after the other is waited for.
Settle(n) ==
  /\ pc = "settling" /\ n \in todo
  /\ health[n] = "usable"
  /\ todo' = todo \ {n}
  /\ UNCHANGED <<planes, inv, op, pc, locked, db, cmd, outcome, commands, faults>>

Settled ==
  /\ pc = "settling" /\ todo = {}
  /\ Finish("succeeded")
  /\ UNCHANGED <<planes, faults>>

-----------------------------------------------------------------------------
(* RecoverOrphanedResources.                                                *)

CanRecover == \A n \in Name : ~Recorded(n) /\ LiveType(n) = "none"

\* Mutant: only what still carries the controller's labels is discovered.
DiscoveredKeys_Labelled ==
  {n \in Name : tf[n] \ {"admin_credential"} # {} \/ locked[n]}

\* discover_managed_deployment_keys: what carries the controller's labels, and
\* what the names of the artifacts tell, whosoever they are.
DiscoveredKeys ==
  {n \in Name : \/ tf[n] \ {"admin_credential"} # {} \/ locked[n]
                \/ jobs[n] \/ agent[n]}

RecoverOrphanedResources ==
  /\ CanRecover
  /\ Begin([NoCommand EXCEPT !.kind = "Recover"])
  /\ Apply("emptying", NoInventory, "sync", Platform)
  /\ todo' = DiscoveredKeys /\ outcome' = "none"

Emptied ==
  /\ Applied("emptying")
  /\ Goto("cleaning")
  /\ UNCHANGED <<planes, inv>> /\ Same

-----------------------------------------------------------------------------
(* The other commands between two of these: AddDatabase and DeleteDatabase  *)
(* (modelled in DatabaseCredentials), as what they can leave.  One that     *)
(* succeeds changes MongoDB and Vault together; one that fails may have     *)
(* changed MongoDB alone, leave the Job of a failed hook and, killed, the   *)
(* lock of a ShardedCluster.                                                *)

\* Their applies would carry off what deleted deployments left, as Reconcile's
\* does; here they run when nothing is left.
ManageDatabase(n) ==
  /\ "Database" \in Kinds /\ pc = "idle" /\ commands < MaxCommands
  /\ Recorded(n) /\ health[n] = "usable" /\ ~locked[n]
  /\ \A m \in Name : tf[m] = IF Recorded(m) THEN Parts(LiveType(m)) ELSE {}
  /\ commands' = commands + 1
  /\ cmd' = [kind |-> "Database", name |-> n, type |-> LiveType(n)]
  /\ \/ /\ db' = [db EXCEPT ![n] = ~@]
        /\ data' = [data EXCEPT ![n] = ~db[n]]
        /\ outcome' = "succeeded"
        /\ UNCHANGED <<jobs, locked, faults>>
     \/ /\ Fault
        /\ data' \in {data, [data EXCEPT ![n] = ~db[n]]}
        /\ jobs' \in {jobs, [jobs EXCEPT ![n] = TRUE]}
        /\ locked' \in {locked, [locked EXCEPT ![n] = LiveType(n) = "ShardedCluster"]}
        /\ outcome' = "failed"
        /\ UNCHANGED db
  /\ UNCHANGED <<tf, health, agent, project, group, stale, inv, op, pc, todo>>

-----------------------------------------------------------------------------
(* Faults: an apply, a read or a wait fails or times out, or the worker is   *)
(* killed.  The command stops where it is; nothing is undone.               *)

Interrupted ==
  /\ pc # "idle"
  /\ Fault
  /\ Finish("failed")
  /\ UNCHANGED planes

PodLoss(n) ==
  /\ Fault
  /\ n \notin Foreign /\ PodsLost(n)
  /\ UNCHANGED <<locked, db, pc, cmd, todo, outcome, commands>>

-----------------------------------------------------------------------------

Submitted ==
  \/ \E n \in Name, t \in Type : AddDeployment(n, t) \/ DeleteDeployment(n, t)
  \/ \E n \in Name : ManageDatabase(n)
  \/ NothingToReconcile \/ Reconcile
  \/ RecoverOrphanedResources

Controller ==
  \/ ApplyStep /\ UNCHANGED control
  \/ Created \/ Started \/ Verified
  \/ Validated \/ NotEmpty \/ Destroyed \/ Absent
  \/ RemoveProject \/ NoProject \/ ProjectRemoved
  \/ \E k \in Name : CleanJobs(k) \/ CleanSecret(k)
  \/ CleanRefused \/ Cleaned
  \/ Reconciled \/ Settled \/ \E n \in Name : Settle(n)
  \/ Emptied

Operator == OperatorStep /\ UNCHANGED control

Next == \/ Submitted
        \/ Controller
        \/ Operator
        \/ Interrupted
        \/ \E n \in Name : PodLoss(n)

Spec == Init /\ [][Next]_vars

\* The worker goes on while its process lives, and the Operator and Ops Manager
\* get to whatever is asked of them.
FairSpec == Spec /\ WF_vars(Controller) /\ WF_vars(Operator)

-----------------------------------------------------------------------------
(* What the lifecycle promises.                                             *)

\* Vault never records a deployment whose MongoDB, or whose storage, is not
\* there: the record is written last and removed first, in every apply and
\* wherever it stops (metadata.tf: not advertised before the custom resource is
\* created).
RecordedIsLive ==
  \A n \in Name : Recorded(n) => \E t \in Type : {Storage(t), Manifest(t)} \subseteq tf[n]

\* Whatever was left half-made, no apply meets resources it can neither create nor
\* destroy: not by the dependencies, which join the resources of all deployments,
\* and not by a MongoDB that already exists (_check_new_name).
ApplyGoesOn ==
  Applying => \/ \A n \in Name : tf[n] = Wanted(n)
              \/ \E n \in Name, r \in Resource : Creatable(n, r) \/ Destroyable(n, r)

\* No apply of another command, whatever failed before it, removes the record of
\* a deployment: that is left to the Delete that names it.
RecordKept ==
  [][\A n \in Name : Recorded(n) /\ ~Recorded(n)' =>
       pc = "destroying" /\ cmd.kind = "Delete" /\ cmd.name = n]_vars

\* While a MongoDB resource exists, whoever manages it, the cleanups leave alone
\* what it runs on: its agent-auth Secret, its project and its group Secret.  So
\* they do with the permanent project, even for a deployment that bears its name.
InUseKept ==
  [][\A n \in Name :
       /\ Live(n) /\ agent[n] => agent'[n]
       /\ (Live(n) \/ n = Platform) /\ project[n] = "active" =>
            /\ project'[n] = "active"
            /\ group[n] => group'[n]]_vars

Succeeds(kind) ==
  cmd.kind = kind /\ pc # "idle" /\ pc' = "idle" /\ outcome' = "succeeded"

\* An Add that reports success leaves a deployment with no database of an earlier
\* one of its name, in MongoDB or in Vault, also when it adopts the MongoDB and the
\* storage of a Delete that stopped half-way.  Its Ops Manager project is not on its
\* way out, unless a command had failed: the Add looks at phases only, and it is the
\* polling of the Delete before it that keeps the two apart.
AddedIsFresh ==
  [][Succeeds("Add") =>
       /\ ~data[cmd.name] /\ ~db[cmd.name]
       /\ faults = 0 => project[cmd.name] = "active"]_vars

\* A Delete that reports success leaves nothing of the deployment on any plane,
\* except for what DeleteLeavesNothing is about.
DeletionIsComplete ==
  [][Succeeds("Delete") =>
       /\ tf'[cmd.name] = {}
       /\ ~jobs'[cmd.name] /\ ~agent'[cmd.name] /\ ~data'[cmd.name]
       /\ project'[cmd.name] = "none"]_vars

\* A RecoverOrphanedResources that reports success leaves nothing of Terraform
\* and none of the artifacts, of no deployment there ever was.
RecoveredIsClean ==
  [][Succeeds("Recover") =>
       \A n \in Name : tf'[n] = {} /\ ~jobs'[n] /\ ~agent'[n]]_vars

\* CLEAN is said only when nothing is left in Kubernetes or Ops Manager of any
\* deployment, in particular at no step of any interrupted command.  Attention is
\* asked for only when something went wrong: not between the commands of a run
\* without faults, once the deployments are up.
StatusIsHonest ==
  /\ Status = "CLEAN" =>
       \A n \in Name : /\ tf[n] \subseteq {"admin_credential"}
                       /\ ~jobs[n] /\ ~locked[n] /\ ~stale[n]
                       /\ agent[n] => n \in Foreign
                       /\ n # Platform => project[n] = "none" /\ ~group[n]
  /\ Status = "ATTENTION REQUIRED" =>
       \/ pc # "idle" \/ faults > 0
       \/ Recorded(Platform)
       \/ \E n \in RecordedNames : health[n] # "usable"

\* Once no more faults happen, a command that passed its checks ends in success:
\* what earlier ones left in the middle of their work is repaired or removed on
\* the way.  A Delete also needs a MongoDB that is empty and not to bear the
\* name of the permanent project.
AcceptedCompletes ==
  (/\ faults = MaxFaults
   /\ \/ pc \in {"creating", "converging"}
      \/ pc = "validating" /\ cmd.name # Platform /\ ~data[cmd.name])
    ~> (outcome = "succeeded")

-----------------------------------------------------------------------------
(* Why it keeps them: the inductive invariants of DeploymentLifecycleProofs   *)
(* (CoreInv) and of DeploymentOutcomeProofs (OutcomeInv).                    *)

\* Whatever was interrupted, a MongoDB has its storage, a record its MongoDB; no
\* name has two, and none that somebody else uses.
ResourceInv ==
  \A n \in Name :
    /\ \A t \in Type : Manifest(t) \in tf[n] => Storage(t) \in tf[n]
    /\ Recorded(n) => LiveType(n) # "none"
    /\ ~(Manifests \subseteq tf[n])
    /\ LiveType(n) # "none" => n \notin Foreign

\* The inventory of a command keeps the type of every MongoDB there is, has no name
\* that somebody else's bears, and leaves out no record but that of the deployment
\* it deletes.
PlanInv ==
  \A n \in Name :
    /\ inv[n] # "none" => LiveType(n) \in {"none", inv[n]} /\ n \notin Foreign
    /\ pc # "idle" /\ Recorded(n) /\ inv[n] = "none" =>
         pc = "destroying" /\ cmd.kind = "Delete" /\ cmd.name = n

\* A Delete cleans only behind a MongoDB that is gone.
DeleteInv ==
  /\ pc \in {"validating", "destroying", "leaving", "removing", "polling"} =>
       cmd.kind = "Delete"
  /\ pc = "emptying" => cmd.kind = "Recover"
  /\ pc \in {"cleaning", "removing", "polling"} /\ cmd.kind = "Delete" =>
       ~Live(cmd.name)
  /\ pc = "polling" => cmd.name # Platform

\* Only complete deployments hold data, and only those the running Delete has not
\* found empty.
DataInv ==
  /\ \A n \in Name : data[n] => Recorded(n) /\ tf[n] = Parts(LiveType(n))
  /\ pc = "validating" =>
       /\ op.action \in {"validate_deployment_empty", "sync"}
       /\ op.deployment = cmd.name
       /\ op.action = "sync" => ~data[cmd.name]
  /\ pc = "destroying" => ~data[cmd.name]

CoreInv == TypeOK /\ ResourceInv /\ PlanInv /\ DeleteInv /\ DataInv

\* What is up stands on what the Operator made for it, and the permanent project
\* stays, whatever the name of the deployment that is deleted.
HealthInv ==
  /\ \A n \in Name : health[n] # "down" => LiveType(n) # "none" /\ agent[n]
  /\ \A n \in Name : jobs[n] => n \notin Foreign
  /\ project[Platform] = "active"

\* Vault has no database of a deployment it does not record, nor of one that a
\* Delete found to be without.
DatabaseInv ==
  \A n \in Name : db[n] =>
    Recorded(n) /\ ~(pc \in {"validating", "destroying"} /\ cmd.name = n)

\* An Add plans for the type asked for, of what is new; and once its deployment was
\* usable, only a Delete could take the project away.
AddInv ==
  /\ pc \in {"creating", "starting", "verifying"} =>
       /\ cmd.kind = "Add" /\ inv[cmd.name] = cmd.type
       /\ ~data[cmd.name] /\ ~db[cmd.name]
  /\ pc = "verifying" /\ faults = 0 => project[cmd.name] = "active"
  /\ pc \in {"converging", "settling"} => cmd.kind = "Reconcile"

\* What a Delete or RecoverOrphanedResources cleans was destroyed before, and the
\* artifacts that are left are those it still has to clean.
CleanInv ==
  /\ pc = "cleaning" => cmd.kind \in {"Delete", "Recover"}
  /\ pc \in {"destroying", "leaving", "cleaning", "removing", "polling"}
       /\ cmd.kind = "Delete" =>
       /\ inv[cmd.name] = "none"
       /\ pc # "destroying" => tf[cmd.name] = {}
  /\ pc = "cleaning" /\ cmd.kind = "Delete" =>
       /\ todo \subseteq {cmd.name}
       /\ jobs[cmd.name] \/ agent[cmd.name] => cmd.name \in todo
  /\ pc \in {"removing", "polling"} => ~jobs[cmd.name] /\ ~agent[cmd.name]
  /\ pc \in {"emptying", "cleaning"} /\ cmd.kind = "Recover" =>
       \A n \in Name : /\ inv[n] = "none" /\ LiveType(n) = "none"
                       /\ pc = "cleaning" => tf[n] = {}
                       /\ jobs[n] \/ agent[n] => n \in todo

\* The running command takes deployment n down.
TakesDown(n) ==
  /\ cmd.kind = "Delete" /\ cmd.name = n
  /\ pc \in {"destroying", "leaving", "cleaning", "removing", "polling"}

\* As long as nothing failed, Terraform holds what the inventory says, except of
\* the deployment that is put up or taken down; hooks and locks leave nothing; and
\* Secrets and projects are those of deployments that are there, or of the one
\* that is taken down, up to the step that removes them; and what is up has a
\* project that stays.
TidyResources(n) ==
  IF pc = "idle" THEN tf[n] = IF Recorded(n) THEN Parts(LiveType(n)) ELSE {}
  ELSE tf[n] = Wanted(n) \/ (pc \in {"creating", "destroying"} /\ cmd.name = n)
TidyArtifacts(n) ==
  /\ ~jobs[n] /\ ~locked[n]
  /\ agent[n] => Live(n) \/ (TakesDown(n) /\ pc \notin {"removing", "polling"})
TidyProjects(n) ==
  /\ ~stale[n]
  /\ project[n] # "none" => n = Platform \/ LiveType(n) # "none" \/ TakesDown(n)
  /\ project[n] = "deleting" \/ (project[n] = "none" /\ group[n]) =>
       TakesDown(n) /\ pc = "polling"
TidyHealth(n) == health[n] # "down" => project[n] = "active"
TidyInv ==
  faults = 0 =>
    \A n \in Name : /\ TidyResources(n) /\ TidyArtifacts(n)
                    /\ TidyProjects(n) /\ TidyHealth(n)

OutcomeInv == HealthInv /\ DatabaseInv /\ AddInv /\ CleanInv /\ TidyInv

LifecycleInv == CoreInv /\ OutcomeInv

\* Only the commands for databases, which run when no other command does, add or
\* remove data: no apply, of whichever command, destroys storage in use.
DataKept == [][pc # "idle" => data' = data]_vars

-----------------------------------------------------------------------------
(* The lifecycle implements DeploymentService: the Vault records are the     *)
(* catalogue, the databases of MongoDB, known to Vault or not, the data.     *)

Service == INSTANCE DeploymentService WITH type <- Inventory, data <- data

\* Whatever is interrupted and repeated, a deployment is listed under one type
\* until it is deleted empty, and only the commands for databases add or remove
\* data: no apply, of this or of another command, destroys storage in use.
ServiceSpec == Service!Spec

-----------------------------------------------------------------------------
(* What the code's own texts say and a run refutes.                         *)

\* deployments.py:451: a teardown is not complete until the project and its
\* group Secret are both gone.  A project that an earlier, failed Delete had
\* asked Ops Manager to delete vanishes later, its group Secret stays, and a
\* new Add and Delete of that name succeed beside it.
DeleteLeavesNothing ==
  [][Succeeds("Delete") => ~group'[cmd.name] /\ ~stale'[cmd.name]]_vars
=============================================================================
