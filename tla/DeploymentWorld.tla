-------------------------- MODULE DeploymentWorld --------------------------
(***************************************************************************)
(* What the life of a deployment leaves on each plane: the resources of    *)
(* Terraform (terraform-dbaas/*.tf), among them the Vault record; the      *)
(* objects the MongoDB Operator and the Helm hooks create outside          *)
(* Terraform's state; the Ops Manager project and the group Secrets named  *)
(* after its ids.                                                          *)
(*                                                                         *)
(* TerraformApply looks at one ShardedCluster from inside.  Here every     *)
(* deployment is seen from outside, so that the coming and going of        *)
(* several of them can be modelled: an apply always carries the whole      *)
(* inventory, creates what is missing of it and destroys everything else.  *)
(***************************************************************************)
EXTENDS Integers

CONSTANTS
  Name,       \* the deployment names that are used
  Platform,   \* the name of the permanent Ops Manager project
  Foreign     \* the names of MongoDB resources the controller does not manage

ASSUME WorldAssumption ==
  /\ Platform \in Name
  /\ Foreign \subseteq Name \ {Platform}

VARIABLES
  tf,       \* tf[n]: the Terraform resources of deployment n that exist
  data,     \* data[n]: its MongoDB holds a user database
  health,   \* health[n]: how far the Operator has brought it
  jobs,     \* jobs[n]: hook Jobs of failed database operations are left
  agent,    \* agent[n]: the Operator's agent-auth Secret exists
  project,  \* project[n]: its Ops Manager project
  group,    \* group[n]: the group Secret of that, or the last, project exists
  stale,    \* stale[n]: a group Secret of an earlier project exists
  inv,      \* inv[n]: the deployment_type of n in the inventory of the apply
  op        \* the apply that runs and what is left of its one-shot operation

planes == <<tf, data, health, jobs, agent, project, group, stale>>

-----------------------------------------------------------------------------

Type == {"ReplicaSet", "ShardedCluster"}

Storage(t) == IF t = "ReplicaSet" THEN "replica_set_storage"
                                  ELSE "sharded_cluster_storage"
Manifest(t) == IF t = "ReplicaSet" THEN "replica_set" ELSE "sharded_cluster"

Manifests == {Manifest(t) : t \in Type}
Accounts  == {"admin_credential", "admin_password", "admin_user"}
Resource  == {Storage(t) : t \in Type} \cup Manifests \cup Accounts
               \cup {"metadata"}

\* Mutant: the metadata does not depend on the custom resources.
DependsOn_NoMetadata(r) ==
  CASE r = "replica_set"     -> {"replica_set_storage"}
    [] r = "sharded_cluster" -> {"sharded_cluster_storage"}
    [] r = "admin_user"      -> Manifests \cup {"admin_password"}
    [] OTHER                 -> {}

\* The depends_on and the references of the configuration.  They join whole
\* resources: an edge holds between all of their instances.
DependsOn(r) ==
  CASE r = "replica_set"     -> {"replica_set_storage"}
    [] r = "sharded_cluster" -> {"sharded_cluster_storage"}
    [] r = "admin_user"      -> Manifests \cup {"admin_password"}
    [] r = "metadata"        -> Manifests
    [] OTHER                 -> {}

\* Mutant: the controller administrator's MongoDBUser is not declared.
Parts_NoUser(t) ==
  {Storage(t), Manifest(t), "metadata", "admin_credential", "admin_password"}

\* What one deployment of type t consists of.
Parts(t) == {Storage(t), Manifest(t), "metadata"} \cup Accounts

Wanted(n) == IF inv[n] = "none" THEN {} ELSE Parts(inv[n])

\* The custom resource of a managed deployment, by its type.
LiveType(n) == IF "replica_set" \in tf[n] THEN "ReplicaSet"
               ELSE IF "sharded_cluster" \in tf[n] THEN "ShardedCluster"
               ELSE "none"

\* A MongoDB resource of that name exists, whoever owns it.
Live(n) == n \in Foreign \/ LiveType(n) # "none"

\* load_inventory: the deployments whose metadata Vault holds.  A record
\* carries the deployment_type of the custom resource it was written after.
Recorded(n) == "metadata" \in tf[n]
Inventory   == [n \in Name |-> IF Recorded(n) THEN LiveType(n) ELSE "none"]
NoInventory == [n \in Name |-> "none"]

Operation   == [action : {"off", "sync", "verify_controller_admin",
                          "validate_deployment_empty"},
                deployment : Name]
NoOperation == [action |-> "off", deployment |-> Platform]

WorldTypeOK ==
  /\ tf \in [Name -> SUBSET Resource]
  /\ data \in [Name -> BOOLEAN]
  /\ health \in [Name -> {"down", "running", "usable"}]
  /\ jobs \in [Name -> BOOLEAN]
  /\ agent \in [Name -> BOOLEAN]
  /\ project \in [Name -> {"none", "active", "deleting"}]
  /\ group \in [Name -> BOOLEAN]
  /\ stale \in [Name -> BOOLEAN]
  /\ inv \in [Name -> Type \cup {"none"}]
  /\ op \in Operation

\* The deployments up, all of type t, are usable.  Whether an unmanaged MongoDB
\* has an agent-auth Secret depends on how its owner set it up.
WorldInit(up, t) ==
  /\ tf = [n \in Name |-> IF n \in up THEN Parts(t) ELSE {}]
  /\ data = [n \in Name |-> FALSE]
  /\ health = [n \in Name |-> IF n \in up THEN "usable" ELSE "down"]
  /\ jobs = [n \in Name |-> FALSE]
  /\ \E secrets \in SUBSET Foreign : agent = [n \in Name |-> n \in up \cup secrets]
  /\ project = [n \in Name |-> IF n \in up \cup {Platform} THEN "active" ELSE "none"]
  /\ group = [n \in Name |-> n \in up \cup {Platform}]
  /\ stale = [n \in Name |-> FALSE]
  /\ inv = NoInventory
  /\ op = NoOperation

-----------------------------------------------------------------------------
(* Terraform's steps.  Each is one resource; their order is any the graph   *)
(* allows.                                                                  *)

Applying == op.action # "off"

\* kubernetes_manifest refuses to create an object that already exists.
Creatable(n, r) ==
  /\ r \in Wanted(n) \ tf[n]
  /\ r \in Manifests => ~Live(n)
  /\ \A m \in Name : DependsOn(r) \cap Wanted(m) \subseteq tf[m]

CreateResource(n, r) ==
  /\ Applying
  /\ Creatable(n, r)
  /\ tf' = [tf EXCEPT ![n] = @ \cup {r}]
  /\ UNCHANGED <<data, health, jobs, agent, project, group, stale, inv, op>>

\* What depends on a resource is destroyed before it.
Destroyable(n, r) ==
  /\ r \in tf[n] \ Wanted(n)
  /\ \A m \in Name : \A q \in tf[m] \ Wanted(m) : r \notin DependsOn(q)

\* The cleanup scripts of the storage resources remove the directories the data
\* lies in.
DestroyResource(n, r) ==
  /\ Applying
  /\ Destroyable(n, r)
  /\ tf' = [tf EXCEPT ![n] = @ \ {r}]
  /\ data' = [data EXCEPT ![n] = @ /\ r \notin {Storage(t) : t \in Type}]
  /\ health' = [health EXCEPT ![n] =
       IF r \in Manifests THEN "down"
       ELSE IF r = "admin_user" /\ @ = "usable" THEN "running" ELSE @]
  /\ UNCHANGED <<jobs, agent, project, group, stale, inv, op>>

\* Mutant: a MongoDB that holds data passes for empty.
RunOperation_NotEmpty ==
  /\ op.action \in {"verify_controller_admin", "validate_deployment_empty"}
  /\ health[op.deployment] = "usable"
  /\ op' = [op EXCEPT !.action = "sync"]
  /\ UNCHANGED <<planes, inv>>

\* terraform_data.lifecycle_operation: the scripts try until the controller
\* administrator can log in; validation then succeeds on an empty MongoDB.
RunOperation ==
  /\ op.action \in {"verify_controller_admin", "validate_deployment_empty"}
  /\ health[op.deployment] = "usable"
  /\ op.action = "validate_deployment_empty" => ~data[op.deployment]
  /\ op' = [op EXCEPT !.action = "sync"]
  /\ UNCHANGED <<planes, inv>>

OperationRefused ==
  /\ op.action = "validate_deployment_empty"
  /\ health[op.deployment] = "usable"
  /\ data[op.deployment]

Converged == op.action = "sync" /\ \A n \in Name : tf[n] = Wanted(n)

ApplyStep ==
  \/ \E n \in Name, r \in Resource : CreateResource(n, r) \/ DestroyResource(n, r)
  \/ RunOperation

-----------------------------------------------------------------------------
(* The MongoDB Operator and Ops Manager, external: what the controller's    *)
(* waits, checks and inventories observe of them.                           *)

\* The Operator finds its project by name; a new one comes with a new id and
\* so with a group Secret of a new name, and the deployment is set up in it anew.
CreateProject(n) ==
  /\ LiveType(n) # "none" /\ project[n] = "none"
  /\ project' = [project EXCEPT ![n] = "active"]
  /\ group' = [group EXCEPT ![n] = TRUE]
  /\ stale' = [stale EXCEPT ![n] = @ \/ group[n]]
  /\ health' = [health EXCEPT ![n] = "down"]
  /\ UNCHANGED <<tf, data, jobs, agent>>

\* A project that Ops Manager has yet to delete is found like any other: a
\* deployment can be set up, and reach Running, in one that is on its way out.
CreateAgentSecret(n) ==
  /\ LiveType(n) # "none" /\ project[n] # "none" /\ ~agent[n]
  /\ agent' = [agent EXCEPT ![n] = TRUE]
  /\ UNCHANGED <<tf, data, health, jobs, project, group, stale>>

BecomeRunning(n) ==
  /\ LiveType(n) # "none" /\ project[n] # "none" /\ agent[n]
  /\ health[n] = "down"
  /\ health' = [health EXCEPT ![n] = "running"]
  /\ UNCHANGED <<tf, data, jobs, agent, project, group, stale>>

\* The MongoDBUser of the controller administrator reaches Updated.
AdminUpdated(n) ==
  /\ health[n] = "running"
  /\ {"admin_user", "admin_password"} \subseteq tf[n]
  /\ health' = [health EXCEPT ![n] = "usable"]
  /\ UNCHANGED <<tf, data, jobs, agent, project, group, stale>>

\* Ops Manager carries out a deletion it answered with 202.  The group Secret
\* stays; a deployment of that name keeps the phase it had until the Operator
\* notices.
ProjectGone(n) ==
  /\ project[n] = "deleting"
  /\ project' = [project EXCEPT ![n] = "none"]
  /\ UNCHANGED <<tf, data, health, jobs, agent, group, stale>>

OperatorStep ==
  /\ \E n \in Name : \/ CreateProject(n)
                     \/ CreateAgentSecret(n)
                     \/ BecomeRunning(n)
                     \/ AdminUpdated(n)
                     \/ ProjectGone(n)
  /\ UNCHANGED <<inv, op>>

\* Members are lost: the resource leaves Running until they are back.
PodsLost(n) ==
  /\ health[n] # "down"
  /\ health' = [health EXCEPT ![n] = "down"]
  /\ UNCHANGED <<tf, data, jobs, agent, project, group, stale, inv, op>>
=============================================================================
