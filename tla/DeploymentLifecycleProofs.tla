---------------------- MODULE DeploymentLifecycleProofs ----------------------
(***************************************************************************)
(* Proofs about DeploymentLifecycle, for every set of names, every mix of  *)
(* commands and every bound on commands and faults: the inductive          *)
(* invariant CoreInv, and from it what no interrupted command can break:   *)
(* records and MongoDBs (RecordedIsLive, RecordKept), what is in use       *)
(* (InUseKept, DataKept), and the refinement of DeploymentService.         *)
(***************************************************************************)
EXTENDS DeploymentLifecycle, TLAPS

-----------------------------------------------------------------------------
(* Types.                                                                   *)

\* The inventory read from Vault has one of the types, or none, for each name.
LEMMA InventoryType ==
  /\ Inventory \in [Name -> Type \cup {"none"}]
  /\ NoInventory \in [Name -> Type \cup {"none"}]
  /\ NoOperation \in Operation
  /\ NoCommand \in Command
  /\ ~(NoOperation.action # "off")
<1>1. \A n \in Name : LiveType(n) \in Type \cup {"none"}
  BY DEF LiveType, Type
<1>2. Inventory \in [Name -> Type \cup {"none"}]
  BY <1>1 DEF Inventory
<1> QED
  BY <1>2, WorldAssumption DEF NoInventory, NoOperation, Operation, NoCommand, Command, Type

\* Init has the right types.
LEMMA InitType == Init => TypeOK
<1> SUFFICES ASSUME Init
             PROVE  TypeOK
  OBVIOUS
<1>1. tf \in [Name -> SUBSET Resource]
  <2>1. DeployedType \in Type
    BY LifecycleAssumption
  <2>2. Parts(DeployedType) \subseteq Resource
    BY <2>1 DEF Parts, Resource, Storage, Manifest, Manifests, Accounts, Type
  <2> QED
    BY <2>2 DEF Init, WorldInit
<1>2. agent \in [Name -> BOOLEAN]
  BY DEF Init, WorldInit
<1>3. WorldTypeOK
  BY <1>1, <1>2, InventoryType DEF Init, WorldInit, WorldTypeOK
<1>4. (pc \in ApplyPC) = Applying
  BY DEF Init, WorldInit, NoOperation, Applying, ApplyPC
<1>5. /\ pc \in PC /\ cmd \in Command /\ todo \subseteq Name
      /\ outcome \in {"none", "succeeded", "failed"}
      /\ commands \in 0 .. MaxCommands /\ faults \in 0 .. MaxFaults
  BY InventoryType, LifecycleAssumption DEF Init, PC
<1>6. locked \in [Name -> BOOLEAN] /\ db \in [Name -> BOOLEAN]
  BY DEF Init
<1> QED
  BY <1>3, <1>4, <1>5, <1>6 DEF TypeOK

\* Where a command goes on without an apply.
LEMMA GotoType ==
  ASSUME NEW p \in PC \ ApplyPC, Goto(p)
  PROVE  /\ pc' \in PC /\ op' \in Operation
         /\ (pc' \in ApplyPC) = (op'.action # "off")
BY InventoryType DEF Goto

\* Where a command starts an apply.
LEMMA ApplyType ==
  ASSUME NEW p \in ApplyPC, NEW i \in [Name -> Type \cup {"none"}], NEW n \in Name,
         NEW a \in {"sync", "verify_controller_admin", "validate_deployment_empty"},
         Apply(p, i, a, n)
  PROVE  /\ pc' \in PC /\ op' \in Operation /\ inv' \in [Name -> Type \cup {"none"}]
         /\ (pc' \in ApplyPC) = (op'.action # "off")
BY DEF Apply, Operation, PC

\* Ending a command keeps TypeOK.
LEMMA FinishType ==
  ASSUME TypeOK, NEW r \in {"succeeded", "failed"}, Finish(r), UNCHANGED planes,
         faults' \in 0 .. MaxFaults
  PROVE  TypeOK'
<1>1. Goto("idle") /\ "idle" \in PC \ ApplyPC
  BY DEF Finish, PC, ApplyPC
<1> QED
  BY <1>1, GotoType, InventoryType
  DEF Finish, TypeOK, WorldTypeOK, planes, Applying

\* A fault is counted.
LEMMA FaultType ==
  ASSUME TypeOK, Fault
  PROVE  faults' \in 0 .. MaxFaults
BY LifecycleAssumption DEF TypeOK, Fault

\* A step that keeps the command in its place keeps the rest of TypeOK.
LEMMA InPlaceType ==
  ASSUME TypeOK, UNCHANGED <<inv, op, locked, db, pc, cmd, outcome, commands>>,
         todo' \subseteq Name, faults' \in 0 .. MaxFaults,
         tf' \in [Name -> SUBSET Resource], data' \in [Name -> BOOLEAN],
         health' \in [Name -> {"down", "running", "usable"}],
         jobs' \in [Name -> BOOLEAN], agent' \in [Name -> BOOLEAN],
         project' \in [Name -> {"none", "active", "deleting"}],
         group' \in [Name -> BOOLEAN], stale' \in [Name -> BOOLEAN]
  PROVE  TypeOK'
BY DEF TypeOK, WorldTypeOK, Applying

\* Terraform's steps keep TypeOK.
LEMMA ApplyStepType ==
  ASSUME TypeOK, ApplyStep, UNCHANGED control
  PROVE  TypeOK'
<1>1. ASSUME NEW n \in Name, NEW r \in Resource, CreateResource(n, r)
      PROVE  TypeOK'
  <2>1. tf' \in [Name -> SUBSET Resource]
    BY <1>1 DEF CreateResource, TypeOK, WorldTypeOK
  <2> QED
    BY <1>1, <2>1, InPlaceType DEF CreateResource, TypeOK, WorldTypeOK, control
<1>2. ASSUME NEW n \in Name, NEW r \in Resource, DestroyResource(n, r)
      PROVE  TypeOK'
  <2>1. tf' \in [Name -> SUBSET Resource]
    BY <1>2 DEF DestroyResource, TypeOK, WorldTypeOK
  <2>2. data' \in [Name -> BOOLEAN]
    BY <1>2 DEF DestroyResource, TypeOK, WorldTypeOK
  <2>3. health' \in [Name -> {"down", "running", "usable"}]
    BY <1>2 DEF DestroyResource, TypeOK, WorldTypeOK
  <2> QED
    BY <1>2, <2>1, <2>2, <2>3, InPlaceType
    DEF DestroyResource, TypeOK, WorldTypeOK, control
<1>3. CASE RunOperation
  <2>1. op' \in Operation /\ op'.action # "off" /\ Applying
    BY <1>3 DEF RunOperation, TypeOK, WorldTypeOK, Operation, Applying
  <2> QED
    BY <1>3, <2>1 DEF RunOperation, TypeOK, WorldTypeOK, control, planes, Applying
<1> QED
  BY <1>1, <1>2, <1>3 DEF ApplyStep

\* So do the steps of the Operator and of Ops Manager.
LEMMA OperatorStepType ==
  ASSUME TypeOK, OperatorStep, UNCHANGED control
  PROVE  TypeOK'
<1> PICK n \in Name : \/ CreateProject(n) \/ CreateAgentSecret(n)
                      \/ BecomeRunning(n) \/ AdminUpdated(n) \/ ProjectGone(n)
  BY DEF OperatorStep
<1> USE DEF TypeOK, WorldTypeOK, control, OperatorStep
<1>1. CASE CreateProject(n)
  BY <1>1, InPlaceType DEF CreateProject
<1>2. CASE CreateAgentSecret(n)
  BY <1>2, InPlaceType DEF CreateAgentSecret
<1>3. CASE BecomeRunning(n)
  BY <1>3, InPlaceType DEF BecomeRunning
<1>4. CASE AdminUpdated(n)
  BY <1>4, InPlaceType DEF AdminUpdated
<1>5. CASE ProjectGone(n)
  BY <1>5, InPlaceType DEF ProjectGone
<1> QED
  BY <1>1, <1>2, <1>3, <1>4, <1>5

\* A submitted command that starts an apply keeps TypeOK.
LEMMA BeginApplyType ==
  ASSUME TypeOK, NEW c \in Command, NEW p \in ApplyPC, NEW n \in Name,
         NEW i \in [Name -> Type \cup {"none"}],
         NEW a \in {"sync", "verify_controller_admin", "validate_deployment_empty"},
         Begin(c), Apply(p, i, a, n), todo' \subseteq Name, outcome' = "none"
  PROVE  TypeOK'
<1>1. /\ pc' \in PC /\ op' \in Operation /\ inv' \in [Name -> Type \cup {"none"}]
      /\ (pc' \in ApplyPC) = (op'.action # "off")
  BY ApplyType
<1>2. commands' \in 0 .. MaxCommands
  BY LifecycleAssumption DEF Begin, TypeOK
<1> QED
  BY <1>1, <1>2 DEF Begin, TypeOK, WorldTypeOK, planes, Applying

\* Every command that is submitted keeps TypeOK.
LEMMA SubmittedType ==
  ASSUME TypeOK, Submitted
  PROVE  TypeOK'
<1>1. ASSUME NEW n \in Name, NEW t \in Type, AddDeployment(n, t)
      PROVE  TypeOK'
  <2> DEFINE c == [kind |-> "Add", name |-> n, type |-> t]
             i == [Inventory EXCEPT ![n] = t]
  <2>1. c \in Command
    BY DEF Command
  <2>2. i \in [Name -> Type \cup {"none"}]
    BY InventoryType
  <2>3. Begin(c) /\ Apply("creating", i, "sync", n) /\ todo' = todo /\ outcome' = "none"
    BY <1>1 DEF AddDeployment
  <2> HIDE DEF c, i
  <2> QED
    BY <2>1, <2>2, <2>3, BeginApplyType DEF TypeOK, ApplyPC
<1>2. ASSUME NEW n \in Name, NEW t \in Type, DeleteDeployment(n, t)
      PROVE  TypeOK'
  <2> DEFINE c == [kind |-> "Delete", name |-> n, type |-> t]
  <2>1. c \in Command
    BY DEF Command
  <2>2. /\ Begin(c) /\ Apply("validating", Inventory, "validate_deployment_empty", n)
        /\ todo' = todo /\ outcome' = "none"
    BY <1>2 DEF DeleteDeployment
  <2> HIDE DEF c
  <2> QED
    BY <2>1, <2>2, BeginApplyType, InventoryType DEF TypeOK, ApplyPC
<1>3. ASSUME NEW n \in Name, ManageDatabase(n)
      PROVE  TypeOK'
  <2>1. LiveType(n) \in Type
    <3>1. tf[n] = Parts(LiveType(n))
      BY <1>3 DEF ManageDatabase
    <3>2. Manifest(LiveType(n)) \in tf[n]
      BY <3>1 DEF Parts
    <3> QED
      BY <3>2 DEF Manifest, LiveType, Type
  <2>2. cmd' \in Command
    BY <1>3, <2>1 DEF ManageDatabase, Command
  <2>3. commands' \in 0 .. MaxCommands
    BY <1>3, LifecycleAssumption DEF ManageDatabase, TypeOK
  <2>4. /\ db' \in [Name -> BOOLEAN] /\ data' \in [Name -> BOOLEAN]
        /\ jobs' \in [Name -> BOOLEAN] /\ locked' \in [Name -> BOOLEAN]
        /\ outcome' \in {"none", "succeeded", "failed"}
    BY <1>3 DEF ManageDatabase, TypeOK, WorldTypeOK
  <2>5. faults' \in 0 .. MaxFaults
    BY <1>3, FaultType DEF ManageDatabase, TypeOK
  <2>6. UNCHANGED <<tf, health, agent, project, group, stale, inv, op, pc, todo>>
    BY <1>3 DEF ManageDatabase
  <2> QED
    BY <2>2, <2>3, <2>4, <2>5, <2>6 DEF TypeOK, WorldTypeOK, Applying
<1>4. CASE NothingToReconcile
  <2>1. [NoCommand EXCEPT !.kind = "Reconcile"] \in Command
    BY InventoryType DEF NoCommand, Command
  <2>2. Goto("idle") /\ "idle" \in PC \ ApplyPC
    BY <1>4 DEF NothingToReconcile, PC, ApplyPC
  <2>3. commands' \in 0 .. MaxCommands
    BY <1>4, LifecycleAssumption DEF NothingToReconcile, Begin, TypeOK
  <2>4. /\ cmd' \in Command /\ outcome' = "succeeded"
        /\ UNCHANGED <<planes, locked, db, faults, inv, todo>>
    BY <1>4, <2>1 DEF NothingToReconcile, Begin
  <2> QED
    BY <2>2, <2>3, <2>4, GotoType DEF TypeOK, WorldTypeOK, planes, Applying
<1>5. CASE Reconcile
  <2> DEFINE c == [NoCommand EXCEPT !.kind = "Reconcile"]
  <2>1. c \in Command
    BY InventoryType DEF NoCommand, Command
  <2>2. /\ Begin(c) /\ Apply("converging", Inventory, "sync", Platform)
        /\ todo' = RecordedNames /\ outcome' = "none"
    BY <1>5 DEF Reconcile
  <2> HIDE DEF c
  <2> QED
    BY <2>1, <2>2, BeginApplyType, InventoryType, WorldAssumption
    DEF RecordedNames, ApplyPC
<1>6. CASE RecoverOrphanedResources
  <2> DEFINE c == [NoCommand EXCEPT !.kind = "Recover"]
  <2>1. c \in Command
    BY InventoryType DEF NoCommand, Command
  <2>2. /\ Begin(c) /\ Apply("emptying", NoInventory, "sync", Platform)
        /\ todo' = DiscoveredKeys /\ outcome' = "none"
    BY <1>6 DEF RecoverOrphanedResources
  <2> HIDE DEF c
  <2> QED
    BY <2>1, <2>2, BeginApplyType, InventoryType, WorldAssumption
    DEF DiscoveredKeys, ApplyPC
<1> QED
  BY <1>1, <1>2, <1>3, <1>4, <1>5, <1>6 DEF Submitted

\* A step to a place without an apply keeps TypeOK.
LEMMA LocalType ==
  ASSUME TypeOK, NEW p \in PC \ ApplyPC, Goto(p), todo' \subseteq Name,
         UNCHANGED <<planes, inv, locked, db, cmd, outcome, commands, faults>>
  PROVE  TypeOK'
BY GotoType DEF TypeOK, WorldTypeOK, planes, Applying

\* The command's next apply keeps TypeOK.
LEMMA NextApplyType ==
  ASSUME TypeOK, NEW p \in ApplyPC, NEW n \in Name,
         NEW i \in [Name -> Type \cup {"none"}],
         NEW a \in {"sync", "verify_controller_admin", "validate_deployment_empty"},
         Apply(p, i, a, n), UNCHANGED planes, Same
  PROVE  TypeOK'
<1>1. /\ pc' \in PC /\ op' \in Operation /\ inv' \in [Name -> Type \cup {"none"}]
      /\ (pc' \in ApplyPC) = (op'.action # "off")
  BY ApplyType
<1> QED
  BY <1>1 DEF Same, TypeOK, WorldTypeOK, planes, Applying

\* So do all the other steps of a command.
LEMMA ControllerType ==
  ASSUME TypeOK, Controller
  PROVE  TypeOK'
<1>1. CASE ApplyStep /\ UNCHANGED control
  BY <1>1, ApplyStepType
<1>2. CASE Created \/ Destroyed \/ Reconciled \/ Emptied
  BY <1>2, LocalType
  DEF Created, Destroyed, Reconciled, Emptied, Same, TypeOK, PC, ApplyPC
<1>3. CASE Started
  <2>1. cmd.name \in Name /\ inv \in [Name -> Type \cup {"none"}]
    BY DEF TypeOK, WorldTypeOK, Command
  <2> QED
    BY <1>3, <2>1, NextApplyType DEF Started, ApplyPC
<1>4. CASE Validated
  <2>1. cmd.name \in Name /\ [inv EXCEPT ![cmd.name] = "none"] \in [Name -> Type \cup {"none"}]
    BY DEF TypeOK, WorldTypeOK, Command
  <2> QED
    BY <1>4, <2>1, NextApplyType DEF Validated, ApplyPC
<1>5. CASE Verified \/ NotEmpty \/ Settled \/ CleanRefused \/ NoProject
  BY <1>5, FinishType
  DEF Verified, NotEmpty, Settled, CleanRefused, NoProject, TypeOK
<1>6. CASE Absent
  BY <1>6, LocalType DEF Absent, TypeOK, Command, PC, ApplyPC
<1>7. CASE RemoveProject
  <2>1. project' \in [Name -> {"none", "active", "deleting"}]
    BY <1>7 DEF RemoveProject, TypeOK, WorldTypeOK
  <2>2. Goto("polling") /\ "polling" \in PC \ ApplyPC
    BY <1>7 DEF RemoveProject, PC, ApplyPC
  <2> QED
    BY <1>7, <2>1, <2>2, GotoType
    DEF RemoveProject, Same, TypeOK, WorldTypeOK, Applying
<1>8. CASE ProjectRemoved
  <2>1. group' \in [Name -> BOOLEAN]
    BY <1>8 DEF ProjectRemoved, TypeOK, WorldTypeOK
  <2>2. Goto("idle") /\ "idle" \in PC \ ApplyPC
    BY <1>8 DEF ProjectRemoved, Finish, PC, ApplyPC
  <2> QED
    BY <1>8, <2>1, <2>2, GotoType, InventoryType
    DEF ProjectRemoved, Finish, TypeOK, WorldTypeOK, Applying
<1>9. ASSUME NEW k \in Name, CleanJobs(k)
      PROVE  TypeOK'
  <2>1. jobs' \in [Name -> BOOLEAN]
    BY <1>9 DEF CleanJobs, TypeOK, WorldTypeOK
  <2> QED
    BY <1>9, <2>1, InPlaceType DEF CleanJobs, Same, TypeOK, WorldTypeOK
<1>10. ASSUME NEW k \in Name, CleanSecret(k)
       PROVE  TypeOK'
  <2>1. agent' \in [Name -> BOOLEAN] /\ todo' \subseteq Name
    BY <1>10 DEF CleanSecret, TypeOK, WorldTypeOK
  <2> QED
    BY <1>10, <2>1, InPlaceType DEF CleanSecret, TypeOK, WorldTypeOK
<1>11. CASE Cleaned
  <2>1. CASE cmd.kind = "Delete" /\ Goto("removing") /\ UNCHANGED inv /\ Same
    BY <1>11, <2>1, LocalType DEF Cleaned, Same, TypeOK, PC, ApplyPC
  <2>2. CASE cmd.kind = "Recover" /\ Finish("succeeded") /\ UNCHANGED faults
    BY <1>11, <2>2, FinishType DEF Cleaned, TypeOK
  <2> QED
    BY <1>11, <2>1, <2>2 DEF Cleaned
<1>12. ASSUME NEW n \in Name, Settle(n)
       PROVE  TypeOK'
  <2>1. todo' \subseteq Name
    BY <1>12 DEF Settle, TypeOK
  <2> QED
    BY <1>12, <2>1, InPlaceType DEF Settle, TypeOK, WorldTypeOK, planes
<1> QED
  BY <1>1, <1>2, <1>3, <1>4, <1>5, <1>6, <1>7, <1>8, <1>9, <1>10, <1>11, <1>12
  DEF Controller

\* Every step keeps TypeOK.
LEMMA NextType ==
  ASSUME TypeOK, [Next]_vars
  PROVE  TypeOK'
<1>1. CASE Submitted
  BY <1>1, SubmittedType
<1>2. CASE Controller
  BY <1>2, ControllerType
<1>3. CASE Operator
  BY <1>3, OperatorStepType DEF Operator
<1>4. CASE Interrupted
  BY <1>4, FinishType, FaultType DEF Interrupted
<1>5. ASSUME NEW n \in Name, PodLoss(n)
      PROVE  TypeOK'
  <2>1. health' \in [Name -> {"down", "running", "usable"}]
    BY <1>5 DEF PodLoss, PodsLost, TypeOK, WorldTypeOK
  <2> QED
    BY <1>5, <2>1, FaultType, InPlaceType DEF PodLoss, PodsLost, TypeOK, WorldTypeOK
<1>6. CASE UNCHANGED vars
  BY <1>6 DEF vars, planes, control, TypeOK, WorldTypeOK, Applying
<1> QED
  BY <1>1, <1>2, <1>3, <1>4, <1>5, <1>6 DEF Next

\* Every variable keeps its type, for any names and any bounds.
THEOREM TypeCorrect == Spec => []TypeOK
<1>1. TypeOK /\ [Next]_vars => TypeOK'
  BY NextType
<1> QED
  BY InitType, <1>1, PTL DEF Spec

-----------------------------------------------------------------------------
(* The inductive invariant.                                                 *)

\* CoreInv but for the types.
Inv == ResourceInv /\ PlanInv /\ DeleteInv /\ DataInv

\* What a deployment consists of, by its type.
LEMMA PartsOf ==
  /\ Parts("ReplicaSet") = {"replica_set_storage", "replica_set", "metadata",
        "admin_credential", "admin_password", "admin_user"}
  /\ Parts("ShardedCluster") = {"sharded_cluster_storage", "sharded_cluster", "metadata",
        "admin_credential", "admin_password", "admin_user"}
  /\ Manifests = {"replica_set", "sharded_cluster"}
  /\ Manifest("ReplicaSet") = "replica_set"
  /\ Manifest("ShardedCluster") = "sharded_cluster"
  /\ Storage("ReplicaSet") = "replica_set_storage"
  /\ Storage("ShardedCluster") = "sharded_cluster_storage"
BY DEF Parts, Storage, Manifest, Manifests, Accounts, Type

\* What ResourceInv says, resource by resource.
LEMMA ResourceCases ==
  ResourceInv <=>
    \A n \in Name :
      /\ "replica_set" \in tf[n] => "replica_set_storage" \in tf[n]
      /\ "sharded_cluster" \in tf[n] => "sharded_cluster_storage" \in tf[n]
      /\ "metadata" \in tf[n] => "replica_set" \in tf[n] \/ "sharded_cluster" \in tf[n]
      /\ ~("replica_set" \in tf[n] /\ "sharded_cluster" \in tf[n])
      /\ "replica_set" \in tf[n] \/ "sharded_cluster" \in tf[n] => n \notin Foreign
BY PartsOf DEF ResourceInv, Recorded, LiveType, Type

\* The type of a MongoDB is told by its custom resource.
LEMMA LiveTypeOf ==
  ASSUME NEW n \in Name
  PROVE  /\ LiveType(n) \in Type \cup {"none"}
         /\ LiveType(n) = "ReplicaSet" <=> "replica_set" \in tf[n]
         /\ LiveType(n) = "ShardedCluster" <=>
              "replica_set" \notin tf[n] /\ "sharded_cluster" \in tf[n]
         /\ LiveType(n) # "none" <=> "replica_set" \in tf[n] \/ "sharded_cluster" \in tf[n]
BY DEF LiveType, Type

\* Init satisfies the invariant.
LEMMA InitInv == Init => Inv
<1> SUFFICES ASSUME Init
             PROVE  Inv
  OBVIOUS
<1>1. \A n \in Name : tf[n] = IF n \in Deployed THEN Parts(DeployedType) ELSE {}
  BY DEF Init, WorldInit
<1>2. DeployedType \in Type /\ Deployed \cap Foreign = {}
  BY LifecycleAssumption
<1>3. ResourceInv
  BY <1>1, <1>2, ResourceCases, PartsOf DEF Type
<1>4. PlanInv
  BY DEF Init, WorldInit, PlanInv, NoInventory
<1>5. DeleteInv /\ DataInv
  BY DEF Init, WorldInit, DeleteInv, DataInv
<1> QED
  BY <1>3, <1>4, <1>5 DEF Inv

\* A step that changes neither resources nor data, nor the place, name or plan of
\* the command, keeps the invariant.
LEMMA StillInv ==
  ASSUME Inv, UNCHANGED <<tf, data, inv, op, pc, cmd>>
  PROVE  Inv'
BY DEF Inv, ResourceInv, PlanInv, DeleteInv, DataInv, Recorded, LiveType, Live

\* So does the end of a command.
LEMMA IdleInv ==
  ASSUME Inv, UNCHANGED <<tf, data>>, pc' = "idle", inv' \in {inv, NoInventory}
  PROVE  Inv'
<1>1. ResourceInv'
  BY DEF Inv, ResourceInv, Recorded, LiveType
<1>2. PlanInv'
  BY DEF Inv, PlanInv, NoInventory, LiveType
<1>3. DeleteInv'
  BY DEF DeleteInv
<1>4. DataInv'
  BY DEF Inv, DataInv, Recorded, LiveType
<1> QED
  BY <1>1, <1>2, <1>3, <1>4 DEF Inv

\* A step to a place where no apply runs keeps it, if the MongoDB a Delete cleans
\* behind is gone and an apply that removed its record has converged.
LEMMA LocalInv ==
  ASSUME Inv, UNCHANGED <<tf, data, inv, cmd>>,
         pc # "idle", pc' \notin {"idle"} \cup ApplyPC,
         pc' \in {"leaving", "removing", "polling"} => cmd.kind = "Delete",
         pc' \in {"cleaning", "removing", "polling"} /\ cmd.kind = "Delete"
           => ~Live(cmd.name),
         pc' = "polling" => cmd.name # Platform,
         pc = "destroying" => Converged
  PROVE  Inv'
<1>1. ResourceInv'
  BY DEF Inv, ResourceInv, Recorded, LiveType
<1>2. PlanInv'
  <2>1. pc = "destroying" =>
          \A n \in Name : inv[n] = "none" => ~Recorded(n)
    BY DEF Converged, Wanted, Recorded
  <2> QED
    BY <2>1 DEF Inv, PlanInv, LiveType, Recorded
<1>3. DeleteInv'
  BY DEF DeleteInv, Live, LiveType, ApplyPC
<1>4. DataInv'
  BY DEF Inv, DataInv, Recorded, LiveType, ApplyPC
<1> QED
  BY <1>1, <1>2, <1>3, <1>4 DEF Inv

\* An apply that starts keeps it, if it is given every recorded deployment and the
\* type of every MongoDB there is.
LEMMA ApplyInv ==
  ASSUME Inv, UNCHANGED <<tf, data>>,
         pc' \in ApplyPC \ {"destroying"},
         pc' = "validating" =>
           /\ cmd'.kind = "Delete" /\ op'.deployment = cmd'.name
           /\ op'.action = "validate_deployment_empty",
         pc' = "emptying" => cmd'.kind = "Recover",
         \A n \in Name : inv'[n] # "none" =>
           LiveType(n) \in {"none", inv'[n]} /\ n \notin Foreign,
         \A n \in Name : Recorded(n) => inv'[n] # "none"
  PROVE  Inv'
<1>1. ResourceInv'
  BY DEF Inv, ResourceInv, Recorded, LiveType
<1>2. PlanInv'
  BY DEF PlanInv, LiveType, Recorded
<1>3. DeleteInv'
  BY DEF DeleteInv, ApplyPC
<1>4. DataInv'
  BY DEF Inv, DataInv, Recorded, LiveType, ApplyPC
<1> QED
  BY <1>1, <1>2, <1>3, <1>4 DEF Inv

\* The inventory of Vault is such a one.
LEMMA InventoryKeeps ==
  ASSUME Inv, NEW n \in Name
  PROVE  /\ Inventory[n] # "none" => LiveType(n) = Inventory[n] /\ n \notin Foreign
         /\ Recorded(n) => Inventory[n] # "none"
BY DEF Inv, ResourceInv, Inventory

\* Terraform creates what is wanted, above what it stands on.
LEMMA CreateInv ==
  ASSUME TypeOK, Inv, NEW n \in Name, NEW r \in Resource, CreateResource(n, r),
         UNCHANGED control
  PROVE  Inv' /\ ~data[n]
<1>1. /\ tf' = [tf EXCEPT ![n] = @ \cup {r}] /\ UNCHANGED <<data, inv, op, pc, cmd>>
      /\ tf \in [Name -> SUBSET Resource]
  BY DEF CreateResource, control, TypeOK, WorldTypeOK
<1>2. inv[n] \in Type /\ r \in Parts(inv[n]) \ tf[n]
  BY DEF CreateResource, Creatable, Wanted, TypeOK, WorldTypeOK
<1>3. r \in Manifests => LiveType(n) = "none" /\ n \notin Foreign
  BY DEF CreateResource, Creatable, Live
<1>4. DependsOn(r) \cap Parts(inv[n]) \subseteq tf[n]
  BY <1>2 DEF CreateResource, Creatable, Wanted, Type
<1>5. /\ r = "replica_set" => inv[n] = "ReplicaSet" /\ "replica_set_storage" \in tf[n]
      /\ r = "sharded_cluster" => inv[n] = "ShardedCluster" /\ "sharded_cluster_storage" \in tf[n]
      /\ r = "metadata" => "replica_set" \in tf[n] \/ "sharded_cluster" \in tf[n]
  BY <1>2, <1>4, PartsOf DEF DependsOn, Type
<1>6. /\ tf'[n] = tf[n] \cup {r}
      /\ \A m \in Name \ {n} : tf'[m] = tf[m]
  BY <1>1
<1>7. ~data[n]
  <2>1. data[n] => tf[n] = Parts(inv[n])
    BY <1>2 DEF Inv, DataInv, PlanInv, ResourceInv, Type
  <2> QED
    BY <2>1, <1>2
<1>8. ResourceInv'
  <2>1. ResourceInv
    BY DEF Inv
  <2>2. ASSUME NEW m \in Name
        PROVE  /\ "replica_set" \in tf'[m] => "replica_set_storage" \in tf'[m]
               /\ "sharded_cluster" \in tf'[m] => "sharded_cluster_storage" \in tf'[m]
               /\ "metadata" \in tf'[m] =>
                    "replica_set" \in tf'[m] \/ "sharded_cluster" \in tf'[m]
               /\ ~("replica_set" \in tf'[m] /\ "sharded_cluster" \in tf'[m])
               /\ "replica_set" \in tf'[m] \/ "sharded_cluster" \in tf'[m] => m \notin Foreign
    <3>1. CASE m = n
      BY <3>1, <2>1, <1>3, <1>5, <1>6, ResourceCases, LiveTypeOf, PartsOf
    <3>2. CASE m # n
      BY <3>2, <2>1, <1>6, ResourceCases
    <3> QED
      BY <3>1, <3>2
  <2> QED
    BY <2>2, PartsOf DEF ResourceInv, Recorded, LiveType, Type
<1>9. LiveType(n)' \in {LiveType(n), inv[n]} /\ \A m \in Name \ {n} : LiveType(m)' = LiveType(m)
  BY <1>3, <1>5, <1>6, PartsOf DEF LiveType
<1>10. PlanInv'
  BY <1>1, <1>2, <1>6, <1>9 DEF Inv, PlanInv, Recorded, Type
<1>11. DeleteInv'
  <2>1. pc \in ApplyPC
    BY DEF CreateResource, TypeOK
  <2> QED
    BY <1>1, <2>1 DEF Inv, DeleteInv, ApplyPC
<1>12. DataInv'
  BY <1>1, <1>6, <1>7, <1>9 DEF Inv, DataInv, Recorded
<1> QED
  BY <1>7, <1>8, <1>10, <1>11, <1>12 DEF Inv

\* Terraform destroys what is not wanted, from above; a record only for the Delete
\* of its deployment, and storage never below a MongoDB or data.
LEMMA DestroyInv ==
  ASSUME TypeOK, Inv, NEW n \in Name, NEW r \in Resource, DestroyResource(n, r),
         UNCHANGED control
  PROVE  /\ Inv' /\ ~data[n] /\ UNCHANGED data
         /\ r = "metadata" => pc = "destroying" /\ cmd.kind = "Delete" /\ cmd.name = n
         /\ r \in Manifests => ~Recorded(n)
<1>1. /\ tf' = [tf EXCEPT ![n] = @ \ {r}] /\ UNCHANGED <<inv, op, pc, cmd>>
      /\ tf \in [Name -> SUBSET Resource]
      /\ pc \in ApplyPC
  BY DEF DestroyResource, control, TypeOK, WorldTypeOK
<1>2. /\ r \in tf[n] \ Wanted(n)
      /\ \A q \in tf[n] \ Wanted(n) : r \notin DependsOn(q)
  BY DEF DestroyResource, Destroyable
<1>3. Wanted(n) = IF inv[n] = "none" THEN {} ELSE Parts(inv[n])
  BY DEF Wanted
<1>4. inv[n] \in Type \cup {"none"}
  BY DEF TypeOK, WorldTypeOK
<1>5. inv[n] = "none" /\ Recorded(n) => pc = "destroying" /\ cmd.kind = "Delete" /\ cmd.name = n
  BY <1>1 DEF Inv, PlanInv, ApplyPC
<1>6. ~data[n]
  <2>1. ASSUME data[n]
        PROVE  FALSE
    <3>1. Recorded(n) /\ tf[n] = Parts(LiveType(n)) /\ LiveType(n) # "none"
      BY <2>1 DEF Inv, DataInv, ResourceInv
    <3>2. CASE inv[n] = "none"
      BY <2>1, <3>1, <3>2, <1>5 DEF Inv, DataInv
    <3>3. CASE inv[n] # "none"
      <4>1. LiveType(n) = inv[n]
        BY <3>1, <3>3 DEF Inv, PlanInv
      <4> QED
        BY <3>1, <3>3, <4>1, <1>2, <1>3
    <3> QED
      BY <3>2, <3>3
  <2> QED
    BY <2>1
<1>7. data' = data
  BY <1>6 DEF DestroyResource, TypeOK, WorldTypeOK
<1>8. r = "metadata" => pc = "destroying" /\ cmd.kind = "Delete" /\ cmd.name = n
  BY <1>2, <1>3, <1>4, <1>5, PartsOf DEF Recorded, Type
<1>9. /\ tf'[n] = tf[n] \ {r}
      /\ \A m \in Name \ {n} : tf'[m] = tf[m]
  BY <1>1
<1>10. r \in Manifests => ~Recorded(n)
  <2>1. ASSUME r \in Manifests, Recorded(n)
        PROVE  FALSE
    <3>1. "metadata" \in tf[n] /\ r \in DependsOn("metadata")
      BY <2>1, PartsOf DEF Recorded, DependsOn
    <3>2. inv[n] \in Type
      BY <3>1, <1>2, <1>3, <1>4
    <3>3. LiveType(n) = inv[n]
      BY <2>1, <3>2 DEF Inv, PlanInv, ResourceInv, Type
    <3>4. ResourceInv
      BY DEF Inv
    <3> QED
      BY <2>1, <3>2, <3>3, <3>4, <1>2, <1>3, ResourceCases, LiveTypeOf, PartsOf DEF Type
  <2> QED
    BY <2>1
<1>11. /\ r = "replica_set_storage" => "replica_set" \notin tf[n]
       /\ r = "sharded_cluster_storage" => "sharded_cluster" \notin tf[n]
  <2>1. /\ "replica_set_storage" \in DependsOn("replica_set")
        /\ "sharded_cluster_storage" \in DependsOn("sharded_cluster")
    BY DEF DependsOn
  <2>2. /\ "replica_set" \in tf[n] => inv[n] \in {"none", "ReplicaSet"}
        /\ "sharded_cluster" \in tf[n] => inv[n] \in {"none", "ShardedCluster"}
    <3>1. ResourceInv
      BY DEF Inv
    <3> QED
      BY <3>1, ResourceCases, LiveTypeOf DEF Inv, PlanInv
  <2> QED
    BY <2>1, <2>2, <1>2, <1>3, PartsOf
<1>12. ResourceInv'
  <2>1. ResourceInv
    BY DEF Inv
  <2>2. ASSUME NEW m \in Name
        PROVE  /\ "replica_set" \in tf'[m] => "replica_set_storage" \in tf'[m]
               /\ "sharded_cluster" \in tf'[m] => "sharded_cluster_storage" \in tf'[m]
               /\ "metadata" \in tf'[m] =>
                    "replica_set" \in tf'[m] \/ "sharded_cluster" \in tf'[m]
               /\ ~("replica_set" \in tf'[m] /\ "sharded_cluster" \in tf'[m])
               /\ "replica_set" \in tf'[m] \/ "sharded_cluster" \in tf'[m] => m \notin Foreign
    <3>1. CASE m = n
      BY <3>1, <2>1, <1>9, <1>10, <1>11, ResourceCases, PartsOf DEF Recorded
    <3>2. CASE m # n
      BY <3>2, <2>1, <1>9, ResourceCases
    <3> QED
      BY <3>1, <3>2
  <2> QED
    BY <2>2, PartsOf DEF ResourceInv, Recorded, LiveType, Type
<1>13. LiveType(n)' \in {LiveType(n), "none"} /\ \A m \in Name \ {n} : LiveType(m)' = LiveType(m)
  <2>1. ResourceInv
    BY DEF Inv
  <2> QED
    BY <2>1, <1>9, ResourceCases DEF LiveType
<1>14. PlanInv'
  BY <1>1, <1>9, <1>13 DEF Inv, PlanInv, Recorded
<1>15. DeleteInv'
  BY <1>1 DEF Inv, DeleteInv, ApplyPC
<1>16. DataInv'
  BY <1>1, <1>6, <1>7, <1>9, <1>13 DEF Inv, DataInv, Recorded
<1> QED
  BY <1>6, <1>7, <1>8, <1>10, <1>12, <1>14, <1>15, <1>16 DEF Inv

\* The one-shot operation lets a Delete pass only when there is no data.
LEMMA OperationInv ==
  ASSUME TypeOK, Inv, RunOperation, UNCHANGED control
  PROVE  Inv'
<1>1. /\ UNCHANGED <<tf, data, inv, pc, cmd>> /\ op' = [op EXCEPT !.action = "sync"]
      /\ op.action = "validate_deployment_empty" => ~data[op.deployment]
      /\ op.action # "sync"
  BY DEF RunOperation, planes, control
<1>2. op' = [op EXCEPT !.action = "sync"] /\ op \in Operation
      => op'.action = "sync" /\ op'.deployment = op.deployment
  BY DEF Operation
<1>3. op'.action = "sync" /\ op'.deployment = op.deployment
  BY <1>1, <1>2 DEF TypeOK, WorldTypeOK
<1>4. ResourceInv' /\ PlanInv' /\ DeleteInv'
  BY <1>1 DEF Inv, ResourceInv, PlanInv, DeleteInv, Recorded, LiveType, Live
<1>5. DataInv'
  BY <1>1, <1>3 DEF Inv, DataInv, Recorded, LiveType
<1> QED
  BY <1>4, <1>5 DEF Inv

\* Every command that is submitted keeps the invariant.
LEMMA SubmittedInv ==
  ASSUME TypeOK, Inv, Submitted
  PROVE  Inv'
<1>1. ASSUME NEW n \in Name, NEW t \in Type, AddDeployment(n, t)
      PROVE  Inv'
  <2>1. /\ UNCHANGED <<tf, data>> /\ pc' = "creating"
        /\ inv' = [Inventory EXCEPT ![n] = t]
    BY <1>1 DEF AddDeployment, Begin, Apply, planes
  <2>2. LiveType(n) \in {"none", t} /\ n \notin Foreign
    BY <1>1 DEF AddDeployment, CanAdd
  <2>3. \A m \in Name : inv'[m] = IF m = n THEN t ELSE Inventory[m]
    BY <2>1, InventoryType
  <2>4. \A m \in Name : inv'[m] # "none" =>
          LiveType(m) \in {"none", inv'[m]} /\ m \notin Foreign
    BY <2>2, <2>3, InventoryKeeps
  <2>5. \A m \in Name : Recorded(m) => inv'[m] # "none"
    BY <2>3, InventoryKeeps DEF Type
  <2> QED
    BY <2>1, <2>4, <2>5, ApplyInv DEF ApplyPC
<1>2. ASSUME NEW n \in Name, NEW t \in Type, DeleteDeployment(n, t)
      PROVE  Inv'
  <2>1. /\ UNCHANGED <<tf, data>> /\ pc' = "validating" /\ inv' = Inventory
        /\ cmd'.kind = "Delete" /\ op'.deployment = cmd'.name
        /\ op'.action = "validate_deployment_empty"
    BY <1>2 DEF DeleteDeployment, Begin, Apply, planes
  <2> QED
    BY <2>1, InventoryKeeps, ApplyInv DEF ApplyPC
<1>3. ASSUME NEW n \in Name, ManageDatabase(n)
      PROVE  Inv'
  <2>1. /\ UNCHANGED <<tf, inv, op, pc>> /\ pc = "idle"
        /\ Recorded(n) /\ tf[n] = Parts(LiveType(n))
        /\ data' \in {data, [data EXCEPT ![n] = ~db[n]]}
    BY <1>3 DEF ManageDatabase
  <2>2. \A m \in Name \ {n} : data'[m] = data[m]
    BY <2>1 DEF TypeOK, WorldTypeOK
  <2>3. ResourceInv' /\ PlanInv' /\ DeleteInv'
    BY <2>1 DEF Inv, ResourceInv, PlanInv, DeleteInv, Recorded, LiveType
  <2>4. DataInv'
    BY <2>1, <2>2 DEF Inv, DataInv, Recorded, LiveType
  <2> QED
    BY <2>3, <2>4 DEF Inv
<1>4. CASE NothingToReconcile
  BY <1>4, IdleInv DEF NothingToReconcile, Begin, Goto, planes
<1>5. CASE Reconcile
  <2>1. UNCHANGED <<tf, data>> /\ pc' = "converging" /\ inv' = Inventory
    BY <1>5 DEF Reconcile, Begin, Apply, planes
  <2> QED
    BY <2>1, InventoryKeeps, ApplyInv DEF ApplyPC
<1>6. CASE RecoverOrphanedResources
  <2>1. /\ UNCHANGED <<tf, data>> /\ pc' = "emptying" /\ inv' = NoInventory
        /\ cmd'.kind = "Recover"
    BY <1>6 DEF RecoverOrphanedResources, Begin, Apply, planes, NoCommand
  <2>2. \A m \in Name : ~Recorded(m)
    BY <1>6 DEF RecoverOrphanedResources, CanRecover
  <2> QED
    BY <2>1, <2>2, ApplyInv DEF ApplyPC, NoInventory
<1> QED
  BY <1>1, <1>2, <1>3, <1>4, <1>5, <1>6 DEF Submitted

\* So do the other steps of a command.
LEMMA ControllerInv ==
  ASSUME TypeOK, Inv, Controller
  PROVE  Inv'
<1>1. CASE ApplyStep /\ UNCHANGED control
  BY <1>1, CreateInv, DestroyInv, OperationInv DEF ApplyStep
<1>2. CASE Created \/ Destroyed \/ Reconciled \/ Emptied
  <2>1. /\ UNCHANGED <<tf, data, inv, cmd>> /\ Converged
        /\ pc \in {"creating", "destroying", "converging", "emptying"}
        /\ pc' \in {"starting", "leaving", "settling", "cleaning"}
        /\ pc' = "leaving" => pc = "destroying"
        /\ pc' = "cleaning" => pc = "emptying"
    BY <1>2 DEF Created, Destroyed, Reconciled, Emptied, Applied, Goto, Same, planes
  <2>2. /\ pc = "destroying" => cmd.kind = "Delete"
        /\ pc = "emptying" => cmd.kind # "Delete"
    BY DEF Inv, DeleteInv
  <2> QED
    BY <2>1, <2>2, LocalInv DEF ApplyPC
<1>3. CASE Started
  <2>1. UNCHANGED <<tf, data, inv, cmd>> /\ pc = "starting" /\ pc' = "verifying"
    BY <1>3 DEF Started, Apply, Same, planes
  <2>2. \A n \in Name : Recorded(n) => inv[n] # "none"
    BY <2>1 DEF Inv, PlanInv
  <2> QED
    BY <2>1, <2>2, ApplyInv DEF ApplyPC, Inv, PlanInv
<1>4. CASE Validated
  <2>1. /\ UNCHANGED <<tf, data, cmd>> /\ pc = "validating" /\ pc' = "destroying"
        /\ inv' = [inv EXCEPT ![cmd.name] = "none"]
        /\ op.action = "sync"
    BY <1>4 DEF Validated, Applied, Converged, Apply, Same, planes
  <2>2. cmd.kind = "Delete" /\ ~data[cmd.name]
    BY <2>1 DEF Inv, DeleteInv, DataInv
  <2>3. \A n \in Name : inv'[n] = IF n = cmd.name THEN "none" ELSE inv[n]
    BY <2>1 DEF TypeOK, WorldTypeOK
  <2>4. PlanInv'
    BY <2>1, <2>2, <2>3 DEF Inv, PlanInv, Recorded, LiveType
  <2>5. ResourceInv' /\ DeleteInv' /\ DataInv'
    BY <2>1, <2>2 DEF Inv, ResourceInv, DeleteInv, DataInv, Recorded, LiveType
  <2> QED
    BY <2>4, <2>5 DEF Inv
<1>5. CASE Verified \/ NotEmpty \/ Settled \/ CleanRefused \/ NoProject \/ ProjectRemoved
  BY <1>5, IdleInv
  DEF Verified, NotEmpty, Settled, CleanRefused, NoProject, ProjectRemoved,
      Finish, Goto, planes
<1>6. CASE Absent
  BY <1>6, LocalInv DEF Absent, Goto, planes, ApplyPC
<1>7. CASE RemoveProject
  <2>1. /\ UNCHANGED <<tf, data, inv, cmd>> /\ pc = "removing" /\ pc' = "polling"
        /\ cmd.name # Platform
    BY <1>7 DEF RemoveProject, Goto, Same
  <2>2. cmd.kind = "Delete" /\ ~Live(cmd.name)
    BY <2>1 DEF Inv, DeleteInv
  <2> QED
    BY <2>1, <2>2, LocalInv DEF ApplyPC
<1>8. ASSUME NEW k \in Name, CleanJobs(k) \/ CleanSecret(k) \/ Settle(k)
      PROVE  Inv'
  BY <1>8, StillInv DEF CleanJobs, CleanSecret, Settle, Same, planes
<1>9. CASE Cleaned
  <2>1. CASE cmd.kind = "Delete" /\ Goto("removing") /\ UNCHANGED inv /\ Same
    <3>1. UNCHANGED <<tf, data, inv, cmd>> /\ pc = "cleaning" /\ pc' = "removing"
      BY <1>9, <2>1 DEF Cleaned, Goto, Same, planes
    <3>2. ~Live(cmd.name)
      BY <2>1, <3>1 DEF Inv, DeleteInv
    <3> QED
      BY <2>1, <3>1, <3>2, LocalInv DEF ApplyPC
  <2>2. CASE cmd.kind = "Recover" /\ Finish("succeeded") /\ UNCHANGED faults
    BY <1>9, <2>2, IdleInv DEF Cleaned, Finish, Goto, planes
  <2> QED
    BY <1>9, <2>1, <2>2 DEF Cleaned
<1> QED
  BY <1>1, <1>2, <1>3, <1>4, <1>5, <1>6, <1>7, <1>8, <1>9 DEF Controller

\* Every step keeps the invariant.
LEMMA NextInv ==
  ASSUME TypeOK, Inv, [Next]_vars
  PROVE  Inv'
<1>1. CASE Submitted
  BY <1>1, SubmittedInv
<1>2. CASE Controller
  BY <1>2, ControllerInv
<1>3. CASE Operator
  <2>1. UNCHANGED <<tf, data, inv, op, pc, cmd>>
    BY <1>3 DEF Operator, OperatorStep, control, CreateProject, CreateAgentSecret,
                BecomeRunning, AdminUpdated, ProjectGone
  <2> QED
    BY <2>1, StillInv
<1>4. CASE Interrupted
  BY <1>4, IdleInv DEF Interrupted, Finish, Goto, planes
<1>5. ASSUME NEW n \in Name, PodLoss(n)
      PROVE  Inv'
  BY <1>5, StillInv DEF PodLoss, PodsLost
<1>6. CASE UNCHANGED vars
  BY <1>6, StillInv DEF vars, planes, control
<1> QED
  BY <1>1, <1>2, <1>3, <1>4, <1>5, <1>6 DEF Next

\* The invariant holds in every behaviour.
THEOREM CoreCorrect == Spec => []CoreInv
<1>1. Init => CoreInv
  BY InitType, InitInv DEF Inv, CoreInv
<1>2. CoreInv /\ [Next]_vars => CoreInv'
  BY NextType, NextInv DEF Inv, CoreInv
<1> QED
  BY <1>1, <1>2, PTL DEF Spec

\* Vault never records a deployment whose MongoDB or storage is not there.
THEOREM RecordCorrect == Spec => []RecordedIsLive
<1>1. CoreInv => RecordedIsLive
  <2> SUFFICES ASSUME CoreInv, NEW n \in Name, Recorded(n)
               PROVE  \E t \in Type : {Storage(t), Manifest(t)} \subseteq tf[n]
    BY DEF RecordedIsLive
  <2>1. LiveType(n) \in Type /\ Manifest(LiveType(n)) \in tf[n]
    BY LiveTypeOf, PartsOf DEF CoreInv, ResourceInv, Type
  <2> QED
    BY <2>1 DEF CoreInv, ResourceInv
<1> QED
  BY <1>1, CoreCorrect, PTL

-----------------------------------------------------------------------------
(* What a step may not do.                                                  *)

\* Only Terraform's steps change what exists, and only the commands for databases
\* otherwise change data.
LEMMA OnlyApplies ==
  ASSUME TypeOK, Inv, [Next]_vars
  PROVE  \/ \E n \in Name, r \in Resource : CreateResource(n, r) /\ UNCHANGED control
         \/ \E n \in Name, r \in Resource : DestroyResource(n, r) /\ UNCHANGED control
         \/ \E n \in Name : ManageDatabase(n)
         \/ UNCHANGED <<tf, data>>
<1>1. CASE Submitted
  BY <1>1 DEF Submitted, AddDeployment, DeleteDeployment, NothingToReconcile, Reconcile,
              RecoverOrphanedResources, Begin, planes
<1>2. CASE Controller
  BY <1>2 DEF Controller, ApplyStep, RunOperation, Created, Started, Verified, Validated,
              NotEmpty, Destroyed, Absent, RemoveProject, NoProject, ProjectRemoved,
              CleanJobs, CleanSecret, CleanRefused, Cleaned, Reconciled, Settled, Settle,
              Emptied, planes
<1>3. CASE Operator
  BY <1>3 DEF Operator, OperatorStep, CreateProject, CreateAgentSecret,
              BecomeRunning, AdminUpdated, ProjectGone
<1>4. CASE Interrupted \/ (\E n \in Name : PodLoss(n)) \/ UNCHANGED vars
  BY <1>4 DEF Interrupted, PodLoss, PodsLost, vars, planes
<1> QED
  BY <1>1, <1>2, <1>3, <1>4 DEF Next

\* A record goes in the Delete that names its deployment.
LEMMA RecordGoes ==
  ASSUME TypeOK, Inv, [Next]_vars, NEW n \in Name, Recorded(n), ~Recorded(n)'
  PROVE  /\ pc = "destroying" /\ cmd.kind = "Delete" /\ cmd.name = n
         /\ UNCHANGED control
<1>1. ASSUME NEW m \in Name, NEW r \in Resource, CreateResource(m, r)
      PROVE  FALSE
  BY <1>1 DEF CreateResource, Recorded, TypeOK, WorldTypeOK
<1>2. ASSUME NEW m \in Name, NEW r \in Resource, DestroyResource(m, r), UNCHANGED control
      PROVE  pc = "destroying" /\ cmd.kind = "Delete" /\ cmd.name = n
  <2>1. m = n /\ r = "metadata"
    BY <1>2 DEF DestroyResource, Recorded, TypeOK, WorldTypeOK
  <2> QED
    BY <1>2, <2>1, DestroyInv
<1>3. ~\E m \in Name : ManageDatabase(m)
  BY DEF ManageDatabase, Recorded
<1> QED
  BY <1>1, <1>2, <1>3, OnlyApplies DEF Recorded

\* While a command runs, no data comes or goes.
LEMMA DataStays ==
  ASSUME TypeOK, Inv, [Next]_vars, pc # "idle"
  PROVE  data' = data
<1>1. ~\E n \in Name : ManageDatabase(n)
  BY DEF ManageDatabase
<1> QED
  BY <1>1, OnlyApplies, DestroyInv DEF CreateResource

\* No apply removes a record but that of the deployment its Delete names.
THEOREM RecordKeptCorrect == Spec => RecordKept
<1>1. CoreInv /\ [Next]_vars =>
        [\A n \in Name : Recorded(n) /\ ~Recorded(n)' =>
           pc = "destroying" /\ cmd.kind = "Delete" /\ cmd.name = n]_vars
  BY RecordGoes DEF CoreInv, Inv
<1> QED
  BY <1>1, CoreCorrect, PTL DEF Spec, RecordKept

\* No apply destroys storage in use.
THEOREM DataKeptCorrect == Spec => DataKept
<1>1. CoreInv /\ [Next]_vars => [pc # "idle" => data' = data]_vars
  BY DataStays DEF CoreInv, Inv
<1> QED
  BY <1>1, CoreCorrect, PTL DEF Spec, DataKept

\* What the steps do to Operator Secrets and projects.
LEMMA OnlyCleanups ==
  ASSUME TypeOK, Inv, [Next]_vars
  PROVE  /\ \/ UNCHANGED agent
            \/ \E k \in Name : CleanSecret(k) \/ CreateAgentSecret(k)
         /\ \/ UNCHANGED <<project, group>>
            \/ RemoveProject \/ ProjectRemoved
            \/ \E k \in Name : CreateProject(k) \/ ProjectGone(k)
<1>1. CASE Submitted
  BY <1>1 DEF Submitted, AddDeployment, DeleteDeployment, NothingToReconcile, Reconcile,
              RecoverOrphanedResources, Begin, planes, ManageDatabase
<1>2. CASE Controller
  BY <1>2 DEF Controller, ApplyStep, CreateResource, DestroyResource, RunOperation,
              Created, Started, Verified, Validated, NotEmpty, Destroyed, Absent,
              RemoveProject, NoProject, ProjectRemoved, CleanJobs, CleanSecret,
              CleanRefused, Cleaned, Reconciled, Settled, Settle, Emptied, planes
<1>3. CASE Operator
  BY <1>3 DEF Operator, OperatorStep, CreateProject, CreateAgentSecret,
              BecomeRunning, AdminUpdated, ProjectGone
<1>4. CASE Interrupted \/ (\E n \in Name : PodLoss(n)) \/ UNCHANGED vars
  BY <1>4 DEF Interrupted, PodLoss, PodsLost, vars, planes
<1> QED
  BY <1>1, <1>2, <1>3, <1>4 DEF Next

\* The cleanups leave alone what a MongoDB, managed or not, runs on, and the
\* permanent project.
THEOREM InUseCorrect == Spec => InUseKept
<1>1. ASSUME TypeOK, Inv, [Next]_vars, NEW n \in Name, Live(n), agent[n]
      PROVE  agent'[n]
  <2>1. ASSUME NEW k \in Name, CleanSecret(k)
        PROVE  agent'[n]
    <3>1. k # n
      BY <1>1, <2>1 DEF CleanSecret
    <3> QED
      BY <1>1, <2>1, <3>1 DEF CleanSecret, TypeOK, WorldTypeOK
  <2>2. ASSUME NEW k \in Name, CreateAgentSecret(k)
        PROVE  agent'[n]
    BY <1>1, <2>2 DEF CreateAgentSecret, TypeOK, WorldTypeOK
  <2> QED
    BY <1>1, <2>1, <2>2, OnlyCleanups
<1>2. ASSUME TypeOK, Inv, [Next]_vars, NEW n \in Name, Live(n) \/ n = Platform,
             project[n] = "active"
      PROVE  project'[n] = "active" /\ (group[n] => group'[n])
  <2>1. CASE RemoveProject
    <3>1. cmd.name # n
      BY <1>2, <2>1 DEF RemoveProject, Inv, DeleteInv
    <3> QED
      BY <1>2, <2>1, <3>1 DEF RemoveProject, TypeOK, WorldTypeOK
  <2>2. CASE ProjectRemoved
    <3>1. cmd.name # n
      BY <1>2, <2>2 DEF ProjectRemoved
    <3> QED
      BY <1>2, <2>2, <3>1 DEF ProjectRemoved, TypeOK, WorldTypeOK
  <2>3. ASSUME NEW k \in Name, CreateProject(k) \/ ProjectGone(k)
        PROVE  project'[n] = "active" /\ (group[n] => group'[n])
    <3>1. k # n
      BY <1>2, <2>3 DEF CreateProject, ProjectGone
    <3> QED
      BY <1>2, <2>3, <3>1 DEF CreateProject, ProjectGone, TypeOK, WorldTypeOK
  <2> QED
    BY <1>2, <2>1, <2>2, <2>3, OnlyCleanups
<1>3. CoreInv /\ [Next]_vars =>
        [\A n \in Name :
           /\ Live(n) /\ agent[n] => agent'[n]
           /\ (Live(n) \/ n = Platform) /\ project[n] = "active" =>
                /\ project'[n] = "active"
                /\ group[n] => group'[n]]_vars
  BY <1>1, <1>2 DEF CoreInv, Inv
<1> QED
  BY <1>3, CoreCorrect, PTL DEF Spec, InUseKept

-----------------------------------------------------------------------------
(* The refinement.                                                          *)

\* A step that leaves the records and the types of recorded deployments alone
\* leaves the catalogue alone.
LEMMA SameInventory ==
  ASSUME \A n \in Name : Recorded(n)' = Recorded(n),
         \A n \in Name : Recorded(n) => LiveType(n)' = LiveType(n)
  PROVE  Inventory' = Inventory
BY DEF Inventory

\* Creating a record registers a deployment; nothing else Terraform creates does.
LEMMA CreateRegisters ==
  ASSUME TypeOK, Inv, NEW n \in Name, NEW r \in Resource, CreateResource(n, r),
         UNCHANGED control
  PROVE  UNCHANGED <<Inventory, data>> \/ Service!Next
<1>1. /\ tf' = [tf EXCEPT ![n] = @ \cup {r}] /\ UNCHANGED data /\ r \notin tf[n]
      /\ tf \in [Name -> SUBSET Resource]
  BY DEF CreateResource, Creatable, TypeOK, WorldTypeOK
<1>2. tf'[n] = tf[n] \cup {r} /\ \A m \in Name \ {n} : tf'[m] = tf[m]
  BY <1>1
<1>3. CASE r = "metadata"
  <2>1. ~Recorded(n) /\ Recorded(n)'
    BY <1>1, <1>2, <1>3 DEF Recorded
  <2>2. \A m \in Name : LiveType(m)' = LiveType(m)
    BY <1>2, <1>3 DEF LiveType
  <2>3. LiveType(n) \in Type
    <3>1. Inv'
      BY CreateInv
    <3>2. LiveType(n)' # "none"
      BY <2>1, <3>1 DEF Inv, ResourceInv
    <3> QED
      BY <2>2, <3>2, LiveTypeOf
  <2>4. Inventory' = [Inventory EXCEPT ![n] = LiveType(n)] /\ Inventory[n] = "none"
    BY <1>2, <2>1, <2>2 DEF Inventory, Recorded
  <2>5. Service!Register(n, LiveType(n))
    BY <1>1, <2>4 DEF Service!Register
  <2> QED
    BY <2>3, <2>5 DEF Service!Next
<1>4. CASE r # "metadata"
  <2>1. \A m \in Name : Recorded(m)' = Recorded(m)
    BY <1>2, <1>4 DEF Recorded
  <2>2. r \in Manifests => ~Recorded(n)
    BY DEF CreateResource, Creatable, Live, Inv, ResourceInv
  <2>3. \A m \in Name : Recorded(m) => LiveType(m)' = LiveType(m)
    BY <1>2, <2>2, PartsOf DEF LiveType
  <2> QED
    BY <1>1, <2>1, <2>3, SameInventory
<1> QED
  BY <1>3, <1>4

\* Destroying a record retires an empty deployment.
LEMMA DestroyRetires ==
  ASSUME TypeOK, Inv, NEW n \in Name, NEW r \in Resource, DestroyResource(n, r),
         UNCHANGED control
  PROVE  UNCHANGED <<Inventory, data>> \/ Service!Next
<1>1. /\ tf' = [tf EXCEPT ![n] = @ \ {r}] /\ r \in tf[n]
      /\ tf \in [Name -> SUBSET Resource]
  BY DEF DestroyResource, Destroyable, TypeOK, WorldTypeOK
<1>2. tf'[n] = tf[n] \ {r} /\ \A m \in Name \ {n} : tf'[m] = tf[m]
  BY <1>1
<1>3. ~data[n] /\ UNCHANGED data /\ (r \in Manifests => ~Recorded(n))
  BY DestroyInv
<1>4. CASE r = "metadata"
  <2>1. ~Recorded(n)'
    BY <1>2, <1>4 DEF Recorded
  <2>2. \A m \in Name : LiveType(m)' = LiveType(m)
    BY <1>2, <1>4 DEF LiveType
  <2>3. Inventory' = [Inventory EXCEPT ![n] = "none"]
    BY <1>2, <2>1, <2>2 DEF Inventory, Recorded
  <2> QED
    BY <1>3, <2>3 DEF Service!Retire, Service!Next
<1>5. CASE r # "metadata"
  <2>1. \A m \in Name : Recorded(m)' = Recorded(m)
    BY <1>2, <1>5 DEF Recorded
  <2>2. \A m \in Name : Recorded(m) => LiveType(m)' = LiveType(m)
    BY <1>2, <1>3, PartsOf DEF LiveType
  <2> QED
    BY <1>3, <2>1, <2>2, SameInventory
<1> QED
  BY <1>4, <1>5

\* A command for databases stores or drops data of a listed deployment.
LEMMA DatabaseStores ==
  ASSUME TypeOK, Inv, NEW n \in Name, ManageDatabase(n)
  PROVE  UNCHANGED <<Inventory, data>> \/ Service!Next
<1>1. /\ UNCHANGED tf /\ Recorded(n)
      /\ data' \in {data, [data EXCEPT ![n] = ~db[n]]}
  BY DEF ManageDatabase
<1>2. Inventory' = Inventory
  BY <1>1, SameInventory DEF Recorded, LiveType
<1>3. Inventory[n] # "none"
  BY <1>1, InventoryKeeps
<1>4. db[n] \in BOOLEAN
  BY DEF TypeOK
<1>5. CASE data' = [data EXCEPT ![n] = TRUE]
  BY <1>2, <1>3, <1>5 DEF Service!Store, Service!Next
<1>6. CASE data' = [data EXCEPT ![n] = FALSE]
  BY <1>2, <1>3, <1>6 DEF Service!Drop, Service!Next
<1> QED
  BY <1>1, <1>2, <1>4, <1>5, <1>6

\* The lifecycle implements DeploymentService.
THEOREM ServiceCorrect == Spec => ServiceSpec
<1>1. Init => Service!Init
  BY InventoryType DEF Init, WorldInit, Service!Init
<1>2. CoreInv /\ [Next]_vars => [Service!Next]_<<Inventory, data>>
  <2> SUFFICES ASSUME TypeOK, Inv, [Next]_vars
               PROVE  Service!Next \/ UNCHANGED <<Inventory, data>>
    BY DEF CoreInv, Inv
  <2>1. CASE UNCHANGED <<tf, data>>
    BY <2>1, SameInventory DEF Recorded, LiveType
  <2> QED
    BY <2>1, OnlyApplies, CreateRegisters, DestroyRetires, DatabaseStores
<1> QED
  BY <1>1, <1>2, CoreCorrect, PTL DEF Spec, ServiceSpec, Service!Spec
=============================================================================
