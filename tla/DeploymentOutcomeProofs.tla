----------------------- MODULE DeploymentOutcomeProofs -----------------------
(***************************************************************************)
(* Proofs that the outcomes DeploymentLifecycle reports are true, for      *)
(* every set of names, every mix of commands and every bound: a success    *)
(* means what it says (AddedIsFresh, DeletionIsComplete,                   *)
(* RecoveredIsClean), and so does the status (StatusIsHonest).  CoreInv    *)
(* says what no command breaks; OutcomeInv, proved on top of it, says how  *)
(* far the running command has come.                                       *)
(***************************************************************************)
EXTENDS DeploymentLifecycleProofs

-----------------------------------------------------------------------------
(* What the steps do.                                                       *)

\* The steps that change anything but the control of the commands.
LEMMA PlaneSteps ==
  ASSUME [Next]_vars
  PROVE  \/ UNCHANGED planes
         \/ \E n \in Name, r \in Resource :
              (CreateResource(n, r) \/ DestroyResource(n, r)) /\ UNCHANGED control
         \/ \E k \in Name : CleanJobs(k) \/ CleanSecret(k) \/ ManageDatabase(k) \/ PodLoss(k)
         \/ RemoveProject \/ ProjectRemoved
         \/ \E k \in Name :
              /\ \/ CreateProject(k) \/ CreateAgentSecret(k)
                 \/ BecomeRunning(k) \/ AdminUpdated(k) \/ ProjectGone(k)
              /\ UNCHANGED <<inv, op, control>>
<1>1. CASE Submitted
  BY <1>1 DEF Submitted, AddDeployment, DeleteDeployment, NothingToReconcile, Reconcile,
              RecoverOrphanedResources, Begin
<1>2. CASE Controller
  <2>1. CASE ApplyStep /\ UNCHANGED control
    BY <2>1 DEF ApplyStep, RunOperation
  <2>2. CASE ~ApplyStep
    BY <1>2, <2>2 DEF Controller, Created, Started, Verified, Validated, NotEmpty,
              Destroyed, Absent, NoProject, CleanRefused, Cleaned, Reconciled, Settled,
              Settle, Emptied
  <2> QED
    BY <1>2, <2>1, <2>2 DEF Controller, Created, Started, Verified, Validated, NotEmpty,
              Destroyed, Absent, NoProject, CleanRefused, Cleaned, Reconciled, Settled,
              Settle, Emptied
<1>3. CASE Operator
  BY <1>3 DEF Operator, OperatorStep
<1>4. CASE Interrupted \/ (\E n \in Name : PodLoss(n)) \/ UNCHANGED vars
  BY <1>4 DEF Interrupted, vars
<1> QED
  BY <1>1, <1>2, <1>3, <1>4 DEF Next

\* Terraform creates what is wanted, and no second MongoDB.
LEMMA CreateLive ==
  ASSUME TypeOK, NEW n \in Name, NEW r \in Resource, CreateResource(n, r)
  PROVE  /\ tf'[n] = tf[n] \cup {r} /\ \A m \in Name \ {n} : tf'[m] = tf[m]
         /\ r \in Wanted(n) \ tf[n] /\ inv[n] # "none"
         /\ \A m \in Name : LiveType(m) # "none" => LiveType(m)' = LiveType(m)
<1>1. tf' = [tf EXCEPT ![n] = @ \cup {r}] /\ tf \in [Name -> SUBSET Resource]
  BY DEF CreateResource, TypeOK, WorldTypeOK
<1>2. tf'[n] = tf[n] \cup {r} /\ \A m \in Name \ {n} : tf'[m] = tf[m]
  BY <1>1
<1>3. r \in Wanted(n) \ tf[n] /\ inv[n] # "none"
  BY DEF CreateResource, Creatable, Wanted
<1>4. r \in Manifests => LiveType(n) = "none"
  BY DEF CreateResource, Creatable, Live
<1>5. \A m \in Name : LiveType(m) # "none" => LiveType(m)' = LiveType(m)
  BY <1>2, <1>4, PartsOf DEF LiveType
<1> QED
  BY <1>2, <1>3, <1>5

\* It destroys what is not wanted, and no MongoDB whose deployment is.
LEMMA DestroyLive ==
  ASSUME TypeOK, Inv, NEW n \in Name, NEW r \in Resource, DestroyResource(n, r)
  PROVE  /\ tf'[n] = tf[n] \ {r} /\ \A m \in Name \ {n} : tf'[m] = tf[m]
         /\ r \in tf[n] \ Wanted(n)
         /\ \A m \in Name : LiveType(m) = "none" => LiveType(m)' = "none"
         /\ \A m \in Name \ {n} : LiveType(m)' = LiveType(m)
         /\ r \notin Manifests \/ inv[n] # "none" => LiveType(n)' = LiveType(n)
<1>1. tf' = [tf EXCEPT ![n] = @ \ {r}] /\ tf \in [Name -> SUBSET Resource]
  BY DEF DestroyResource, TypeOK, WorldTypeOK
<1>2. tf'[n] = tf[n] \ {r} /\ \A m \in Name \ {n} : tf'[m] = tf[m]
  BY <1>1
<1>3. r \in tf[n] \ Wanted(n)
  BY DEF DestroyResource, Destroyable
<1>4. \A m \in Name : LiveType(m) = "none" => LiveType(m)' = "none"
  BY <1>2 DEF LiveType
<1>5. \A m \in Name \ {n} : LiveType(m)' = LiveType(m)
  BY <1>2 DEF LiveType
<1>6. r \notin Manifests => LiveType(n)' = LiveType(n)
  BY <1>2, PartsOf DEF LiveType
<1>7. ASSUME inv[n] # "none", r \in Manifests
      PROVE  FALSE
  <2>1. inv[n] \in Type /\ Wanted(n) = Parts(inv[n])
    BY <1>7 DEF TypeOK, WorldTypeOK, Wanted
  <2>2. ResourceInv /\ LiveType(n) \in {"none", inv[n]}
    BY <1>7 DEF Inv, PlanInv
  <2> QED
    BY <1>3, <1>7, <2>1, <2>2, ResourceCases, LiveTypeOf, PartsOf DEF Type
<1> QED
  BY <1>2, <1>3, <1>4, <1>5, <1>6, <1>7

-----------------------------------------------------------------------------
(* What is up stands on what the Operator made for it.                      *)

\* Init satisfies HealthInv.
LEMMA InitHealth == Init => HealthInv
<1> SUFFICES ASSUME Init
             PROVE  HealthInv
  OBVIOUS
<1>1. \A n \in Deployed : LiveType(n) # "none"
  BY LifecycleAssumption, PartsOf DEF Init, WorldInit, LiveType, Type
<1> QED
  BY <1>1, WorldAssumption DEF Init, WorldInit, HealthInv

\* Terraform's steps keep it.
LEMMA ApplyHealth ==
  ASSUME TypeOK, Inv, HealthInv, NEW n \in Name, NEW r \in Resource,
         CreateResource(n, r) \/ DestroyResource(n, r)
  PROVE  HealthInv'
<1>1. CASE CreateResource(n, r)
  <2>1. UNCHANGED <<health, jobs, agent, project>>
    BY <1>1 DEF CreateResource
  <2> QED
    BY <1>1, <2>1, CreateLive DEF HealthInv
<1>2. CASE DestroyResource(n, r)
  <2>1. UNCHANGED <<jobs, agent, project>>
    BY <1>2 DEF DestroyResource
  <2>2. \A m \in Name : m # n => health'[m] = health[m]
    BY <1>2 DEF DestroyResource, TypeOK, WorldTypeOK
  <2>3. /\ r \in Manifests => health'[n] = "down"
        /\ health[n] = "down" => health'[n] = "down"
    BY <1>2 DEF DestroyResource, TypeOK, WorldTypeOK
  <2> QED
    BY <1>2, <2>1, <2>2, <2>3, DestroyLive DEF HealthInv
<1> QED
  BY <1>1, <1>2

\* So do those of the Operator and of Ops Manager.
LEMMA OperatorHealth ==
  ASSUME TypeOK, HealthInv, NEW k \in Name,
         \/ CreateProject(k) \/ CreateAgentSecret(k)
         \/ BecomeRunning(k) \/ AdminUpdated(k) \/ ProjectGone(k)
  PROVE  HealthInv'
<1>1. UNCHANGED <<tf, jobs>> /\ \A n \in Name : LiveType(n)' = LiveType(n)
  BY DEF CreateProject, CreateAgentSecret, BecomeRunning, AdminUpdated, ProjectGone, LiveType
<1>2. CASE CreateProject(k)
  BY <1>1, <1>2, WorldAssumption DEF CreateProject, HealthInv, TypeOK, WorldTypeOK
<1>3. CASE CreateAgentSecret(k)
  BY <1>1, <1>3 DEF CreateAgentSecret, HealthInv, TypeOK, WorldTypeOK
<1>4. CASE BecomeRunning(k) \/ AdminUpdated(k)
  BY <1>1, <1>4 DEF BecomeRunning, AdminUpdated, HealthInv, TypeOK, WorldTypeOK
<1>5. CASE ProjectGone(k)
  BY <1>1, <1>5 DEF ProjectGone, HealthInv, TypeOK, WorldTypeOK
<1> QED
  BY <1>2, <1>3, <1>4, <1>5

\* Every step keeps it.
LEMMA NextHealth ==
  ASSUME TypeOK, Inv, HealthInv, [Next]_vars
  PROVE  HealthInv'
<1>1. CASE UNCHANGED planes
  BY <1>1 DEF planes, HealthInv, LiveType
<1>2. ASSUME NEW k \in Name, CleanJobs(k) \/ ManageDatabase(k) \/ PodLoss(k)
      PROVE  HealthInv'
  <2>1. UNCHANGED <<tf, agent, project>>
    BY <1>2 DEF CleanJobs, ManageDatabase, PodLoss, PodsLost
  <2>2. \A n \in Name : health'[n] \in {health[n], "down"}
    BY <1>2 DEF CleanJobs, ManageDatabase, PodLoss, PodsLost, TypeOK, WorldTypeOK
  <2>3. \A n \in Name : jobs'[n] => jobs[n] \/ (n = k /\ Recorded(k))
    BY <1>2 DEF CleanJobs, ManageDatabase, PodLoss, PodsLost, TypeOK, WorldTypeOK
  <2>4. Recorded(k) => k \notin Foreign
    BY DEF Inv, ResourceInv
  <2> QED
    BY <2>1, <2>2, <2>3, <2>4 DEF HealthInv, LiveType
<1>3. ASSUME NEW k \in Name, CleanSecret(k)
      PROVE  HealthInv'
  <2>1. UNCHANGED <<tf, health, jobs, project>> /\ LiveType(k) = "none"
        /\ agent' = [agent EXCEPT ![k] = FALSE]
    BY <1>3 DEF CleanSecret, Live
  <2> QED
    BY <2>1 DEF HealthInv, LiveType, TypeOK, WorldTypeOK
<1>4. CASE RemoveProject
  <2>1. /\ UNCHANGED <<tf, health, jobs, agent>> /\ cmd.name # Platform
        /\ project' = [project EXCEPT ![cmd.name] = "deleting"]
        /\ LiveType(cmd.name) = "none"
    BY <1>4 DEF RemoveProject, Inv, DeleteInv, Live
  <2> QED
    BY <2>1, WorldAssumption DEF HealthInv, LiveType, TypeOK, WorldTypeOK
<1>5. CASE ProjectRemoved
  BY <1>5 DEF ProjectRemoved, HealthInv, LiveType
<1> QED
  BY <1>1, <1>2, <1>3, <1>4, <1>5, PlaneSteps, ApplyHealth, OperatorHealth

-----------------------------------------------------------------------------
(* What Vault holds of databases is of recorded deployments.                *)

\* Only the commands for databases change what Vault holds of databases.
LEMMA DatabasesStay ==
  ASSUME [Next]_vars, ~\E n \in Name : ManageDatabase(n)
  PROVE  db' = db
<1>1. CASE Submitted
  BY <1>1 DEF Submitted, AddDeployment, DeleteDeployment, NothingToReconcile, Reconcile,
              RecoverOrphanedResources, Begin, CanAdd, CanDelete, Goto, Apply
<1>2. CASE Controller
  BY <1>2 DEF Controller, control, Created, Started, Verified, Validated, NotEmpty,
              Destroyed, Absent, RemoveProject, NoProject, ProjectRemoved, CleanJobs,
              CleanSecret, CleanRefused, Cleaned, Reconciled, Settled, Settle, Emptied,
              Same, Finish
<1>3. CASE Operator \/ Interrupted \/ (\E n \in Name : PodLoss(n)) \/ UNCHANGED vars
  BY <1>3 DEF Operator, Interrupted, Finish, PodLoss, vars, control
<1> QED
  BY <1>1, <1>2, <1>3 DEF Next

\* Every step keeps DatabaseInv.
LEMMA NextDatabases ==
  ASSUME TypeOK, Inv, DatabaseInv, [Next]_vars
  PROVE  DatabaseInv'
<1>1. ASSUME NEW k \in Name, ManageDatabase(k)
      PROVE  DatabaseInv'
  <2>1. /\ pc' = "idle" /\ UNCHANGED tf /\ Recorded(k)
        /\ db' \in {db, [db EXCEPT ![k] = ~db[k]]}
    BY <1>1 DEF ManageDatabase
  <2> QED
    BY <2>1 DEF DatabaseInv, Recorded, TypeOK
<1>2. ASSUME ~\E k \in Name : ManageDatabase(k), NEW n \in Name, db'[n]
      PROVE  Recorded(n)' /\ ~(pc' \in {"validating", "destroying"} /\ cmd'.name = n)
  <2>1. db[n] /\ Recorded(n) /\ ~(pc \in {"validating", "destroying"} /\ cmd.name = n)
    BY <1>2, DatabasesStay DEF DatabaseInv
  <2>2. Recorded(n)'
    BY <2>1, RecordGoes
  <2>3. \/ UNCHANGED <<pc, cmd>>
        \/ pc' \notin {"validating", "destroying"}
        \/ pc = "validating" /\ UNCHANGED cmd
        \/ \E m \in Name, t \in Type : DeleteDeployment(m, t)
    <3>1. CASE Submitted
      BY <1>2, <3>1 DEF Submitted, AddDeployment, NothingToReconcile, Reconcile,
                 RecoverOrphanedResources, Apply, Goto
    <3>2. CASE Controller
      BY <3>2 DEF Controller, control, Created, Started, Verified, Validated, NotEmpty,
                  Destroyed, Absent, RemoveProject, NoProject, ProjectRemoved, CleanJobs,
                  CleanSecret, CleanRefused, Cleaned, Reconciled, Settled, Settle, Emptied,
                  Same, Applied, Apply, Finish, Goto
    <3>3. CASE Operator \/ Interrupted \/ (\E k \in Name : PodLoss(k)) \/ UNCHANGED vars
      BY <3>3 DEF Operator, Interrupted, Finish, Goto, PodLoss, vars, control
    <3> QED
      BY <3>1, <3>2, <3>3 DEF Next
  <2>4. ASSUME NEW m \in Name, NEW t \in Type, DeleteDeployment(m, t)
        PROVE  cmd'.name = m /\ ~db[m]
    BY <2>4 DEF DeleteDeployment, CanDelete, Begin
  <2> QED
    BY <2>1, <2>2, <2>3, <2>4
<1> QED
  BY <1>1, <1>2 DEF DatabaseInv

-----------------------------------------------------------------------------
(* An Add plans for the type asked for.                                     *)

\* A run without faults saw none.
LEMMA NoFault ==
  ASSUME TypeOK, [Next]_vars, faults' = 0
  PROVE  faults = 0 /\ ~Fault /\ ~Interrupted /\ \A n \in Name : ~PodLoss(n)
<1>1. ~Fault
  BY LifecycleAssumption DEF Fault, TypeOK
<1>2. ~Interrupted /\ \A n \in Name : ~PodLoss(n)
  BY <1>1 DEF Interrupted, PodLoss
<1>3. Submitted => UNCHANGED faults
  BY <1>1 DEF Submitted, AddDeployment, DeleteDeployment, NothingToReconcile, Reconcile,
              RecoverOrphanedResources, ManageDatabase, Begin
<1>4. Controller => UNCHANGED faults
  BY DEF Controller, control, Created, Started, Verified, Validated, NotEmpty,
         Destroyed, Absent, RemoveProject, NoProject, ProjectRemoved, CleanJobs,
         CleanSecret, CleanRefused, Cleaned, Reconciled, Settled, Settle, Emptied, Same
<1>5. Operator \/ UNCHANGED vars => UNCHANGED faults
  BY DEF Operator, vars, control
<1> QED
  BY <1>1, <1>2, <1>3, <1>4, <1>5 DEF Next

\* A step of the command in hand, or of Terraform or the Operator for it, at the
\* same place with the same plan, brings the deployment no database and, unless
\* something failed, takes no project from it.
LEMMA SameAdd ==
  ASSUME TypeOK, Inv, AddInv, [Next]_vars, UNCHANGED <<pc, cmd, inv>>
  PROVE  AddInv'
<1>1. pc # "idle" => UNCHANGED <<data, db>>
  <2>1. pc # "idle" => ~\E n \in Name : ManageDatabase(n)
    BY DEF ManageDatabase
  <2> QED
    BY <2>1, DataStays, DatabasesStay
<1>2. ASSUME pc = "verifying", faults' = 0
      PROVE  project'[cmd.name] = "active"
  <2>1. project[cmd.name] = "active" /\ cmd.name \in Name
    BY <1>2, NoFault DEF AddInv, TypeOK, Command
  <2>2. ~RemoveProject /\ ~ProjectRemoved
    BY <1>2 DEF RemoveProject, ProjectRemoved
  <2> QED
    BY <2>1, <2>2, OnlyCleanups DEF CreateProject, ProjectGone, TypeOK, WorldTypeOK
<1> QED
  BY <1>1, <1>2 DEF AddInv

\* Every step keeps AddInv.
LEMMA NextAdd ==
  ASSUME TypeOK, Inv, DatabaseInv, AddInv, TidyInv, [Next]_vars
  PROVE  AddInv'
<1>1. CASE UNCHANGED <<pc, cmd, inv>>
  BY <1>1, SameAdd
<1>2. ASSUME NEW n \in Name, NEW t \in Type, AddDeployment(n, t)
      PROVE  AddInv'
  <2>1. /\ pc' = "creating" /\ cmd' = [kind |-> "Add", name |-> n, type |-> t]
        /\ inv' = [Inventory EXCEPT ![n] = t] /\ UNCHANGED <<data, db>>
        /\ ~Recorded(n)
    BY <1>2 DEF AddDeployment, CanAdd, Begin, Apply, planes, control
  <2>2. ~data[n] /\ ~db[n]
    BY <2>1 DEF Inv, DataInv, DatabaseInv
  <2> QED
    BY <2>1, <2>2, InventoryType DEF AddInv
<1>3. ASSUME NEW n \in Name, NEW t \in Type, DeleteDeployment(n, t)
      PROVE  pc' = "validating"
  BY <1>3 DEF DeleteDeployment, Apply
<1>4. ASSUME NEW n \in Name, ManageDatabase(n)
      PROVE  pc' = "idle"
  BY <1>4 DEF ManageDatabase
<1>5. NothingToReconcile => pc' = "idle"
  BY DEF NothingToReconcile, Goto
<1>6. Reconcile => pc' = "converging" /\ cmd'.kind = "Reconcile"
  BY DEF Reconcile, Apply, Begin, NoCommand
<1>7. RecoverOrphanedResources => pc' = "emptying"
  BY DEF RecoverOrphanedResources, Apply
<1>8. CASE Submitted
  BY <1>2, <1>3, <1>4, <1>5, <1>6, <1>7, <1>8 DEF Submitted, AddInv
<1>9. CASE Created
  BY <1>9 DEF Created, Applied, Goto, Same, AddInv, planes
<1>10. CASE Started
  <2>1. /\ pc = "starting" /\ pc' = "verifying" /\ UNCHANGED <<data, db, project, inv, cmd, faults>>
        /\ health[cmd.name] = "usable"
    BY <1>10 DEF Started, Apply, Same, planes
  <2>2. cmd.name \in Name
    BY DEF TypeOK, Command
  <2> QED
    BY <2>1, <2>2 DEF AddInv, TidyInv, TidyHealth
<1>11. CASE Verified \/ NotEmpty \/ NoProject \/ ProjectRemoved \/ CleanRefused \/ Settled
            \/ Interrupted
  <2>1. pc' = "idle"
    BY <1>11 DEF Verified, NotEmpty, NoProject, ProjectRemoved, CleanRefused, Settled,
                 Interrupted, Finish, Goto
  <2> QED
    BY <2>1 DEF AddInv
<1>12. CASE Validated \/ Destroyed \/ Absent \/ RemoveProject \/ Cleaned \/ Emptied
  <2>1. pc' \in {"destroying", "leaving", "cleaning", "polling", "removing", "idle"}
    BY <1>12 DEF Validated, Destroyed, Absent, RemoveProject, Cleaned, Emptied,
                 Apply, Goto, Finish
  <2> QED
    BY <2>1 DEF AddInv
<1>13. CASE Reconciled
  BY <1>13 DEF Reconciled, Applied, Goto, Same, AddInv
<1>14. CASE Controller
  BY <1>1, <1>9, <1>10, <1>11, <1>12, <1>13, <1>14
  DEF Controller, ApplyStep, CreateResource, DestroyResource, RunOperation, control,
      CleanJobs, CleanSecret, Settle, Same
<1>15. CASE Operator \/ (\E n \in Name : PodLoss(n)) \/ UNCHANGED vars
  BY <1>1, <1>15 DEF Operator, OperatorStep, PodLoss, PodsLost, vars, control
<1> QED
  BY <1>8, <1>11, <1>14, <1>15 DEF Next

-----------------------------------------------------------------------------
(* What is cleaned was destroyed before.                                    *)

\* While a Delete or RecoverOrphanedResources cleans, the steps beside it bring
\* nothing back.
LEMMA SameClean ==
  ASSUME TypeOK, Inv, CleanInv, [Next]_vars, UNCHANGED <<pc, cmd, inv, todo>>
  PROVE  CleanInv'
<1>1. /\ \A n \in Name : jobs'[n] => jobs[n] \/ pc = "idle"
      /\ \A n \in Name : agent'[n] => agent[n] \/ LiveType(n) # "none"
  <2>1. CASE UNCHANGED planes
    BY <2>1 DEF planes
  <2>2. ASSUME NEW n \in Name, NEW r \in Resource,
               CreateResource(n, r) \/ DestroyResource(n, r)
        PROVE  UNCHANGED <<jobs, agent>>
    BY <2>2 DEF CreateResource, DestroyResource
  <2>3. ASSUME NEW k \in Name, CleanJobs(k) \/ CleanSecret(k) \/ PodLoss(k)
        PROVE  \A n \in Name : (jobs'[n] => jobs[n]) /\ (agent'[n] => agent[n])
    BY <2>3 DEF CleanJobs, CleanSecret, PodLoss, PodsLost, TypeOK, WorldTypeOK
  <2>4. ASSUME NEW k \in Name, ManageDatabase(k)
        PROVE  pc = "idle" /\ UNCHANGED agent
    BY <2>4 DEF ManageDatabase
  <2>5. RemoveProject \/ ProjectRemoved => UNCHANGED <<jobs, agent>>
    BY DEF RemoveProject, ProjectRemoved
  <2>6. ASSUME NEW k \in Name,
               \/ CreateProject(k) \/ CreateAgentSecret(k)
               \/ BecomeRunning(k) \/ AdminUpdated(k) \/ ProjectGone(k)
        PROVE  /\ UNCHANGED jobs
               /\ \A n \in Name : agent'[n] => agent[n] \/ LiveType(n) # "none"
    BY <2>6 DEF CreateProject, CreateAgentSecret, BecomeRunning, AdminUpdated,
                ProjectGone, TypeOK, WorldTypeOK
  <2> QED
    BY <2>1, <2>2, <2>3, <2>4, <2>5, <2>6, PlaneSteps
<1>2. /\ pc \notin ApplyPC => UNCHANGED tf
      /\ \A n \in Name : LiveType(n) = "none" /\ inv[n] = "none" => LiveType(n)' = "none"
  <2>1. CASE UNCHANGED tf
    BY <2>1 DEF LiveType
  <2>2. ASSUME NEW n \in Name, NEW r \in Resource,
               CreateResource(n, r) \/ DestroyResource(n, r)
        PROVE  /\ pc \in ApplyPC
               /\ \A m \in Name : LiveType(m) = "none" /\ inv[m] = "none"
                                  => LiveType(m)' = "none"
    <3>1. pc \in ApplyPC
      BY <2>2 DEF CreateResource, DestroyResource, TypeOK
    <3>2. CASE CreateResource(n, r)
      BY <3>1, <3>2, CreateLive DEF LiveType
    <3>3. CASE DestroyResource(n, r)
      BY <3>1, <3>3, DestroyLive
    <3> QED
      BY <2>2, <3>2, <3>3
  <2>3. UNCHANGED tf \/ \E n \in Name, r \in Resource : CreateResource(n, r) \/ DestroyResource(n, r)
    BY OnlyApplies DEF ManageDatabase
  <2> QED
    BY <2>1, <2>2, <2>3
<1>3. cmd.name \in Name
  BY DEF TypeOK, Command
<1>4. \A n \in Name : tf[n] = {} => LiveType(n) = "none"
  BY DEF LiveType
<1>5. /\ pc \in {"leaving", "cleaning", "removing", "polling"} => UNCHANGED tf
      /\ pc \in {"removing", "polling"} => cmd.kind = "Delete"
  BY <1>2 DEF ApplyPC, Inv, DeleteInv
<1> QED
  BY <1>1, <1>2, <1>3, <1>4, <1>5 DEF CleanInv

\* A command that cleans starts with nothing, or with all there is, on its list.
LEMMA SubmittedClean ==
  ASSUME TypeOK, Inv, CleanInv, Submitted
  PROVE  CleanInv'
<1>1. ASSUME NEW n \in Name, ManageDatabase(n)
      PROVE  pc' = "idle"
  BY <1>1 DEF ManageDatabase
<1>2. CASE \/ \E n \in Name, t \in Type : AddDeployment(n, t) \/ DeleteDeployment(n, t)
           \/ \E n \in Name : ManageDatabase(n)
           \/ NothingToReconcile \/ Reconcile
  <2>1. pc' \in {"creating", "validating", "idle", "converging"}
    BY <1>1, <1>2 DEF AddDeployment, DeleteDeployment, NothingToReconcile, Reconcile,
                      Apply, Goto
  <2> QED
    BY <2>1 DEF CleanInv
<1>3. CASE RecoverOrphanedResources
  <2>1. /\ pc' = "emptying" /\ inv' = NoInventory /\ todo' = DiscoveredKeys
        /\ UNCHANGED planes
    BY <1>3 DEF RecoverOrphanedResources, Begin, Apply
  <2>2. \A n \in Name : LiveType(n)' = "none"
    BY <1>3, <2>1 DEF RecoverOrphanedResources, CanRecover, planes, LiveType
  <2>3. \A n \in Name : jobs'[n] \/ agent'[n] => n \in todo'
    BY <2>1 DEF planes, DiscoveredKeys
  <2> QED
    BY <2>1, <2>2, <2>3 DEF CleanInv, NoInventory
<1> QED
  BY <1>2, <1>3 DEF Submitted

\* Every step keeps CleanInv.
LEMMA NextClean ==
  ASSUME TypeOK, Inv, CleanInv, [Next]_vars
  PROVE  CleanInv'
<1> USE DEF TypeOK, WorldTypeOK, Command
<1>1. CASE UNCHANGED <<pc, cmd, inv, todo>>
  BY <1>1, SameClean
<1>2. CASE Submitted
  BY <1>2, SubmittedClean
<1>3. CASE Created \/ Started \/ Reconciled \/ Verified \/ NotEmpty \/ NoProject
           \/ ProjectRemoved \/ CleanRefused \/ Settled \/ Interrupted
  <2>1. pc' \in {"starting", "verifying", "settling", "idle"}
    BY <1>3 DEF Created, Started, Reconciled, Verified, NotEmpty, NoProject, ProjectRemoved,
                CleanRefused, Settled, Interrupted, Finish, Goto, Apply
  <2> QED
    BY <2>1 DEF CleanInv
<1>4. CASE Validated
  <2>1. pc' = "destroying" /\ cmd' = cmd /\ inv' = [inv EXCEPT ![cmd.name] = "none"]
    BY <1>4 DEF Validated, Apply, Same
  <2> QED
    BY <2>1 DEF CleanInv
<1>5. CASE Destroyed
  <2>1. /\ pc = "destroying" /\ pc' = "leaving" /\ UNCHANGED <<cmd, inv, tf>>
        /\ tf[cmd.name] = Wanted(cmd.name)
    BY <1>5 DEF Destroyed, Applied, Converged, Goto, Same, planes
  <2>2. inv[cmd.name] = "none"
    BY <2>1 DEF CleanInv, Inv, DeleteInv
  <2> QED
    BY <2>1, <2>2 DEF CleanInv, Wanted
<1>6. CASE Absent
  <2>1. /\ pc = "leaving" /\ pc' = "cleaning" /\ UNCHANGED <<cmd, inv, tf>>
        /\ todo' = {cmd.name} /\ cmd.kind = "Delete"
    BY <1>6 DEF Absent, Goto, planes, Inv, DeleteInv
  <2> QED
    BY <2>1 DEF CleanInv
<1>7. CASE RemoveProject
  <2>1. /\ pc = "removing" /\ pc' = "polling" /\ UNCHANGED <<cmd, inv, tf, jobs, agent>>
    BY <1>7 DEF RemoveProject, Goto, Same
  <2> QED
    BY <2>1 DEF CleanInv
<1>8. ASSUME NEW k \in Name, CleanSecret(k)
      PROVE  CleanInv'
  <2>1. /\ UNCHANGED <<pc, cmd, inv, tf, jobs>> /\ pc = "cleaning" /\ ~jobs[k]
        /\ todo' = todo \ {k} /\ agent' = [agent EXCEPT ![k] = FALSE]
    BY <1>8 DEF CleanSecret
  <2>2. \A n \in Name : n # k => agent'[n] = agent[n]
    BY <2>1
  <2>3. ~agent'[k]
    BY <2>1
  <2> QED
    BY <2>1, <2>2, <2>3 DEF CleanInv, LiveType
<1>9. CASE Cleaned
  <2>1. CASE cmd.kind = "Delete"
    <3>1. /\ pc = "cleaning" /\ pc' = "removing" /\ todo = {}
          /\ UNCHANGED <<cmd, inv, tf, jobs, agent>>
      BY <1>9, <2>1 DEF Cleaned, Goto, Same, planes
    <3> QED
      BY <2>1, <3>1 DEF CleanInv
  <2>2. CASE cmd.kind # "Delete"
    <3>1. pc' = "idle"
      BY <1>9, <2>2 DEF Cleaned, Finish, Goto
    <3> QED
      BY <3>1 DEF CleanInv
  <2> QED
    BY <2>1, <2>2
<1>10. CASE Emptied
  <2>1. /\ pc = "emptying" /\ pc' = "cleaning"
        /\ UNCHANGED <<cmd, inv, tf, jobs, agent, todo>>
        /\ \A n \in Name : tf[n] = Wanted(n)
    BY <1>10 DEF Emptied, Applied, Converged, Goto, Same, planes
  <2>2. cmd.kind = "Recover"
    BY <2>1 DEF Inv, DeleteInv
  <2> QED
    BY <2>1, <2>2 DEF CleanInv, Wanted, LiveType
<1>11. ASSUME NEW n \in Name, Settle(n)
       PROVE  pc' = "settling"
  BY <1>11 DEF Settle
<1>12. CASE \E n \in Name : Settle(n)
  BY <1>11, <1>12 DEF CleanInv
<1>13. CASE Controller
  BY <1>1, <1>3, <1>4, <1>5, <1>6, <1>7, <1>8, <1>9, <1>10, <1>12, <1>13
  DEF Controller, ApplyStep, CreateResource, DestroyResource, RunOperation, control,
      CleanJobs, Same
<1>14. CASE Operator \/ (\E n \in Name : PodLoss(n)) \/ UNCHANGED vars
  BY <1>1, <1>14 DEF Operator, OperatorStep, PodLoss, PodsLost, vars, control
<1> QED
  BY <1>2, <1>3, <1>13, <1>14 DEF Next

-----------------------------------------------------------------------------
(* What is tidy as long as nothing fails.                                   *)

\* A command that ends when Terraform holds what it was given leaves that in Vault.
LEMMA IdleTidy ==
  ASSUME TypeOK, NEW n \in Name, tf[n] = Wanted(n), UNCHANGED tf, pc' = "idle"
  PROVE  TidyResources(n)'
<1>1. inv[n] \in Type \cup {"none"}
  BY DEF TypeOK, WorldTypeOK
<1>2. CASE inv[n] = "none"
  BY <1>2 DEF Wanted, TidyResources, Recorded
<1>3. CASE inv[n] \in Type
  <2>1. tf[n] = Parts(inv[n])
    BY <1>3 DEF Wanted, Type
  <2>2. Recorded(n) /\ LiveType(n) = inv[n]
    BY <1>3, <2>1, PartsOf DEF Recorded, LiveType, Type
  <2> QED
    BY <2>1, <2>2 DEF TidyResources, Recorded, LiveType
<1> QED
  BY <1>1, <1>2, <1>3

\* Between two commands, Vault's inventory asks for what there is.
LEMMA InventoryTidy ==
  ASSUME TypeOK, Inv, NEW n \in Name, TidyResources(n), pc = "idle"
  PROVE  tf[n] = IF Inventory[n] = "none" THEN {} ELSE Parts(Inventory[n])
BY DEF TidyResources, Inventory, Inv, ResourceInv

\* A submitted command plans for everything but what it adds.
LEMMA SubmittedResources ==
  ASSUME TypeOK, Inv, NEW n \in Name, TidyResources(n), Submitted, ~Fault
  PROVE  TidyResources(n)'
<1>1. ASSUME NEW m \in Name, NEW t \in Type, AddDeployment(m, t)
      PROVE  TidyResources(n)'
  <2>1. /\ pc = "idle" /\ pc' = "creating" /\ cmd'.name = m /\ UNCHANGED tf
        /\ inv' = [Inventory EXCEPT ![m] = t]
    BY <1>1 DEF AddDeployment, Begin, Apply, planes
  <2>2. n # m => inv'[n] = Inventory[n]
    BY <2>1, InventoryType
  <2> QED
    BY <2>1, <2>2, InventoryTidy DEF TidyResources, Wanted
<1>2. CASE Reconcile \/ \E m \in Name, t \in Type : DeleteDeployment(m, t)
  <2>1. /\ pc = "idle" /\ pc' \in {"converging", "validating"} /\ UNCHANGED tf
        /\ inv' = Inventory
    BY <1>2 DEF Reconcile, DeleteDeployment, Begin, Apply, planes
  <2> QED
    BY <2>1, InventoryTidy DEF TidyResources, Wanted
<1>3. CASE NothingToReconcile \/ \E m \in Name : ManageDatabase(m)
  <2>1. pc = "idle" /\ pc' = "idle" /\ UNCHANGED tf
    BY <1>3 DEF NothingToReconcile, ManageDatabase, Begin, Goto, planes
  <2> QED
    BY <2>1 DEF TidyResources, Recorded, LiveType
<1>4. CASE RecoverOrphanedResources
  <2>1. /\ pc = "idle" /\ pc' = "emptying" /\ UNCHANGED tf /\ inv' = NoInventory
        /\ ~Recorded(n)
    BY <1>4 DEF RecoverOrphanedResources, CanRecover, Begin, Apply, planes
  <2> QED
    BY <2>1 DEF TidyResources, Wanted, NoInventory
<1> QED
  BY <1>1, <1>2, <1>3, <1>4 DEF Submitted

\* Every step that is no fault keeps TidyResources.
LEMMA NextResources ==
  ASSUME TypeOK, Inv, NEW n \in Name, TidyResources(n), [Next]_vars, ~Fault
  PROVE  TidyResources(n)'
<1>1. CASE UNCHANGED <<pc, cmd, inv, tf>>
  BY <1>1 DEF TidyResources, Wanted, Recorded, LiveType
<1>2. ASSUME NEW m \in Name, NEW r \in Resource,
             CreateResource(m, r) \/ DestroyResource(m, r), UNCHANGED control
      PROVE  TidyResources(n)'
  <2>1. UNCHANGED <<pc, cmd, inv>> /\ pc # "idle"
    BY <1>2 DEF CreateResource, DestroyResource, control, TypeOK, ApplyPC
  <2>2. tf[m] # Wanted(m) /\ (n # m => tf'[n] = tf[n])
    BY <1>2, CreateLive, DestroyLive
  <2> QED
    BY <2>1, <2>2 DEF TidyResources, Wanted
<1>3. CASE Verified \/ NotEmpty \/ NoProject \/ ProjectRemoved \/ CleanRefused \/ Settled
  <2>1. /\ pc \in {"verifying", "validating", "removing", "polling", "cleaning", "settling"}
        /\ pc' = "idle" /\ UNCHANGED tf
    BY <1>3 DEF Verified, NotEmpty, NoProject, ProjectRemoved, CleanRefused, Settled,
                Applied, Finish, Goto, planes
  <2> QED
    BY <2>1, IdleTidy DEF TidyResources
<1>4. CASE Created \/ Destroyed \/ Reconciled \/ Emptied
  <2>1. /\ pc' \in {"starting", "leaving", "settling", "cleaning"} /\ UNCHANGED <<tf, inv>>
        /\ tf[n] = Wanted(n)
    BY <1>4 DEF Created, Destroyed, Reconciled, Emptied, Applied, Converged, Goto, planes
  <2> QED
    BY <2>1 DEF TidyResources, Wanted
<1>5. CASE Started \/ Absent \/ RemoveProject
  <2>1. /\ pc \in {"starting", "leaving", "removing"}
        /\ pc' \in {"verifying", "cleaning", "polling"} /\ UNCHANGED <<tf, inv>>
    BY <1>5 DEF Started, Absent, RemoveProject, Apply, Goto, planes
  <2> QED
    BY <2>1 DEF TidyResources, Wanted
<1>6. CASE Validated
  <2>1. /\ pc = "validating" /\ pc' = "destroying" /\ UNCHANGED <<tf, cmd>>
        /\ inv' = [inv EXCEPT ![cmd.name] = "none"]
    BY <1>6 DEF Validated, Applied, Apply, Same, planes
  <2>2. n # cmd.name => inv'[n] = inv[n]
    BY <2>1 DEF TypeOK, WorldTypeOK
  <2> QED
    BY <2>1, <2>2 DEF TidyResources, Wanted
<1>7. CASE Cleaned
  <2>1. pc = "cleaning" /\ UNCHANGED tf
    BY <1>7 DEF Cleaned, planes
  <2>2. CASE pc' = "idle"
    BY <2>1, <2>2, IdleTidy DEF TidyResources
  <2>3. CASE pc' = "removing" /\ UNCHANGED inv
    BY <2>1, <2>3 DEF TidyResources, Wanted
  <2> QED
    BY <1>7, <2>2, <2>3 DEF Cleaned, Goto, Finish
<1>8. ASSUME NEW k \in Name, CleanJobs(k) \/ CleanSecret(k) \/ Settle(k)
      PROVE  UNCHANGED <<pc, cmd, inv, tf>>
  BY <1>8 DEF CleanJobs, CleanSecret, Settle, Same, planes
<1>9. ASSUME RunOperation, UNCHANGED control
      PROVE  UNCHANGED <<pc, cmd, inv, tf>>
  BY <1>9 DEF RunOperation, planes, control
<1>10. CASE Controller
  BY <1>1, <1>2, <1>3, <1>4, <1>5, <1>6, <1>7, <1>8, <1>9, <1>10 DEF Controller, ApplyStep
<1>11. CASE Operator \/ UNCHANGED vars
  BY <1>1, <1>11 DEF Operator, OperatorStep, CreateProject, CreateAgentSecret,
          BecomeRunning, AdminUpdated, ProjectGone, vars, control, planes
<1>12. ~Interrupted /\ \A m \in Name : ~PodLoss(m)
  BY DEF Interrupted, PodLoss
<1> QED
  BY <1>10, <1>11, <1>12, SubmittedResources DEF Next

\* No MongoDB goes away but that of the deployment that is deleted.
LEMMA LiveKept ==
  ASSUME TypeOK, Inv, AddInv, NEW n \in Name, TidyResources(n), [Next]_vars,
         LiveType(n) # "none", LiveType(n)' = "none"
  PROVE  TakesDown(n)' /\ pc' = "destroying"
<1>1. PICK m \in Name, r \in Resource :
        (CreateResource(m, r) \/ DestroyResource(m, r)) /\ UNCHANGED control
  BY OnlyApplies DEF ManageDatabase, LiveType
<1>2. CASE CreateResource(m, r)
  BY <1>2, CreateLive
<1>3. CASE DestroyResource(m, r)
  <2>1. /\ UNCHANGED <<pc, cmd>> /\ pc \in ApplyPC
    BY <1>1, <1>3 DEF DestroyResource, control, TypeOK
  <2>2. n = m /\ inv[n] = "none" /\ tf[n] # Wanted(n)
    BY <1>3, DestroyLive
  <2>3. pc \in {"creating", "destroying"} /\ cmd.name = n
    BY <2>1, <2>2 DEF TidyResources, ApplyPC
  <2>4. cmd.type # "none"
    BY DEF TypeOK, Command, Type
  <2>5. pc = "destroying" /\ cmd.kind = "Delete"
    BY <2>2, <2>3, <2>4 DEF AddInv, Inv, DeleteInv
  <2> QED
    BY <2>1, <2>3, <2>5 DEF TakesDown
<1> QED
  BY <1>1, <1>2, <1>3

\* How a Delete that does not fail goes on from where it takes its deployment down.
LEMMA DownKept ==
  ASSUME TypeOK, Inv, CleanInv, NEW n \in Name, TakesDown(n), [Next]_vars, ~Fault
  PROVE  \/ UNCHANGED <<pc, cmd>>
         \/ TakesDown(n)' /\ pc' \in {"leaving", "cleaning"} /\ pc \in {"destroying", "leaving"}
         \/ TakesDown(n)' /\ pc' = "removing" /\ pc = "cleaning" /\ UNCHANGED planes /\ ~agent[n]
         \/ TakesDown(n)' /\ pc' = "polling" /\ pc = "removing" /\ RemoveProject
         \/ pc = "removing" /\ pc' = "idle" /\ UNCHANGED planes
              /\ (n = Platform \/ project[n] = "none")
         \/ pc = "polling" /\ pc' = "idle" /\ ProjectRemoved
<1>1. /\ pc \in {"destroying", "leaving", "cleaning", "removing", "polling"}
      /\ cmd.kind = "Delete" /\ cmd.name = n
  BY DEF TakesDown
<1>2. ~Submitted
  BY <1>1 DEF Submitted, AddDeployment, DeleteDeployment, ManageDatabase,
              NothingToReconcile, Reconcile, RecoverOrphanedResources, Begin
<1>3. CASE Destroyed \/ Absent
  BY <1>1, <1>3 DEF Destroyed, Absent, Applied, Goto, Same, TakesDown
<1>4. CASE Cleaned
  BY <1>1, <1>4 DEF Cleaned, Goto, Same, TakesDown, CleanInv
<1>5. CASE RemoveProject
  BY <1>1, <1>5 DEF RemoveProject, Goto, Same, TakesDown
<1>6. CASE NoProject
  BY <1>1, <1>6 DEF NoProject, Finish, Goto
<1>7. CASE ProjectRemoved
  BY <1>1, <1>7 DEF ProjectRemoved, Finish, Goto
<1>8. ~CleanRefused
  BY <1>1 DEF CleanRefused, CleanInv, Inv, DeleteInv
<1>9. ~(Created \/ Started \/ Verified \/ Validated \/ NotEmpty \/ Reconciled
         \/ Settled \/ Emptied)
  BY <1>1 DEF Created, Started, Verified, Validated, NotEmpty, Reconciled, Settled,
              Emptied, Applied
<1>10. ASSUME NEW k \in Name, CleanJobs(k) \/ CleanSecret(k) \/ Settle(k)
       PROVE  UNCHANGED <<pc, cmd>>
  BY <1>10 DEF CleanJobs, CleanSecret, Settle, Same
<1>11. CASE Controller
  BY <1>3, <1>4, <1>5, <1>6, <1>7, <1>8, <1>9, <1>10, <1>11 DEF Controller, control
<1>12. CASE Operator \/ UNCHANGED vars
  BY <1>12 DEF Operator, vars, control
<1>13. ~Interrupted /\ \A m \in Name : ~PodLoss(m)
  BY DEF Interrupted, PodLoss
<1> QED
  BY <1>2, <1>11, <1>12, <1>13 DEF Next

\* Only a command for databases, and only one that fails, leaves a Job or a lock.
LEMMA OnlyDatabases ==
  ASSUME TypeOK, [Next]_vars, ~Fault, NEW n \in Name, ~jobs[n], ~locked[n]
  PROVE  ~jobs'[n] /\ ~locked'[n]
<1>1. ASSUME NEW k \in Name, ManageDatabase(k)
      PROVE  UNCHANGED <<jobs, locked>>
  BY <1>1 DEF ManageDatabase
<1>2. jobs'[n] => jobs[n]
  <2>1. ASSUME NEW k \in Name, CleanJobs(k) \/ CleanSecret(k)
        PROVE  jobs'[n] => jobs[n]
    BY <2>1 DEF CleanJobs, CleanSecret, TypeOK, WorldTypeOK
  <2>2. ~\E k \in Name : PodLoss(k)
    BY DEF PodLoss
  <2> QED
    BY <1>1, <2>1, <2>2, PlaneSteps
    DEF planes, CreateResource, DestroyResource, RemoveProject, ProjectRemoved,
        CreateProject, CreateAgentSecret, BecomeRunning, AdminUpdated, ProjectGone
<1>3. UNCHANGED locked
  <2>1. Submitted => UNCHANGED locked
    BY <1>1 DEF Submitted, AddDeployment, DeleteDeployment, NothingToReconcile, Reconcile,
                RecoverOrphanedResources, Begin
  <2>2. Controller => UNCHANGED locked
    BY DEF Controller, control, Created, Started, Verified, Validated, NotEmpty,
           Destroyed, Absent, RemoveProject, NoProject, ProjectRemoved, CleanJobs,
           CleanSecret, CleanRefused, Cleaned, Reconciled, Settled, Settle, Emptied,
           Same, Finish
  <2>3. Operator \/ UNCHANGED vars => UNCHANGED locked
    BY DEF Operator, vars, control
  <2> QED
    BY <2>1, <2>2, <2>3 DEF Next, Interrupted, PodLoss
<1> QED
  BY <1>2, <1>3

\* Every step that is no fault keeps TidyArtifacts.
LEMMA NextArtifacts ==
  ASSUME TypeOK, Inv, AddInv, CleanInv, NEW n \in Name,
         TidyResources(n), TidyArtifacts(n), [Next]_vars, ~Fault
  PROVE  TidyArtifacts(n)'
<1>1. ~jobs'[n] /\ ~locked'[n]
  BY OnlyDatabases DEF TidyArtifacts
<1>2. ASSUME agent'[n], ~agent[n]
      PROVE  Live(n)'
  <2>1. PICK k \in Name : CleanSecret(k) \/ CreateAgentSecret(k)
    BY <1>2, OnlyCleanups
  <2>2. UNCHANGED tf /\ LiveType(n) # "none"
    BY <1>2, <2>1 DEF CleanSecret, CreateAgentSecret, TypeOK, WorldTypeOK
  <2> QED
    BY <2>2 DEF Live, LiveType
<1>3. ASSUME agent[n], Live(n)
      PROVE  Live(n)' \/ (TakesDown(n)' /\ pc' \notin {"removing", "polling"})
  BY <1>3, LiveKept DEF Live
<1>4. ASSUME agent[n], TakesDown(n), pc \notin {"removing", "polling"}
      PROVE  TakesDown(n)' /\ pc' \notin {"removing", "polling"}
  <2>1. UNCHANGED <<pc, cmd>> => TakesDown(n)'
    BY <1>4 DEF TakesDown
  <2> QED
    BY <1>4, <2>1, DownKept
<1> QED
  BY <1>1, <1>2, <1>3, <1>4 DEF TidyArtifacts

\* Every step that is no fault keeps TidyProjects.
LEMMA NextProjects ==
  ASSUME TypeOK, Inv, AddInv, CleanInv, NEW n \in Name,
         TidyResources(n), TidyProjects(n), [Next]_vars, ~Fault
  PROVE  TidyProjects(n)'
<1>1. \/ UNCHANGED <<project, group, stale>>
      \/ RemoveProject \/ ProjectRemoved
      \/ \E k \in Name : CreateProject(k) \/ ProjectGone(k)
  BY PlaneSteps
  DEF planes, CreateResource, DestroyResource, CleanJobs, CleanSecret, ManageDatabase,
      PodLoss, PodsLost, CreateAgentSecret, BecomeRunning, AdminUpdated
<1>2. CASE UNCHANGED <<project[n], group[n], stale[n]>>
  <2>1. ASSUME project[n] # "none", n # Platform, LiveType(n)' = "none"
        PROVE  TakesDown(n)'
    <3>1. CASE LiveType(n) # "none"
      BY <2>1, <3>1, LiveKept
    <3>2. CASE TakesDown(n)
      <4>1. UNCHANGED <<pc, cmd>> => TakesDown(n)'
        BY <3>2 DEF TakesDown
      <4>2. ~ProjectRemoved
        BY <2>1, <3>2 DEF ProjectRemoved, TakesDown
      <4> QED
        BY <2>1, <3>2, <4>1, <4>2, DownKept
    <3> QED
      BY <2>1, <3>1, <3>2 DEF TidyProjects
  <2>2. ASSUME project[n] = "deleting" \/ (project[n] = "none" /\ group[n])
        PROVE  TakesDown(n)' /\ pc' = "polling"
    <3>1. TakesDown(n) /\ pc = "polling"
      BY <2>2 DEF TidyProjects
    <3>2. ASSUME ProjectRemoved
          PROVE  FALSE
      <4>1. project[n] = "none" /\ group' = [group EXCEPT ![n] = FALSE]
        BY <3>1, <3>2 DEF ProjectRemoved, TakesDown
      <4> QED
        BY <1>2, <2>2, <4>1 DEF TypeOK, WorldTypeOK
    <3>3. UNCHANGED <<pc, cmd>> => TakesDown(n)'
      BY <3>1 DEF TakesDown
    <3> QED
      BY <3>1, <3>2, <3>3, DownKept
  <2> QED
    BY <1>2, <2>1, <2>2 DEF TidyProjects
<1>3. CASE RemoveProject
  <2>1. CASE n = cmd.name
    <3>1. /\ pc' = "polling" /\ cmd' = cmd /\ cmd.kind = "Delete"
          /\ project' = [project EXCEPT ![n] = "deleting"] /\ UNCHANGED stale
      BY <1>3, <2>1 DEF RemoveProject, Goto, Same, Inv, DeleteInv
    <3>2. TakesDown(n)'
      BY <2>1, <3>1 DEF TakesDown
    <3> QED
      BY <3>1, <3>2 DEF TidyProjects
  <2>2. CASE n # cmd.name
    <3>1. UNCHANGED <<project[n], group[n], stale[n]>>
      BY <1>3, <2>2 DEF RemoveProject, TypeOK, WorldTypeOK
    <3> QED
      BY <1>2, <3>1
  <2> QED
    BY <2>1, <2>2
<1>4. CASE ProjectRemoved
  <2>1. CASE n = cmd.name
    <3>1. project'[n] = "none" /\ ~group'[n] /\ UNCHANGED stale
      BY <1>4, <2>1 DEF ProjectRemoved, TypeOK, WorldTypeOK
    <3> QED
      BY <3>1 DEF TidyProjects
  <2>2. CASE n # cmd.name
    <3>1. UNCHANGED <<project[n], group[n], stale[n]>>
      BY <1>4, <2>2 DEF ProjectRemoved, TypeOK, WorldTypeOK
    <3> QED
      BY <1>2, <3>1
  <2> QED
    BY <2>1, <2>2
<1>5. ASSUME NEW k \in Name, CreateProject(k)
      PROVE  TidyProjects(n)'
  <2>1. CASE k = n
    <3>1. /\ LiveType(n) # "none" /\ project[n] = "none" /\ project'[n] = "active"
          /\ stale'[n] = (stale[n] \/ group[n]) /\ UNCHANGED tf
      BY <1>5, <2>1 DEF CreateProject, TypeOK, WorldTypeOK
    <3>2. LiveType(n)' # "none"
      BY <3>1 DEF LiveType
    <3>3. ~group[n]
      <4>1. TakesDown(n) /\ pc = "polling" => tf[n] = {}
        BY DEF TakesDown, CleanInv
      <4> QED
        BY <3>1, <4>1 DEF TidyProjects, LiveType
    <3> QED
      BY <3>1, <3>2, <3>3 DEF TidyProjects
  <2>2. CASE k # n
    <3>1. UNCHANGED <<project[n], group[n], stale[n]>>
      BY <1>5, <2>2 DEF CreateProject, TypeOK, WorldTypeOK
    <3> QED
      BY <1>2, <3>1
  <2> QED
    BY <2>1, <2>2
<1>6. ASSUME NEW k \in Name, ProjectGone(k)
      PROVE  TidyProjects(n)'
  <2>1. CASE k = n
    <3>1. /\ project[n] = "deleting" /\ project'[n] = "none" /\ UNCHANGED stale
      BY <1>6, <2>1 DEF ProjectGone, TypeOK, WorldTypeOK
    <3>2. TakesDown(n) /\ pc = "polling"
      BY <3>1 DEF TidyProjects
    <3>3. UNCHANGED <<pc, cmd>>
      <4>1. ~ProjectRemoved
        BY <3>1, <3>2 DEF ProjectRemoved, TakesDown
      <4> QED
        BY <3>2, <4>1, DownKept
    <3>4. TakesDown(n)' /\ pc' = "polling"
      BY <3>2, <3>3 DEF TakesDown
    <3> QED
      BY <3>1, <3>4 DEF TidyProjects
  <2>2. CASE k # n
    <3>1. UNCHANGED <<project[n], group[n], stale[n]>>
      BY <1>6, <2>2 DEF ProjectGone, TypeOK, WorldTypeOK
    <3> QED
      BY <1>2, <3>1
  <2> QED
    BY <2>1, <2>2
<1> QED
  BY <1>1, <1>2, <1>3, <1>4, <1>5, <1>6

\* Every step that is no fault keeps TidyHealth.
LEMMA NextTidyHealth ==
  ASSUME TypeOK, Inv, HealthInv, CleanInv, NEW n \in Name,
         TidyProjects(n), TidyHealth(n), [Next]_vars
  PROVE  TidyHealth(n)'
<1> SUFFICES ASSUME health'[n] # "down"
             PROVE  project'[n] = "active"
  BY DEF TidyHealth
<1>1. ASSUME health[n] = "down"
      PROVE  project[n] = "active" /\ UNCHANGED project
  <2>1. PICK k \in Name : BecomeRunning(k) \/ AdminUpdated(k)
    BY <1>1, PlaneSteps
    DEF planes, CreateResource, DestroyResource, CleanJobs, CleanSecret, ManageDatabase,
        PodLoss, PodsLost, RemoveProject, ProjectRemoved, CreateProject,
        CreateAgentSecret, ProjectGone, TypeOK, WorldTypeOK
  <2>2. /\ k = n /\ UNCHANGED project
        /\ LiveType(n) # "none" /\ project[n] # "none"
    BY <1>1, <2>1 DEF BecomeRunning, AdminUpdated, TypeOK, WorldTypeOK
  <2>3. TakesDown(n) /\ pc = "polling" => LiveType(n) = "none"
    BY DEF TakesDown, CleanInv, LiveType
  <2> QED
    BY <2>2, <2>3 DEF TidyProjects, TypeOK, WorldTypeOK
<1>2. ASSUME health[n] # "down"
      PROVE  project'[n] = "active"
  <2>1. project[n] = "active" /\ LiveType(n) # "none"
    BY <1>2 DEF TidyHealth, HealthInv
  <2>2. RemoveProject => cmd.name # n
    BY <2>1 DEF RemoveProject, Inv, DeleteInv, Live
  <2> QED
    BY <2>1, <2>2, OnlyCleanups
    DEF RemoveProject, ProjectRemoved, CreateProject, ProjectGone, TypeOK, WorldTypeOK
<1> QED
  BY <1>1, <1>2

\* Init satisfies TidyInv, and every step keeps it.
LEMMA InitTidy == Init => TidyInv
<1> SUFFICES ASSUME Init, NEW n \in Name
             PROVE  TidyResources(n) /\ TidyArtifacts(n) /\ TidyProjects(n) /\ TidyHealth(n)
  BY DEF TidyInv
<1>1. DeployedType \in Type
  BY LifecycleAssumption
<1>2. tf[n] = IF n \in Deployed THEN Parts(DeployedType) ELSE {}
  BY DEF Init, WorldInit
<1>3. /\ n \in Deployed => Recorded(n) /\ LiveType(n) = DeployedType
      /\ n \notin Deployed => ~Recorded(n)
  BY <1>1, <1>2, PartsOf DEF Recorded, LiveType, Type
<1>4. n \in Deployed => Live(n)
  BY <1>1, <1>3 DEF Live, Type
<1>5. TidyResources(n)
  BY <1>2, <1>3 DEF TidyResources, Init
<1>6. TidyArtifacts(n)
  BY <1>4, WorldAssumption DEF TidyArtifacts, Init, WorldInit, Live
<1>7. TidyProjects(n)
  BY <1>1, <1>3 DEF TidyProjects, Init, WorldInit, Type
<1>8. TidyHealth(n)
  BY DEF TidyHealth, Init, WorldInit
<1> QED
  BY <1>5, <1>6, <1>7, <1>8

LEMMA NextTidy ==
  ASSUME TypeOK, Inv, HealthInv, AddInv, CleanInv, TidyInv, [Next]_vars
  PROVE  TidyInv'
<1> SUFFICES ASSUME faults' = 0, NEW n \in Name
             PROVE  /\ TidyResources(n)' /\ TidyArtifacts(n)'
                    /\ TidyProjects(n)' /\ TidyHealth(n)'
  BY DEF TidyInv
<1>1. /\ ~Fault /\ TidyResources(n) /\ TidyArtifacts(n)
      /\ TidyProjects(n) /\ TidyHealth(n)
  BY NoFault DEF TidyInv
<1> QED
  BY <1>1, NextResources, NextArtifacts, NextProjects, NextTidyHealth

-----------------------------------------------------------------------------
(* The inductive invariant.                                                 *)

\* The invariant holds in every behaviour.
THEOREM InvariantCorrect == Spec => []LifecycleInv
<1>1. Init => OutcomeInv
  <2>1. Init => DatabaseInv /\ AddInv /\ CleanInv
    BY DEF Init, DatabaseInv, AddInv, CleanInv
  <2> QED
    BY <2>1, InitHealth, InitTidy DEF OutcomeInv
<1>2. CoreInv /\ OutcomeInv /\ [Next]_vars => OutcomeInv'
  BY NextHealth, NextDatabases, NextAdd, NextClean, NextTidy DEF CoreInv, Inv, OutcomeInv
<1> QED
  BY <1>1, <1>2, CoreCorrect, PTL DEF Spec, LifecycleInv

-----------------------------------------------------------------------------
(* No apply gets stuck.                                                     *)

\* What depends on each resource.
LEMMA DependencyCases ==
  ASSUME NEW r \in Resource
  PROVE  /\ DependsOn("replica_set") = {"replica_set_storage"}
         /\ DependsOn("sharded_cluster") = {"sharded_cluster_storage"}
         /\ DependsOn("admin_user") = {"replica_set", "sharded_cluster", "admin_password"}
         /\ DependsOn("metadata") = {"replica_set", "sharded_cluster"}
         /\ r \in {"replica_set_storage", "sharded_cluster_storage", "admin_credential",
                   "admin_password"} => DependsOn(r) = {}
         /\ r \in {"replica_set_storage", "sharded_cluster_storage", "replica_set",
                   "sharded_cluster", "admin_credential", "admin_password", "admin_user",
                   "metadata"}
<1>1. r \in {"replica_set_storage", "sharded_cluster_storage", "replica_set",
            "sharded_cluster", "admin_credential", "admin_password", "admin_user", "metadata"}
  BY PartsOf DEF Resource, Storage, Accounts, Type
<1> QED
  BY <1>1, PartsOf DEF DependsOn

\* Of what is to be destroyed, something stands at the top.
LEMMA SomeDestroyable ==
  ASSUME TypeOK, NEW n \in Name, NEW r \in Resource, r \in tf[n] \ Wanted(n)
  PROVE  \E m \in Name, q \in Resource : Destroyable(m, q)
<1> DEFINE Top    == {"metadata", "admin_user"}
           Middle == {"replica_set", "sharded_cluster", "admin_password"}
<1>1. \A m \in Name, q \in Resource :
        q \in tf[m] \ Wanted(m) /\ ~Destroyable(m, q) =>
          \E k \in Name, p \in Resource : p \in tf[k] \ Wanted(k) /\ q \in DependsOn(p)
  BY DEF Destroyable, TypeOK, WorldTypeOK
<1>2. ASSUME NEW m \in Name, NEW q \in Resource, q \in tf[m] \ Wanted(m), q \in Top
      PROVE  Destroyable(m, q)
  <2>1. \A p \in Resource : q \notin DependsOn(p)
    BY <1>2, DependencyCases
  <2> QED
    BY <1>1, <1>2, <2>1
<1>3. ASSUME NEW m \in Name, NEW q \in Resource, q \in tf[m] \ Wanted(m), q \in Middle
      PROVE  \E k \in Name, p \in Resource : Destroyable(k, p)
  <2>1. \A p \in Resource : q \in DependsOn(p) => p \in Top
    BY <1>3, DependencyCases
  <2> QED
    BY <1>1, <1>2, <1>3, <2>1
<1>4. \A p \in Resource : r \in DependsOn(p) => p \in Top \cup Middle
  BY DependencyCases
<1> HIDE DEF Top, Middle
<1> QED
  BY <1>1, <1>2, <1>3, <1>4

\* Of what is to be created, something stands at the bottom; and no MongoDB is to be
\* created beside another one of its name.
LEMMA SomeCreatable ==
  ASSUME TypeOK, Inv, NEW n \in Name, NEW r \in Resource, r \in Wanted(n) \ tf[n]
  PROVE  \E m \in Name, q \in Resource : Creatable(m, q)
<1> DEFINE Bottom == {"replica_set_storage", "sharded_cluster_storage",
                      "admin_credential", "admin_password"}
           Middle == {"replica_set", "sharded_cluster"}
<1>1. \A m \in Name : Wanted(m) \subseteq Resource
  BY DEF Wanted, Parts, Resource, TypeOK, WorldTypeOK, Manifests
<1>2. ASSUME NEW m \in Name, NEW q \in Resource, q \in Wanted(m) \ tf[m], q \in Middle
      PROVE  ~Live(m)
  <2>1. inv[m] \in Type /\ q \in Parts(inv[m])
    BY <1>2 DEF Wanted, TypeOK, WorldTypeOK
  <2>2. LiveType(m) \in {"none", inv[m]} /\ m \notin Foreign
    BY <2>1 DEF Inv, PlanInv, Type
  <2>3. q = Manifest(inv[m])
    BY <1>2, <2>1, PartsOf DEF Type
  <2>4. LiveType(m) # inv[m]
    BY <1>2, <2>1, <2>3, PartsOf, LiveTypeOf DEF Type
  <2> QED
    BY <2>2, <2>4 DEF Live
<1>3. \A m \in Name, q \in Resource :
        /\ q \in Wanted(m) \ tf[m] /\ ~Creatable(m, q)
        => \E k \in Name, p \in Resource : p \in Wanted(k) \ tf[k] /\ p \in DependsOn(q)
  BY <1>1, <1>2, PartsOf DEF Creatable
<1>4. ASSUME NEW m \in Name, NEW q \in Resource, q \in Wanted(m) \ tf[m], q \in Bottom
      PROVE  Creatable(m, q)
  <2>1. DependsOn(q) = {}
    BY <1>4, DependencyCases
  <2> QED
    BY <1>3, <1>4, <2>1
<1>5. ASSUME NEW m \in Name, NEW q \in Resource, q \in Wanted(m) \ tf[m], q \in Middle
      PROVE  \E k \in Name, p \in Resource : Creatable(k, p)
  <2>1. DependsOn(q) \subseteq Bottom
    BY <1>5, DependencyCases
  <2> QED
    BY <1>3, <1>4, <1>5, <2>1
<1>6. DependsOn(r) \subseteq Bottom \cup Middle
  BY DependencyCases
<1> HIDE DEF Bottom, Middle
<1> QED
  BY <1>3, <1>4, <1>5, <1>6

\* Whatever was left half-made, an apply has something it can create or destroy until
\* everything is as its inventory says.
THEOREM ApplyCorrect == Spec => []ApplyGoesOn
<1>1. ASSUME TypeOK, Inv, Applying, NEW n \in Name, tf[n] # Wanted(n)
      PROVE  \E m \in Name, r \in Resource : Creatable(m, r) \/ Destroyable(m, r)
  <2>1. Wanted(n) \subseteq Resource /\ tf[n] \subseteq Resource
    BY <1>1 DEF Wanted, Parts, Resource, TypeOK, WorldTypeOK, Manifests
  <2>2. PICK r \in Resource : r \in (Wanted(n) \ tf[n]) \cup (tf[n] \ Wanted(n))
    BY <1>1, <2>1
  <2> QED
    BY <1>1, <2>2, SomeCreatable, SomeDestroyable
<1>2. CoreInv => ApplyGoesOn
  BY <1>1 DEF CoreInv, Inv, ApplyGoesOn
<1> QED
  BY <1>2, CoreCorrect, PTL

-----------------------------------------------------------------------------
(* A success means what it says.                                            *)

\* Where each command ends in success.
LEMMA SuccessEnds ==
  ASSUME CoreInv, OutcomeInv, [Next]_vars,
         pc # "idle", pc' = "idle", outcome' = "succeeded"
  PROVE  /\ UNCHANGED <<tf, data, jobs, agent, project>>
         /\ \/ cmd.kind = "Add" /\ pc = "verifying" /\ Converged
            \/ /\ cmd.kind = "Delete" /\ pc \in {"removing", "polling"}
               /\ project[cmd.name] = "none"
            \/ cmd.kind = "Recover" /\ pc = "cleaning" /\ todo = {}
            \/ cmd.kind = "Reconcile"
<1>1. ~Submitted
  BY DEF Submitted, AddDeployment, DeleteDeployment, ManageDatabase,
         NothingToReconcile, Reconcile, RecoverOrphanedResources, Begin
<1>2. \/ Verified \/ NoProject \/ ProjectRemoved \/ Settled
      \/ Cleaned /\ cmd.kind = "Recover"
  <2>1. ~(Created \/ Started \/ Validated \/ NotEmpty \/ Destroyed \/ Absent
          \/ RemoveProject \/ CleanRefused \/ Reconciled \/ Emptied \/ Interrupted)
    BY DEF Created, Started, Validated, NotEmpty, Destroyed, Absent, RemoveProject,
           CleanRefused, Reconciled, Emptied, Interrupted, Apply, Goto, Finish
  <2>2. ~\E k \in Name : CleanJobs(k) \/ CleanSecret(k) \/ Settle(k) \/ PodLoss(k)
    BY DEF CleanJobs, CleanSecret, Settle, PodLoss
  <2>3. ~(Operator \/ (ApplyStep /\ UNCHANGED control) \/ UNCHANGED vars)
    BY DEF Operator, control, vars
  <2>4. Cleaned => cmd.kind = "Recover"
    BY DEF Cleaned, Goto
  <2> QED
    BY <1>1, <2>1, <2>2, <2>3, <2>4 DEF Next, Controller
<1>3. /\ pc = "verifying" => cmd.kind = "Add"
      /\ pc \in {"removing", "polling"} => cmd.kind = "Delete"
      /\ pc = "settling" => cmd.kind = "Reconcile"
  BY DEF CoreInv, OutcomeInv, DeleteInv, AddInv
<1> QED
  BY <1>2, <1>3 DEF Verified, Applied, NoProject, ProjectRemoved, Settled, Cleaned,
                    Finish, planes

\* An Add that reports success leaves a deployment without the databases of an
\* earlier one, in a project that stays unless something had failed.
THEOREM AddedCorrect == Spec => AddedIsFresh
<1>1. ASSUME CoreInv, OutcomeInv, [Next]_vars, Succeeds("Add")
      PROVE  /\ ~data[cmd.name] /\ ~db[cmd.name]
             /\ faults = 0 => project[cmd.name] = "active"
  <2>1. pc = "verifying"
    BY <1>1, SuccessEnds DEF Succeeds
  <2> QED
    BY <1>1, <2>1 DEF OutcomeInv, AddInv
<1>2. LifecycleInv /\ [Next]_vars =>
        [Succeeds("Add") =>
           /\ ~data[cmd.name] /\ ~db[cmd.name]
           /\ faults = 0 => project[cmd.name] = "active"]_vars
  BY <1>1 DEF LifecycleInv
<1> QED
  BY <1>2, InvariantCorrect, PTL DEF Spec, AddedIsFresh

\* A Delete that reports success leaves nothing of the deployment on any plane but
\* group Secrets of projects an earlier command had given up.
THEOREM DeletedCorrect == Spec => DeletionIsComplete
<1>1. ASSUME CoreInv, OutcomeInv, [Next]_vars, Succeeds("Delete")
      PROVE  /\ tf'[cmd.name] = {}
             /\ ~jobs'[cmd.name] /\ ~agent'[cmd.name] /\ ~data'[cmd.name]
             /\ project'[cmd.name] = "none"
  <2>1. /\ UNCHANGED <<tf, data, jobs, agent, project>>
        /\ pc \in {"removing", "polling"} /\ project[cmd.name] = "none"
    BY <1>1, SuccessEnds DEF Succeeds
  <2>2. tf[cmd.name] = {} /\ ~jobs[cmd.name] /\ ~agent[cmd.name]
    BY <1>1, <2>1 DEF Succeeds, OutcomeInv, CleanInv
  <2>3. ~data[cmd.name]
    BY <1>1, <2>2 DEF CoreInv, DataInv, Recorded, TypeOK, Command
  <2> QED
    BY <2>1, <2>2, <2>3
<1>2. LifecycleInv /\ [Next]_vars =>
        [Succeeds("Delete") =>
           /\ tf'[cmd.name] = {}
           /\ ~jobs'[cmd.name] /\ ~agent'[cmd.name] /\ ~data'[cmd.name]
           /\ project'[cmd.name] = "none"]_vars
  BY <1>1 DEF LifecycleInv
<1> QED
  BY <1>2, InvariantCorrect, PTL DEF Spec, DeletionIsComplete

\* A RecoverOrphanedResources that reports success leaves no resource and no
\* artifact of any name.
THEOREM RecoveredCorrect == Spec => RecoveredIsClean
<1>1. ASSUME CoreInv, OutcomeInv, [Next]_vars, Succeeds("Recover"), NEW n \in Name
      PROVE  tf'[n] = {} /\ ~jobs'[n] /\ ~agent'[n]
  <2>1. /\ UNCHANGED <<tf, jobs, agent>> /\ pc = "cleaning" /\ todo = {}
        /\ cmd.kind = "Recover"
    BY <1>1, SuccessEnds DEF Succeeds
  <2> QED
    BY <1>1, <2>1 DEF OutcomeInv, CleanInv
<1>2. LifecycleInv /\ [Next]_vars =>
        [Succeeds("Recover") =>
           \A n \in Name : tf'[n] = {} /\ ~jobs'[n] /\ ~agent'[n]]_vars
  BY <1>1 DEF LifecycleInv
<1> QED
  BY <1>2, InvariantCorrect, PTL DEF Spec, RecoveredIsClean

-----------------------------------------------------------------------------
(* So does the status.                                                      *)

\* CLEAN is said only when nothing is left.
LEMMA CleanIsClean ==
  ASSUME CoreInv, OutcomeInv, ~Attention, ~Managed, NEW n \in Name
  PROVE  /\ tf[n] \subseteq {"admin_credential"}
         /\ ~jobs[n] /\ ~locked[n] /\ ~stale[n]
         /\ agent[n] => n \in Foreign
         /\ n # Platform => project[n] = "none" /\ ~group[n]
<1>1. RecordedNames = {} /\ ActiveProjects = {}
  BY DEF Managed, ActiveProjects
<1>2. tf[n] \subseteq {"admin_credential"} /\ ~locked[n]
  BY DEF Managed
<1>3. n \notin Foreign => ~Live(n)
  BY <1>2 DEF Live, LiveType
<1>4. jobs[n] => n \notin Foreign
  BY DEF OutcomeInv, HealthInv
<1>5. ~jobs[n] /\ (agent[n] => n \in Foreign)
  BY <1>1, <1>3, <1>4 DEF Attention, OrphanArtifacts
<1>6. ~stale[n]
  BY DEF Attention, OrphanGroupSecrets
<1>7. n # Platform => project[n] = "none"
  BY <1>1 DEF Attention, OrphanProjects, DeploymentProjects
<1>8. n # Platform => ~group[n]
  BY <1>1 DEF Attention, OrphanGroupSecrets
<1> QED
  BY <1>2, <1>5, <1>6, <1>7, <1>8

\* Without faults, between commands, nothing needs attention once what is recorded
\* is up.
LEMMA TidyIsQuiet ==
  ASSUME CoreInv, OutcomeInv, pc = "idle", faults = 0, ~Recorded(Platform),
         \A n \in RecordedNames : health[n] = "usable"
  PROVE  ~Attention
<1>1. ASSUME NEW n \in Name
      PROVE  /\ tf[n] = IF Recorded(n) THEN Parts(LiveType(n)) ELSE {}
             /\ ~jobs[n] /\ ~stale[n]
             /\ agent[n] => Live(n)
             /\ project[n] # "none" => n = Platform \/ LiveType(n) # "none"
             /\ project[n] # "deleting" /\ (project[n] = "none" => ~group[n])
             /\ health[n] # "down" => project[n] = "active"
  BY DEF OutcomeInv, TidyInv, TidyResources, TidyArtifacts, TidyProjects, TidyHealth, TakesDown
<1>2. ASSUME NEW n \in Name, Recorded(n)
      PROVE  /\ n # Platform /\ project[n] = "active"
             /\ LiveType(n) # "none" /\ "admin_user" \in tf[n]
  BY <1>1, <1>2 DEF RecordedNames, OutcomeInv, HealthInv, Parts, Accounts
<1>3. ASSUME NEW n \in Name, ~Recorded(n)
      PROVE  LiveType(n) = "none" /\ "admin_user" \notin tf[n]
  BY <1>1, <1>3 DEF LiveType
<1>4. MissingResources = {} /\ OrphanResources = {} /\ MissingUsers = {} /\ OrphanUsers = {}
  BY <1>2, <1>3 DEF MissingResources, OrphanResources, MissingUsers, OrphanUsers, RecordedNames
<1>5. OrphanArtifacts = {}
  BY <1>1 DEF OrphanArtifacts
<1>6. OrphanProjects = {} /\ MissingProjects = {}
  BY <1>1, <1>2, <1>3
  DEF OrphanProjects, MissingProjects, DeploymentProjects, RecordedNames
<1>7. project[Platform] # "none"
  BY DEF OutcomeInv, HealthInv
<1>8. OrphanGroupSecrets = {}
  BY <1>1, <1>2, <1>3, <1>7
  DEF OrphanGroupSecrets, ActiveProjects, DeploymentProjects, RecordedNames
<1> QED
  BY <1>4, <1>5, <1>6, <1>7, <1>8 DEF Attention

\* CLEAN is said only of nothing; attention asked for only after a fault.
THEOREM StatusCorrect == Spec => []StatusIsHonest
<1>1. ASSUME CoreInv, OutcomeInv, Status = "CLEAN", NEW n \in Name
      PROVE  /\ tf[n] \subseteq {"admin_credential"}
             /\ ~jobs[n] /\ ~locked[n] /\ ~stale[n]
             /\ agent[n] => n \in Foreign
             /\ n # Platform => project[n] = "none" /\ ~group[n]
  <2>1. ~Attention /\ ~Managed
    BY <1>1 DEF Status
  <2> QED
    BY <1>1, <2>1, CleanIsClean
<1>2. ASSUME CoreInv, OutcomeInv, Status = "ATTENTION REQUIRED"
      PROVE  \/ pc # "idle" \/ faults > 0
             \/ Recorded(Platform)
             \/ \E n \in RecordedNames : health[n] # "usable"
  <2>1. Attention
    BY <1>2 DEF Status
  <2>2. faults # 0 => faults > 0
    <3>1. faults \in 0 .. MaxFaults /\ MaxFaults \in Nat
      BY <1>2, LifecycleAssumption DEF CoreInv, TypeOK
    <3> QED
      BY <3>1
  <2> QED
    BY <1>2, <2>1, <2>2, TidyIsQuiet
<1>3. LifecycleInv => StatusIsHonest
  BY <1>1, <1>2 DEF LifecycleInv, StatusIsHonest
<1> QED
  BY <1>3, InvariantCorrect, PTL
=============================================================================
