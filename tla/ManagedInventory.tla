-------------------------- MODULE ManagedInventory --------------------------
(***************************************************************************)
(* ListManagedResources and ShowStatus (admin_status.py over               *)
(* managed_resource_inventory of maintenance.py): the three planes read    *)
(* side by side, every object of them classified, and the inventory as a   *)
(* whole called clean, managed or in need of attention.                    *)
(***************************************************************************)
EXTENDS DeploymentWorld

VARIABLE
  locked    \* locked[n]: a deployment-lock ConfigMap of n exists

RecordedNames == {n \in Name : Recorded(n)}

\* _kubernetes_inventory_summary
MissingResources == {n \in RecordedNames : LiveType(n) = "none"}
OrphanResources  == {n \in Name \ RecordedNames : LiveType(n) # "none"}
MissingUsers     == {n \in RecordedNames : "admin_user" \notin tf[n]}
OrphanUsers      == {n \in Name \ RecordedNames : "admin_user" \in tf[n]}

\* list_orphan_operator_artifacts: neither recorded nor live, under any owner.
OrphanArtifacts == {n \in Name \ RecordedNames : (jobs[n] \/ agent[n]) /\ ~Live(n)}

\* _ops_manager_inventory_summary.  A project that is being deleted is listed.
DeploymentProjects == {n \in Name \ {Platform} : project[n] # "none"}
ActiveProjects     == DeploymentProjects \cap RecordedNames
OrphanProjects     == DeploymentProjects \ RecordedNames
MissingProjects    == RecordedNames \ DeploymentProjects

\* Mutant: only the secrets of listed projects are looked at.
OrphanGroupSecrets_ProjectGone == {n \in OrphanProjects : stale[n] \/ group[n]}

\* A group Secret is named after the id of its project: it is an orphan unless
\* that is an active project or the platform's.
OrphanGroupSecrets ==
  {n \in Name : \/ stale[n]
                \/ /\ group[n]
                   /\ n \notin ActiveProjects
                   /\ ~(n = Platform /\ project[n] # "none")}

\* ATTENTION_KEYS
Attention ==
  \/ MissingResources # {} \/ OrphanResources # {}
  \/ MissingUsers # {} \/ OrphanUsers # {}
  \/ OrphanArtifacts # {}
  \/ OrphanProjects # {} \/ MissingProjects # {}
  \/ OrphanGroupSecrets # {}
  \/ project[Platform] = "none"

\* MANAGED_KEYS: Vault's records, whatever carries the controller's label or
\* its name prefix in Kubernetes, and the projects of deployments.  A credential
\* that only Vault holds is on no list.
Managed ==
  \/ RecordedNames # {}
  \/ \E n \in Name : tf[n] \ {"admin_credential"} # {} \/ locked[n]
  \/ ActiveProjects # {}

\* _inventory_status
Status == IF Attention THEN "ATTENTION REQUIRED"
          ELSE IF Managed THEN "MANAGED RESOURCES PRESENT"
          ELSE "CLEAN"
=============================================================================
