------------------------ MODULE DatabaseCredentials ------------------------
(***************************************************************************)
(* One managed database, its accounts and their passwords (databases.py,   *)
(* database-accounts.tf, database-management.tf, metadata.tf, locals.tf    *)
(* and the verify_* functions of lifecycle.sh).                            *)
(*                                                                         *)
(* Each account has a credential in Vault and a password Secret in         *)
(* Kubernetes.  Both are write-only: Terraform cannot read either back, so *)
(* it keeps a version for each and writes when that version is not the     *)
(* rotation_version of the database.  What it writes is drawn anew in      *)
(* every apply, the same for both.  The MongoDB Operator gives MongoDB the *)
(* password of the Secret; customers read the one in Vault.                *)
(*                                                                         *)
(* The controller-state flock lets one command run at a time (the theorem  *)
(* InvariantCorrect of ShardTopologyProofs), so there is one command here. *)
(* It may fail at any apply, read or wait, and may be killed.              *)
(***************************************************************************)
EXTENDS Integers

CONSTANTS
  Account,       \* the accounts of the database
  Owner,         \* the one the Owner policy is about
  Sharded,       \* is the deployment a ShardedCluster (deployment lock)?
  Kinds,         \* the kinds of command that are submitted
  MaxCommands,   \* bound on the commands submitted
  MaxFaults      \* bound on failures, timeouts and kills

ASSUME CredentialAssumption ==
  /\ Owner \in Account
  /\ Sharded \in BOOLEAN
  /\ Kinds \subseteq {"AddDatabase", "DeleteDatabase", "RotatePasswords",
                      "DisableOwner", "EnableOwner", "Reconcile", "Other"}
  /\ MaxCommands \in Nat
  /\ MaxFaults \in Nat

VARIABLES
  metadata,      \* the database's _metadata record in Vault
  credential,    \* credential[a]: the account's credential in Vault
  secret,        \* secret[a]: the account's password Secret
  user,          \* user[a]: does the MongoDBUser resource exist?
  login,         \* login[a]: the password MongoDB accepts, 0 for no such user
  materialized,  \* does the database exist in MongoDB?
  locked,        \* does the deployment-lock ConfigMap exist?
  aged,          \* have rotation_days passed since created_at?
  pc,            \* where the command is
  cmd,           \* its kind, and whether the Owner was due at its submission
  inv,           \* the database's record in the inventory it holds
  want,          \* the record its current apply was planned for
  op,            \* what is left of the apply's one-shot operation
  attempt,       \* RotatePasswords: the attempts that have failed
  failing,       \* an exception is on its way through the finally block
  outcome,       \* how the last command ended
  applies,       \* number of applies; names the passwords drawn by the last
  commands,      \* number of commands submitted
  faults         \* number of faults so far

world   == <<metadata, credential, secret, user, login, materialized, locked>>
applied == <<inv, want, op, applies>>
control == <<pc, cmd, attempt, failing, outcome, commands, faults>>
vars    == <<world, aged, applied, control>>

\* A version or password of 0 stands for what does not exist.
Metadata == [version : Nat, owner_disabled : BOOLEAN]
Sink     == [version : Nat, password : Nat]
NoDatabase  == [version |-> 0, owner_disabled |-> FALSE]
NewDatabase == [version |-> 1, owner_disabled |-> FALSE]
NoSink      == [version |-> 0, password |-> 0]

Command == [kind : Kinds \cup {"none"}, due : BOOLEAN]

\* Where the command runs terraform apply; the rest of the with block of
\* protected_database_change; where it reads Vault or waits for Kubernetes.
ApplyPC     == {"acquiring", "changing", "recording", "verifying", "releasing",
                "applying"}
ProtectedPC == {"changing", "retry", "recording", "reload", "waiting", "verifying"}
ReadPC      == {"load", "decide", "retry", "reload", "waiting", "finally", "settling"}
PC == {"idle"} \cup ApplyPC \cup ProtectedPC \cup ReadPC

Recorded(r)  == r.version > 0
Active(r, a) == Recorded(r) /\ (a = Owner => ~r.owner_disabled)

TypeOK ==
  /\ metadata \in Metadata
  /\ credential \in [Account -> Sink]
  /\ secret \in [Account -> Sink]
  /\ user \in [Account -> BOOLEAN]
  /\ login \in [Account -> Nat]
  /\ materialized \in BOOLEAN /\ locked \in BOOLEAN /\ aged \in BOOLEAN
  /\ pc \in PC
  /\ cmd \in Command
  /\ inv \in Metadata /\ want \in Metadata
  /\ op \in {"none", "create_database", "delete_database", "deleted", "verify",
             "verify_absent", "acquire", "release"}
  /\ attempt \in {0, 1}
  /\ failing \in BOOLEAN
  /\ outcome \in {"none", "succeeded", "failed", "crashed"}
  /\ applies \in Nat /\ commands \in Nat /\ faults \in Nat

\* A deployment that runs and has no database yet.
Init ==
  /\ metadata = NoDatabase
  /\ credential = [a \in Account |-> NoSink]
  /\ secret = [a \in Account |-> NoSink]
  /\ user = [a \in Account |-> FALSE]
  /\ login = [a \in Account |-> 0]
  /\ materialized = FALSE /\ locked = FALSE /\ aged = FALSE
  /\ pc = "idle"
  /\ cmd = [kind |-> "none", due |-> FALSE]
  /\ inv = NoDatabase /\ want = NoDatabase
  /\ op = "none"
  /\ attempt = 0 /\ failing = FALSE
  /\ outcome = "none"
  /\ applies = 0 /\ commands = 0 /\ faults = 0

-----------------------------------------------------------------------------
(* Terraform's steps, in any order their dependencies allow.                *)

Applying == pc \in ApplyPC

\* vault_kv_secret_v2.database_metadata
WriteMetadata ==
  /\ Applying
  /\ Recorded(want)
  /\ metadata # want
  /\ metadata' = want
  /\ aged' = (Recorded(metadata) /\ aged)
  /\ UNCHANGED <<credential, secret, user, login, materialized, locked,
                 applied, control>>

\* Mutant: the credential is written in parallel with the metadata.
WriteCredential_NoDependsOn(a) ==
  /\ Applying
  /\ Recorded(want)
  /\ credential[a].version # want.version
  /\ credential' = [credential EXCEPT ![a] =
                      [version |-> want.version, password |-> applies]]
  /\ UNCHANGED <<metadata, secret, user, login, materialized, locked, aged,
                 applied, control>>

\* vault_kv_secret_v2.database_account depends on the metadata.
WriteCredential(a) ==
  /\ Applying
  /\ Recorded(want) /\ metadata = want
  /\ credential[a].version # want.version
  /\ credential' = [credential EXCEPT ![a] =
                      [version |-> want.version, password |-> applies]]
  /\ UNCHANGED <<metadata, secret, user, login, materialized, locked, aged,
                 applied, control>>

\* Mutant: the Secret is written in every apply, not by its version.
WriteSecret_EveryApply(a) ==
  /\ Applying
  /\ Recorded(want) /\ metadata = want
  /\ secret[a].password # applies
  /\ secret' = [secret EXCEPT ![a] =
                  [version |-> want.version, password |-> applies]]
  /\ UNCHANGED <<metadata, credential, user, login, materialized, locked, aged,
                 applied, control>>

\* kubernetes_secret_v1.database_account_password, likewise.
WriteSecret(a) ==
  /\ Applying
  /\ Recorded(want) /\ metadata = want
  /\ secret[a].version # want.version
  /\ secret' = [secret EXCEPT ![a] =
                  [version |-> want.version, password |-> applies]]
  /\ UNCHANGED <<metadata, credential, user, login, materialized, locked, aged,
                 applied, control>>

\* kubernetes_manifest.database_account depends on every password Secret.
CreateUser(a) ==
  /\ Applying
  /\ Active(want, a) /\ ~user[a]
  /\ metadata = want
  /\ \A b \in Account : secret[b].version = want.version
  /\ user' = [user EXCEPT ![a] = TRUE]
  /\ UNCHANGED <<metadata, credential, secret, login, materialized, locked,
                 aged, applied, control>>

RemoveUser(a) ==
  /\ Applying
  /\ ~Active(want, a) /\ user[a]
  /\ user' = [user EXCEPT ![a] = FALSE]
  /\ UNCHANGED <<metadata, credential, secret, login, materialized, locked,
                 aged, applied, control>>

\* Destruction goes against the dependencies: users, Secrets, metadata.
RemoveCredential(a) ==
  /\ Applying
  /\ ~Recorded(want)
  /\ credential[a] # NoSink
  /\ credential' = [credential EXCEPT ![a] = NoSink]
  /\ UNCHANGED <<metadata, secret, user, login, materialized, locked, aged,
                 applied, control>>

RemoveSecret(a) ==
  /\ Applying
  /\ ~Recorded(want)
  /\ \A b \in Account : ~user[b]
  /\ secret[a] # NoSink
  /\ secret' = [secret EXCEPT ![a] = NoSink]
  /\ UNCHANGED <<metadata, credential, user, login, materialized, locked, aged,
                 applied, control>>

RemoveMetadata ==
  /\ Applying
  /\ ~Recorded(want)
  /\ metadata # NoDatabase
  /\ \A a \in Account : credential[a] = NoSink /\ secret[a] = NoSink
  /\ metadata' = NoDatabase
  /\ UNCHANGED <<credential, secret, user, login, materialized, locked, aged,
                 applied, control>>

\* Mutant: dropping a database that is already absent is an error.
DropDatabase_MustExist ==
  /\ Applying
  /\ op = "delete_database" /\ materialized
  /\ materialized' = FALSE
  /\ op' = "deleted"
  /\ UNCHANGED <<metadata, credential, secret, user, login, locked, aged,
                 inv, want, applies, control>>

\* helm_release.mongodb_management: the operation hook drops the database, and
\* the provisioner hook creates every wanted one that was not just dropped.
DropDatabase ==
  /\ Applying
  /\ op = "delete_database"
  /\ materialized' = FALSE
  /\ op' = "deleted"
  /\ UNCHANGED <<metadata, credential, secret, user, login, locked, aged,
                 inv, want, applies, control>>

ProvisionDatabase ==
  /\ Applying
  /\ \/ op = "create_database"
     \/ Recorded(want) /\ ~materialized /\ op \notin {"delete_database", "deleted"}
  /\ materialized' = TRUE
  /\ op' = IF op = "create_database" THEN "none" ELSE op
  /\ UNCHANGED <<metadata, credential, secret, user, login, locked, aged,
                 inv, want, applies, control>>

\* Mutant: the Owner has to log in even when it is disabled.
VerifyAccounts_OwnerAlways ==
  /\ Applying
  /\ \/ op = "verify" /\ \A a \in Account : login[a] # 0
     \/ op = "verify_absent" /\ \A a \in Account : login[a] = 0
  /\ op' = "none"
  /\ UNCHANGED <<world, aged, inv, want, applies, control>>

\* verify_account, verify_owner_absent and verify_users_absent: mongosh with
\* the Operator's connection Secrets, which hold what MongoDB accepts.
VerifyAccounts ==
  /\ Applying
  /\ \/ op = "verify" /\ \A a \in Account : Active(inv, a) <=> login[a] # 0
     \/ op = "verify_absent" /\ \A a \in Account : login[a] = 0
  /\ op' = "none"
  /\ UNCHANGED <<world, aged, inv, want, applies, control>>

\* acquire_deployment_lock and release_deployment_lock.
ChangeLock ==
  /\ Applying
  /\ \/ op = "acquire" /\ ~locked /\ locked' = TRUE
     \/ op = "release" /\ locked' = FALSE
  /\ op' = "none"
  /\ UNCHANGED <<metadata, credential, secret, user, login, materialized, aged,
                 inv, want, applies, control>>

ApplyStep ==
  \/ WriteMetadata
  \/ RemoveMetadata
  \/ DropDatabase
  \/ ProvisionDatabase
  \/ VerifyAccounts
  \/ ChangeLock
  \/ \E a \in Account :
       \/ WriteCredential(a)
       \/ WriteSecret(a)
       \/ CreateUser(a)
       \/ RemoveUser(a)
       \/ RemoveCredential(a)
       \/ RemoveSecret(a)

\* Terraform exits 0 once the plan is carried out.
Converged ==
  /\ op \in {"none", "deleted"}
  /\ metadata = want
  /\ \A a \in Account :
       /\ user[a] = Active(want, a)
       /\ credential[a].version = want.version
       /\ secret[a].version = want.version
  /\ Recorded(want) /\ op = "none" => materialized

-----------------------------------------------------------------------------
(* The MongoDB Operator, external: MongoDB follows the MongoDBUsers and the *)
(* Secrets they name, some time later.                                      *)

SyncLogin(a) ==
  /\ login' = [login EXCEPT ![a] = IF user[a] THEN secret[a].password ELSE 0]
  /\ login' # login
  /\ UNCHANGED <<metadata, credential, secret, user, materialized, locked, aged,
                 applied, control>>

Operator == \E a \in Account : SyncLogin(a)

\* The rotation interval of the database passes.
Age ==
  /\ Recorded(metadata) /\ ~aged
  /\ aged' = TRUE
  /\ UNCHANGED <<world, applied, control>>

-----------------------------------------------------------------------------
(* The parts of the command's steps.                                        *)

Goto(p) == pc' = p

\* The command moves on; nothing else sees it.
Local(p) ==
  /\ Goto(p)
  /\ UNCHANGED <<world, aged, applied, cmd, attempt, failing, outcome, commands,
                 faults>>

\* apply_inventory with inventory record i, planned to record w, operation o.
StartApply(p, i, w, o) ==
  /\ Goto(p)
  /\ inv' = i /\ want' = w /\ op' = o
  /\ applies' = applies + 1
  /\ UNCHANGED <<world, aged, cmd, attempt, failing, outcome, commands, faults>>

Finish(result) ==
  /\ Goto("idle")
  /\ outcome' = result
  /\ inv' = NoDatabase /\ want' = NoDatabase /\ op' = "none"
  /\ attempt' = 0 /\ failing' = FALSE
  /\ UNCHANGED <<world, aged, applies, cmd, commands>>

Reload(p) ==
  /\ Goto(p)
  /\ inv' = metadata
  /\ UNCHANGED <<world, aged, want, op, applies, cmd, attempt, failing, outcome,
                 commands, faults>>

Fault ==
  /\ faults < MaxFaults
  /\ faults' = faults + 1

Changes   == cmd.kind \notin {"Reconcile", "Other"}
Protected == Sharded /\ pc \in ProtectedPC

-----------------------------------------------------------------------------
(* The steps of a command.                                                  *)

Submit ==
  /\ pc = "idle"
  /\ commands < MaxCommands
  /\ \E k \in Kinds : cmd' = [kind |-> k, due |-> aged]
  /\ commands' = commands + 1
  /\ outcome' = "none"
  /\ Goto("load")
  /\ UNCHANGED <<world, aged, applied, attempt, failing, faults>>

LoadInventory ==
  /\ pc = "load"
  /\ Reload("decide")

\* Only AddDatabase wants the database to be absent, and only commands on
\* another deployment ignore the lock of this one.
Refused ==
  \/ locked /\ cmd.kind # "Other"
  \/ Changes /\ (cmd.kind = "AddDatabase") = Recorded(inv)

\* DisableOwner of a disabled Owner and EnableOwner of an enabled one.
AlreadyDone ==
  \/ cmd.kind = "DisableOwner" /\ inv.owner_disabled
  \/ cmd.kind = "EnableOwner" /\ ~inv.owner_disabled

\* Mutants: a rotation does not apply the Owner policy, or applies it alone.
Planned_NoPolicy(i) ==
  CASE cmd.kind = "RotatePasswords" -> [i EXCEPT !.version = @ + 1]
    [] cmd.kind = "DisableOwner" -> [i EXCEPT !.owner_disabled = TRUE]
    [] cmd.kind = "EnableOwner"  -> [i EXCEPT !.owner_disabled = FALSE]
    [] OTHER -> i

Planned_PolicyOnly(i) ==
  CASE cmd.kind = "RotatePasswords" ->
         [version |-> i.version + 1, owner_disabled |-> aged]
    [] cmd.kind = "DisableOwner" -> [i EXCEPT !.owner_disabled = TRUE]
    [] cmd.kind = "EnableOwner"  -> [i EXCEPT !.owner_disabled = FALSE]
    [] OTHER -> i

\* local.databases of locals.tf: what Terraform makes of the record i.
Planned(i) ==
  CASE cmd.kind = "RotatePasswords" ->
         [version |-> i.version + 1, owner_disabled |-> i.owner_disabled \/ aged]
    [] cmd.kind = "DisableOwner" -> [i EXCEPT !.owner_disabled = TRUE]
    [] cmd.kind = "EnableOwner"  -> [i EXCEPT !.owner_disabled = FALSE]
    [] OTHER -> i

\* Mutant: AddDatabase creates the accounts without the database.
FirstOperation_NoCreate ==
  CASE cmd.kind = "DeleteDatabase" -> "delete_database"
    [] OTHER -> "none"

FirstOperation ==
  CASE cmd.kind = "AddDatabase"    -> "create_database"
    [] cmd.kind = "DeleteDatabase" -> "delete_database"
    [] OTHER -> "none"

StartChange == StartApply("changing", inv, Planned(inv), FirstOperation)

Decide ==
  /\ pc = "decide"
  /\ \/ Refused /\ Finish("failed") /\ UNCHANGED faults
     \/ /\ ~Refused /\ AlreadyDone
        /\ Finish("succeeded") /\ UNCHANGED faults
     \/ /\ ~Refused /\ ~AlreadyDone
        /\ IF ~Changes THEN StartApply("applying", inv, inv, "none")
           ELSE IF Sharded THEN StartApply("acquiring", inv, inv, "acquire")
           ELSE StartChange

\* Mutant: the second attempt starts from the inventory of the first.
Retry_NoReload ==
  /\ pc = "retry"
  /\ Recorded(metadata)
  /\ StartApply("changing", inv, Planned(inv), "none")

\* rotate_passwords: the second attempt starts from what Vault records now.
Retry ==
  /\ pc = "retry"
  /\ Recorded(metadata)
  /\ StartApply("changing", metadata, Planned(metadata), "none")

\* The second apply of add_database and delete_database; the others reload.
AfterChange ==
  CASE cmd.kind = "AddDatabase" ->
         StartApply("recording", NewDatabase, NewDatabase, "none")
    [] cmd.kind = "DeleteDatabase" ->
         StartApply("recording", NoDatabase, NoDatabase, "none")
    [] OTHER -> Local("reload")

\* Mutant: the accounts are verified with the inventory of the change.
ReloadInventory_Skipped ==
  /\ pc = "reload"
  /\ Recorded(metadata)
  /\ Local("waiting")

ReloadInventory ==
  /\ pc = "reload"
  /\ Recorded(metadata)
  /\ Reload("waiting")

\* wait_phase finds Updated on a MongoDBUser that was reconciled once, for
\* whichever password; wait_absent finds no MongoDBUser.
AccountsReady ==
  \A a \in Account : IF Active(inv, a) THEN user[a] /\ login[a] # 0 ELSE ~user[a]

\* Mutant: DeleteDatabase does not ask MongoDB.
VerifyDatabase_NotAbsent ==
  /\ pc = "waiting"
  /\ AccountsReady
  /\ StartApply("verifying", inv, inv, IF Recorded(inv) THEN "verify" ELSE "none")

VerifyDatabase ==
  /\ pc = "waiting"
  /\ AccountsReady
  /\ StartApply("verifying", inv, inv,
                IF Recorded(inv) THEN "verify" ELSE "verify_absent")

\* The finally block of protected_database_change.
ReleaseLock ==
  /\ pc = "finally"
  /\ StartApply("releasing", metadata, metadata, "release")

Succeed == Finish("succeeded") /\ UNCHANGED faults

ApplySucceeds ==
  /\ Applying /\ Converged
  /\ CASE pc = "acquiring" -> StartChange
       [] pc = "changing"  -> AfterChange
       [] pc = "recording" -> Local(IF Recorded(inv) THEN "reload" ELSE "waiting")
       [] pc = "verifying" -> IF Sharded THEN Local("finally") ELSE Succeed
       [] pc = "releasing" ->
            Finish(IF failing THEN "failed" ELSE "succeeded") /\ UNCHANGED faults
       [] OTHER -> Local("settling")

\* reconcile waits for the accounts; other commands wait for other resources.
Settle ==
  /\ pc = "settling"
  /\ cmd.kind = "Reconcile" => AccountsReady
  /\ Succeed

\* A ControllerError: RotatePasswords retries its first failed apply, and on
\* a ShardedCluster the finally block runs before the command fails.
Raise ==
  IF Protected
  THEN /\ Goto("finally")
       /\ failing' = TRUE
       /\ UNCHANGED <<world, aged, applied, cmd, attempt, outcome, commands>>
  ELSE Finish("failed")

ApplyFails ==
  /\ Applying
  /\ IF pc = "changing" /\ cmd.kind = "RotatePasswords" /\ attempt = 0
     THEN /\ Goto("retry")
          /\ attempt' = 1
          /\ UNCHANGED <<world, aged, applied, cmd, failing, outcome, commands>>
     ELSE Raise
  /\ Fault

\* A Vault or Kubernetes read fails, or a wait times out.
ReadFails ==
  /\ pc \in ReadPC
  /\ Raise
  /\ Fault

\* The process is killed: no finally block runs.
Crash ==
  /\ pc # "idle"
  /\ Finish("crashed")
  /\ Fault

Controller ==
  \/ LoadInventory
  \/ Decide
  \/ Retry
  \/ ReloadInventory
  \/ VerifyDatabase
  \/ ReleaseLock
  \/ ApplyStep
  \/ ApplySucceeds
  \/ Settle

Next ==
  \/ Submit
  \/ Controller
  \/ ApplyFails
  \/ ReadFails
  \/ Crash
  \/ Operator
  \/ Age

Spec == Init /\ [][Next]_vars

\* The command and the MongoDB Operator keep running; nobody owes a command,
\* a fault or the passing of the rotation interval.
FairSpec == Spec /\ WF_vars(Controller) /\ WF_vars(Operator)

-----------------------------------------------------------------------------
(* Safety.                                                                  *)

Reports(k) == outcome = "none" /\ outcome' = "succeeded" /\ cmd.kind = k

Agree(a) == credential[a] = secret[a]

\* When AddDatabase or RotatePasswords reports success, Vault and Kubernetes
\* hold one and the same password of every account, at the recorded version,
\* however many applies failed half-way before: the metadata goes first, and
\* every attempt advances it from what Vault records.
SinksConverge ==
  [][Reports("AddDatabase") \/ Reports("RotatePasswords") =>
       \A a \in Account : Agree(a) /\ credential[a].version = metadata.version]_vars

\* No password is written ahead of the version Vault records, and none is left
\* behind when that record goes: a rerun can always tell what to write or remove.
MetadataLeads ==
  \A a \in Account : /\ credential[a].version <= metadata.version
                     /\ secret[a].version <= metadata.version

\* When a command that has changed or rotated the Owner reports success, what it
\* says is so in the record and in Kubernetes, and a disabled Owner is out of
\* MongoDB; RotatePasswords at or after the interval disables the Owner.
OwnerAsReported ==
  [][pc # "decide" =>
     /\ (Reports("DisableOwner") \/ (Reports("RotatePasswords") /\ cmd.due)) =>
          metadata.owner_disabled /\ ~user[Owner] /\ login[Owner] = 0
     /\ Reports("EnableOwner") => ~metadata.owner_disabled /\ user[Owner]]_vars

\* A disabled Owner gets no new MongoDBUser but from EnableOwner: no rotation,
\* verification, release or reconciliation brings the account back.
OwnerStaysOut ==
  [][(Recorded(metadata) /\ metadata.owner_disabled /\ ~user[Owner]) =>
       \/ cmd.kind = "EnableOwner"
       \/ ~user'[Owner] /\ (Recorded(metadata') => metadata'.owner_disabled)]_vars

\* When DeleteDatabase reports success nothing of the database is left.
DeletedIsGone ==
  [][Reports("DeleteDatabase") =>
       /\ ~Recorded(metadata) /\ ~materialized
       /\ \A a \in Account : /\ login[a] = 0 /\ ~user[a]
                             /\ credential[a] = NoSink /\ secret[a] = NoSink]_vars

\* No account is created for a database that never existed.
DatabaseFirst ==
  [][~Recorded(metadata) /\ Recorded(metadata') => materialized]_vars

-----------------------------------------------------------------------------
(* The inductive invariant the proof of SinksConverge rests on.             *)

\* The kind of the command, and what it found, fit the place it is in.
PlaceInv ==
  /\ pc \in {"applying", "settling"} => ~Changes
  /\ pc \in {"acquiring", "changing"} => (cmd.kind = "AddDatabase") = ~Recorded(inv)
  /\ pc = "retry" => cmd.kind = "RotatePasswords"
  /\ pc = "recording" => cmd.kind \in {"AddDatabase", "DeleteDatabase"}
  /\ failing => pc \in {"finally", "releasing"}

\* What the command holds, next to what Vault records.
PlanInv ==
  /\ \A r \in {metadata, inv, want} : Recorded(r) \/ r = NoDatabase
  /\ pc \in {"decide", "acquiring", "waiting", "verifying", "releasing", "applying"}
       => inv = metadata
  /\ pc \in {"acquiring", "verifying", "releasing", "applying"} => want = metadata
  /\ pc = "changing" =>
       /\ want = metadata \/ inv = metadata
       /\ want.version = IF cmd.kind = "RotatePasswords" THEN inv.version + 1
                                                         ELSE inv.version
  /\ pc = "recording" =>
       /\ want = inv
       /\ IF cmd.kind = "AddDatabase"
          THEN inv = NewDatabase /\ metadata.version <= 1
          ELSE inv = NoDatabase

\* While new passwords are written, those already there are of this apply.
FreshInv ==
  \/ pc = "changing" /\ cmd.kind = "RotatePasswords"
  \/ pc = "recording" /\ cmd.kind = "AddDatabase"
  => \A a \in Account :
       /\ credential[a].version = want.version => credential[a].password = applies
       /\ secret[a].version = want.version => secret[a].password = applies

\* From there on they agree.
AgreeInv ==
  /\ cmd.kind \in {"AddDatabase", "RotatePasswords"}
  /\ \/ pc \in {"reload", "waiting", "verifying"}
     \/ pc \in {"finally", "releasing"} /\ ~failing
  => /\ Recorded(metadata)
     /\ \A a \in Account : Agree(a) /\ credential[a].version = metadata.version

CredentialInv ==
  TypeOK /\ MetadataLeads /\ PlaceInv /\ PlanInv /\ FreshInv /\ AgreeInv

-----------------------------------------------------------------------------
(* The commands implement DatabaseService.                                  *)

\* The password of an account is valid when both places hold it at the version
\* on record: what Vault shows the customer is then what MongoDB is given.
Valid(a) ==
  IF Recorded(metadata) /\ Agree(a) /\ credential[a].version = metadata.version
  THEN {credential[a].password} ELSE {}

Service == INSTANCE DatabaseService WITH
  request  <- IF pc = "idle" THEN "none" ELSE cmd.kind,
  answer   <- outcome,
  version  <- metadata.version,
  disabled <- metadata.owner_disabled,
  valid    <- [a \in Account |-> Valid(a)],
  exists   <- materialized,
  draws    <- applies

\* One command at a time, each answered with what is so; and no command but a
\* rotation or a deletion, and no step of recovery, reconciliation or of commands
\* elsewhere, ever makes a valid password invalid.
ServiceSpec == Service!Spec

-----------------------------------------------------------------------------
(* Liveness.                                                                *)

\* "Run RotatePasswords again": once nothing fails any more a rotation that is
\* not refused succeeds, whatever earlier commands have left.
RotationSucceeds ==
  (pc = "decide" /\ cmd.kind = "RotatePasswords" /\ ~Refused
     /\ faults = MaxFaults) ~> outcome = "succeeded"

\* And so does DeleteDatabase.
DeletionSucceeds ==
  (pc = "decide" /\ cmd.kind = "DeleteDatabase" /\ ~Refused
     /\ faults = MaxFaults) ~> outcome = "succeeded"

-----------------------------------------------------------------------------
(* What the code's own texts say and a run refutes.                         *)

\* reconcile: "Reapply complete Vault-backed desired state and verify
\* convergence".
ReconcileConverges ==
  [][Reports("Reconcile") => \A a \in Account : Agree(a)]_vars
=============================================================================
