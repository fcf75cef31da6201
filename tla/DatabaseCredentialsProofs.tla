--------------------- MODULE DatabaseCredentialsProofs ---------------------
(***************************************************************************)
(* Proofs about DatabaseCredentials, for every set of accounts, every mix  *)
(* of commands and every bound on commands and faults: the inductive       *)
(* invariant CredentialInv, and from it that AddDatabase and               *)
(* RotatePasswords report success only when Vault and Kubernetes hold the  *)
(* same password of every account (SinksConverge).                         *)
(***************************************************************************)
EXTENDS DatabaseCredentials, TLAPS

-----------------------------------------------------------------------------
(* Types.                                                                   *)

\* The records a command may hold are metadata records.
LEMMA RecordTypes ==
  /\ NoDatabase \in Metadata /\ NewDatabase \in Metadata
  /\ NoSink \in Sink
BY DEF NoDatabase, NewDatabase, NoSink, Metadata, Sink

\* Init has the right types.
LEMMA InitType == Init => TypeOK
<1> SUFFICES ASSUME Init
             PROVE  TypeOK
  OBVIOUS
<1>1. credential \in [Account -> Sink] /\ secret \in [Account -> Sink]
  BY RecordTypes DEF Init
<1>2. user \in [Account -> BOOLEAN] /\ login \in [Account -> Nat]
  BY DEF Init
<1>3. cmd \in Command
  BY DEF Init, Command
<1> QED
  BY <1>1, <1>2, <1>3, RecordTypes DEF Init, TypeOK, PC

\* What Terraform plans for a metadata record is one.
LEMMA PlannedType ==
  ASSUME TypeOK, NEW i \in Metadata
  PROVE  Planned(i) \in Metadata
<1>1. aged \in BOOLEAN /\ i.version \in Nat /\ i.owner_disabled \in BOOLEAN
  BY DEF TypeOK, Metadata
<1>2. [version |-> i.version + 1, owner_disabled |-> i.owner_disabled \/ aged]
        \in Metadata
  BY <1>1 DEF Metadata
<1>3. /\ [i EXCEPT !.owner_disabled = TRUE] \in Metadata
      /\ [i EXCEPT !.owner_disabled = FALSE] \in Metadata
  BY DEF Metadata
<1> QED
  BY <1>2, <1>3 DEF Planned

\* A step that only moves the command on keeps TypeOK.
LEMMA LocalType ==
  ASSUME TypeOK, NEW p \in PC, Local(p)
  PROVE  TypeOK'
BY DEF TypeOK, Local, Goto, world, applied

\* Starting an apply for two metadata records keeps TypeOK.
LEMMA StartApplyType ==
  ASSUME TypeOK, NEW p \in PC, NEW i \in Metadata, NEW w \in Metadata,
         NEW o \in {"none", "create_database", "delete_database", "verify",
                    "verify_absent", "acquire", "release"},
         StartApply(p, i, w, o)
  PROVE  TypeOK'
BY DEF TypeOK, StartApply, Goto, world

\* Ending the command keeps TypeOK.
LEMMA FinishType ==
  ASSUME TypeOK, NEW r \in {"succeeded", "failed", "crashed"}, Finish(r),
         faults' \in Nat
  PROVE  TypeOK'
BY RecordTypes DEF TypeOK, Finish, Goto, world, PC

\* Reading Vault keeps TypeOK.
LEMMA ReloadType ==
  ASSUME TypeOK, NEW p \in PC, Reload(p)
  PROVE  TypeOK'
BY DEF TypeOK, Reload, Goto, world

\* The faults are counted.
LEMMA FaultType ==
  ASSUME TypeOK, Fault
  PROVE  faults' \in Nat
BY DEF TypeOK, Fault

\* A command that fails, through the finally block or not, keeps TypeOK.
LEMMA RaiseType ==
  ASSUME TypeOK, Raise, faults' \in Nat
  PROVE  TypeOK'
<1>1. CASE Protected
  <2>1. "finally" \in PC
    BY DEF PC, ReadPC
  <2> QED
    BY <1>1, <2>1 DEF Raise, TypeOK, Goto, world, applied
<1>2. CASE ~Protected
  BY <1>2, FinishType DEF Raise
<1> QED
  BY <1>1, <1>2

\* Terraform's steps keep TypeOK.
LEMMA ApplyStepType ==
  ASSUME TypeOK, ApplyStep
  PROVE  TypeOK'
<1>1. CASE WriteMetadata
  BY <1>1 DEF WriteMetadata, TypeOK, applied, control
<1>2. CASE RemoveMetadata
  BY <1>2, RecordTypes DEF RemoveMetadata, TypeOK, applied, control
<1>3. CASE DropDatabase
  BY <1>3 DEF DropDatabase, TypeOK, control
<1>4. CASE ProvisionDatabase
  BY <1>4 DEF ProvisionDatabase, TypeOK, control
<1>5. CASE VerifyAccounts
  BY <1>5 DEF VerifyAccounts, TypeOK, world, control
<1>6. CASE ChangeLock
  BY <1>6 DEF ChangeLock, TypeOK, control
<1>7. ASSUME NEW a \in Account, WriteCredential(a)
      PROVE  TypeOK'
  <2>1. [version |-> want.version, password |-> applies] \in Sink
    BY DEF TypeOK, Metadata, Sink
  <2> QED
    BY <1>7, <2>1 DEF WriteCredential, TypeOK, applied, control
<1>8. ASSUME NEW a \in Account, WriteSecret(a)
      PROVE  TypeOK'
  <2>1. [version |-> want.version, password |-> applies] \in Sink
    BY DEF TypeOK, Metadata, Sink
  <2> QED
    BY <1>8, <2>1 DEF WriteSecret, TypeOK, applied, control
<1>9. ASSUME NEW a \in Account, CreateUser(a) \/ RemoveUser(a)
      PROVE  TypeOK'
  <2>1. user' \in [Account -> BOOLEAN]
    BY <1>9 DEF CreateUser, RemoveUser, TypeOK
  <2> QED
    BY <1>9, <2>1 DEF CreateUser, RemoveUser, TypeOK, applied, control
<1>10. ASSUME NEW a \in Account, RemoveCredential(a) \/ RemoveSecret(a)
       PROVE  TypeOK'
  BY <1>10, RecordTypes DEF RemoveCredential, RemoveSecret, TypeOK, applied, control
<1> QED
  BY <1>1, <1>2, <1>3, <1>4, <1>5, <1>6, <1>7, <1>8, <1>9, <1>10 DEF ApplyStep

\* The first apply of a change keeps TypeOK.
LEMMA StartChangeType ==
  ASSUME TypeOK, StartChange
  PROVE  TypeOK'
<1>1. "changing" \in PC /\ inv \in Metadata
  BY DEF PC, ApplyPC, TypeOK
<1>2. FirstOperation \in {"none", "create_database", "delete_database"}
  BY DEF FirstOperation
<1> QED
  BY <1>1, <1>2, PlannedType, StartApplyType DEF StartChange

\* Refusing, skipping or starting a command keeps TypeOK.
LEMMA DecideType ==
  ASSUME TypeOK, Decide
  PROVE  TypeOK'
<1>1. inv \in Metadata /\ faults \in Nat /\ {"applying", "acquiring"} \subseteq PC
  BY DEF TypeOK, PC, ApplyPC
<1>2. CASE Finish("failed") /\ UNCHANGED faults
  BY <1>1, <1>2, FinishType
<1>3. CASE Finish("succeeded") /\ UNCHANGED faults
  BY <1>1, <1>3, FinishType
<1>4. CASE StartApply("applying", inv, inv, "none")
  BY <1>1, <1>4, StartApplyType
<1>5. CASE StartApply("acquiring", inv, inv, "acquire")
  BY <1>1, <1>5, StartApplyType
<1>6. CASE StartChange
  BY <1>6, StartChangeType
<1> QED
  BY <1>2, <1>3, <1>4, <1>5, <1>6 DEF Decide

\* What follows the first apply of a change keeps TypeOK.
LEMMA AfterChangeType ==
  ASSUME TypeOK, AfterChange
  PROVE  TypeOK'
<1>1. {"recording", "reload"} \subseteq PC
  BY DEF PC, ApplyPC, ReadPC
<1>2. CASE StartApply("recording", NewDatabase, NewDatabase, "none")
  BY <1>1, <1>2, RecordTypes, StartApplyType
<1>3. CASE StartApply("recording", NoDatabase, NoDatabase, "none")
  BY <1>1, <1>3, RecordTypes, StartApplyType
<1>4. CASE Local("reload")
  BY <1>1, <1>4, LocalType
<1> QED
  BY <1>2, <1>3, <1>4 DEF AfterChange

\* What follows an apply keeps TypeOK.
LEMMA ApplySucceedsType ==
  ASSUME TypeOK, ApplySucceeds
  PROVE  TypeOK'
<1>1. /\ {"reload", "waiting", "finally", "settling"} \subseteq PC
      /\ faults \in Nat
  BY DEF PC, ReadPC, TypeOK
<1>2. CASE StartChange \/ AfterChange
  BY <1>2, StartChangeType, AfterChangeType
<1>3. CASE \/ Local("reload") \/ Local("waiting") \/ Local("finally")
           \/ Local("settling")
  BY <1>1, <1>3, LocalType
<1>4. CASE (Finish("failed") \/ Finish("succeeded")) /\ UNCHANGED faults
  BY <1>1, <1>4, FinishType
<1> QED
  BY <1>2, <1>3, <1>4 DEF ApplySucceeds, Succeed

\* The other steps of the command keep TypeOK.
LEMMA ControllerType ==
  ASSUME TypeOK, Controller
  PROVE  TypeOK'
<1>1. /\ metadata \in Metadata /\ inv \in Metadata /\ faults \in Nat
      /\ PC = {"idle"} \cup ApplyPC \cup ProtectedPC \cup ReadPC
  BY DEF TypeOK, PC
<1>2. CASE LoadInventory
  BY <1>1, <1>2, ReloadType DEF LoadInventory, ReadPC
<1>3. CASE Retry
  BY <1>1, <1>3, PlannedType, StartApplyType DEF Retry, ApplyPC
<1>4. CASE ReloadInventory
  BY <1>1, <1>4, ReloadType DEF ReloadInventory, ReadPC
<1>5. CASE VerifyDatabase
  BY <1>1, <1>5, StartApplyType DEF VerifyDatabase, ApplyPC
<1>6. CASE ReleaseLock
  BY <1>1, <1>6, StartApplyType DEF ReleaseLock, ApplyPC
<1>7. CASE Settle
  BY <1>1, <1>7, FinishType DEF Settle, Succeed
<1> QED
  BY <1>2, <1>3, <1>4, <1>5, <1>6, <1>7, DecideType, ApplyStepType,
     ApplySucceedsType DEF Controller

\* A failed apply keeps TypeOK.
LEMMA ApplyFailsType ==
  ASSUME TypeOK, ApplyFails
  PROVE  TypeOK'
<1>1. faults' \in Nat
  BY FaultType DEF ApplyFails
<1>2. CASE Raise
  BY <1>1, <1>2, RaiseType
<1>3. CASE /\ Goto("retry")
           /\ attempt' = 1
           /\ UNCHANGED <<world, aged, applied, cmd, failing, outcome, commands>>
  <2>1. "retry" \in PC
    BY DEF PC, ReadPC
  <2> QED
    BY <1>1, <1>3, <2>1 DEF TypeOK, Goto, world, applied
<1> QED
  BY <1>2, <1>3 DEF ApplyFails

\* Submitting a command keeps TypeOK.
LEMMA SubmitType ==
  ASSUME TypeOK, Submit
  PROVE  TypeOK'
<1>1. cmd' \in Command
  BY DEF Submit, TypeOK, Command
<1> QED
  BY <1>1 DEF Submit, TypeOK, Goto, world, applied, PC, ReadPC

\* TypeOK is inductive.
LEMMA NextType ==
  ASSUME TypeOK, [Next]_vars
  PROVE  TypeOK'
<1>1. CASE ReadFails \/ Crash
  BY <1>1, RaiseType, FinishType, FaultType DEF ReadFails, Crash
<1>2. CASE Operator
  <2>1. PICK a \in Account : SyncLogin(a)
    BY <1>2 DEF Operator
  <2>2. (IF user[a] THEN secret[a].password ELSE 0) \in Nat
    BY <2>1 DEF TypeOK, Sink
  <2> QED
    BY <2>1, <2>2 DEF SyncLogin, TypeOK, applied, control
<1>3. CASE Age
  BY <1>3 DEF Age, TypeOK, world, applied, control
<1>4. CASE UNCHANGED vars
  BY <1>4 DEF vars, TypeOK, world, applied, control
<1> QED
  BY <1>1, <1>2, <1>3, <1>4, SubmitType, ControllerType, ApplyFailsType DEF Next

\* Every reachable state has the types of TypeOK.
THEOREM TypeCorrect == Spec => []TypeOK
BY InitType, NextType, PTL DEF Spec

-----------------------------------------------------------------------------
(* The inductive invariant: Terraform's steps.                              *)

\* The parts of CredentialInv that are not types.
Inv == MetadataLeads /\ PlaceInv /\ PlanInv /\ FreshInv /\ AgreeInv

\* The invariant holds where no command has run.
LEMMA InitInv == Init => Inv
BY DEF Init, Inv, MetadataLeads, PlaceInv, PlanInv, FreshInv, AgreeInv, NoSink,
       NoDatabase, Changes

\* What the invariant says of an apply that has something to write: the record
\* it is planned for is not behind the one in Vault.
LEMMA WantLeads ==
  ASSUME TypeOK, Inv, pc \in ApplyPC, Recorded(want)
  PROVE  metadata.version <= want.version
<1>1. /\ metadata.version \in Nat /\ want.version \in Nat /\ inv.version \in Nat
  BY DEF TypeOK, Metadata
<1>2. CASE want = metadata
  BY <1>1, <1>2
<1>3. CASE pc = "changing" /\ inv = metadata
  BY <1>1, <1>3 DEF Inv, PlanInv
<1>4. CASE pc = "recording"
  BY <1>1, <1>4 DEF Inv, PlanInv, NewDatabase, NoDatabase, Recorded
<1> QED
  BY <1>2, <1>3, <1>4 DEF Inv, PlanInv, ApplyPC

\* Only the apply of a change writes the metadata, and never backwards.
LEMMA WriteMetadataInv ==
  ASSUME TypeOK, Inv, WriteMetadata
  PROVE  Inv'
<1>1. /\ metadata' = want /\ Recorded(want) /\ want # metadata
      /\ UNCHANGED <<credential, secret, applied, control>>
      /\ pc \in {"changing", "recording"}
  BY DEF WriteMetadata, Applying, Inv, PlanInv, ApplyPC
<1>2. MetadataLeads'
  <2> SUFFICES ASSUME NEW a \in Account
               PROVE  credential[a].version <= want.version
                      /\ secret[a].version <= want.version
    BY <1>1 DEF MetadataLeads
  <2>1. /\ credential[a].version <= metadata.version
        /\ secret[a].version <= metadata.version
        /\ metadata.version <= want.version
    BY <1>1, WantLeads DEF Inv, MetadataLeads, ApplyPC
  <2>2. /\ credential[a].version \in Nat /\ secret[a].version \in Nat
        /\ metadata.version \in Nat /\ want.version \in Nat
    BY DEF TypeOK, Metadata, Sink
  <2> QED
    BY <2>1, <2>2
<1>3. PlaceInv'
  BY <1>1 DEF Inv, PlaceInv, applied, control, Changes, Recorded
<1>4. PlanInv'
  <2>1. pc = "recording" => want = NewDatabase /\ cmd.kind = "AddDatabase"
    BY <1>1 DEF Inv, PlanInv, Recorded, NoDatabase
  <2> QED
    BY <1>1, <2>1 DEF Inv, PlanInv, applied, control, Recorded, NewDatabase
<1>5. FreshInv'
  BY <1>1 DEF Inv, FreshInv, applied, control
<1>6. AgreeInv'
  BY <1>1, PlaceInv DEF Inv, PlaceInv, AgreeInv, applied, control
<1> QED
  BY <1>2, <1>3, <1>4, <1>5, <1>6 DEF Inv

\* Only the second apply of DeleteDatabase removes it.
LEMMA RemoveMetadataInv ==
  ASSUME TypeOK, Inv, RemoveMetadata
  PROVE  Inv'
<1>1. /\ metadata' = NoDatabase /\ ~Recorded(want) /\ metadata # NoDatabase
      /\ \A a \in Account : credential[a] = NoSink /\ secret[a] = NoSink
      /\ UNCHANGED <<credential, secret, applied, control>>
      /\ pc \in ApplyPC
  BY DEF RemoveMetadata, Applying
<1>2. want = NoDatabase /\ want # metadata
  BY <1>1 DEF Inv, PlanInv
<1>3. pc \in {"changing", "recording"}
  BY <1>1, <1>2 DEF Inv, PlanInv, ApplyPC
<1>4. pc # "changing"
  <2> SUFFICES ASSUME pc = "changing"
               PROVE  FALSE
    OBVIOUS
  <2>1. inv = metadata /\ (inv.version = 0 \/ inv.version + 1 = 0)
    BY <1>2 DEF Inv, PlanInv, NoDatabase
  <2>2. inv.version \in Nat
    BY DEF TypeOK, Metadata
  <2>3. inv = NoDatabase
    BY <2>1, <2>2 DEF Inv, PlanInv, Recorded
  <2> QED
    BY <1>1, <2>1, <2>3
<1>5. pc = "recording"
  BY <1>3, <1>4
<1>6. cmd.kind # "AddDatabase" /\ inv = NoDatabase
  BY <1>2, <1>5 DEF Inv, PlanInv, NewDatabase, NoDatabase
<1>7. MetadataLeads'
  BY <1>1 DEF MetadataLeads, NoSink, NoDatabase
<1>8. PlaceInv'
  BY <1>1 DEF Inv, PlaceInv, applied, control, Changes, Recorded
<1>9. PlanInv'
  BY <1>1, <1>2, <1>5, <1>6 DEF Inv, PlanInv, applied, control, Recorded
<1>10. FreshInv'
  BY <1>1 DEF Inv, FreshInv, applied, control
<1>11. AgreeInv'
  BY <1>1, <1>5 DEF Inv, PlaceInv, AgreeInv, applied, control
<1> QED
  BY <1>7, <1>8, <1>9, <1>10, <1>11 DEF Inv

\* A credential is written at the recorded version, with this apply's password.
LEMMA WriteCredentialInv ==
  ASSUME TypeOK, Inv, NEW a \in Account, WriteCredential(a)
  PROVE  Inv'
<1>1. /\ metadata = want /\ Recorded(want) /\ credential[a].version # want.version
      /\ credential' = [credential EXCEPT ![a] =
                          [version |-> want.version, password |-> applies]]
      /\ UNCHANGED <<metadata, secret, applied, control>>
      /\ pc \in ApplyPC
  BY DEF WriteCredential, Applying
<1>2. metadata.version \in Nat /\ credential \in [Account -> Sink]
  BY DEF TypeOK, Metadata
<1>3. MetadataLeads'
  BY <1>1, <1>2 DEF Inv, MetadataLeads
<1>4. PlaceInv' /\ PlanInv'
  BY <1>1 DEF Inv, PlaceInv, PlanInv, applied, control, Changes, Recorded
<1>5. FreshInv'
  BY <1>1, <1>2 DEF Inv, FreshInv, applied, control
<1>6. AgreeInv'
  BY <1>1, <1>2 DEF Inv, PlaceInv, AgreeInv, applied, control
<1> QED
  BY <1>3, <1>4, <1>5, <1>6 DEF Inv

\* A password Secret, likewise.
LEMMA WriteSecretInv ==
  ASSUME TypeOK, Inv, NEW a \in Account, WriteSecret(a)
  PROVE  Inv'
<1>1. /\ metadata = want /\ Recorded(want) /\ secret[a].version # want.version
      /\ secret' = [secret EXCEPT ![a] =
                      [version |-> want.version, password |-> applies]]
      /\ UNCHANGED <<metadata, credential, applied, control>>
      /\ pc \in ApplyPC
  BY DEF WriteSecret, Applying
<1>2. metadata.version \in Nat /\ secret \in [Account -> Sink]
  BY DEF TypeOK, Metadata
<1>3. MetadataLeads'
  BY <1>1, <1>2 DEF Inv, MetadataLeads
<1>4. PlaceInv' /\ PlanInv'
  BY <1>1 DEF Inv, PlaceInv, PlanInv, applied, control, Changes, Recorded
<1>5. FreshInv'
  BY <1>1, <1>2 DEF Inv, FreshInv, applied, control
<1>6. AgreeInv'
  BY <1>1, <1>2 DEF Inv, PlaceInv, AgreeInv, Agree, applied, control
<1> QED
  BY <1>3, <1>4, <1>5, <1>6 DEF Inv

\* Nothing is removed while a password is written or has been reported.
LEMMA RemoveSinkInv ==
  ASSUME TypeOK, Inv, NEW a \in Account, RemoveCredential(a) \/ RemoveSecret(a)
  PROVE  Inv'
<1>1. /\ ~Recorded(want)
      /\ \/ credential' = [credential EXCEPT ![a] = NoSink] /\ secret' = secret
         \/ secret' = [secret EXCEPT ![a] = NoSink] /\ credential' = credential
      /\ UNCHANGED <<metadata, applied, control>>
      /\ pc \in ApplyPC
  BY DEF RemoveCredential, RemoveSecret, Applying
<1>2. /\ metadata.version \in Nat /\ inv.version \in Nat /\ want.version \in Nat
      /\ credential \in [Account -> Sink] /\ secret \in [Account -> Sink]
  BY DEF TypeOK, Metadata
<1>3. MetadataLeads'
  BY <1>1, <1>2 DEF Inv, MetadataLeads, NoSink
<1>4. PlaceInv' /\ PlanInv'
  BY <1>1 DEF Inv, PlaceInv, PlanInv, applied, control, Changes, Recorded
<1>5. /\ ~(pc = "changing" /\ cmd.kind = "RotatePasswords")
      /\ ~(pc = "recording" /\ cmd.kind = "AddDatabase")
  BY <1>1, <1>2 DEF Inv, PlanInv, Recorded, NewDatabase
<1>6. FreshInv'
  BY <1>1, <1>5 DEF FreshInv, applied, control
<1>7. AgreeInv'
  BY <1>1 DEF Inv, PlanInv, AgreeInv, ApplyPC, applied, control
<1> QED
  BY <1>3, <1>4, <1>6, <1>7 DEF Inv

\* Every step of Terraform keeps the invariant.
LEMMA ApplyStepInv ==
  ASSUME TypeOK, Inv, ApplyStep
  PROVE  Inv'
<1>1. ASSUME UNCHANGED <<metadata, credential, secret, inv, want, applies, control>>
      PROVE  Inv'
  BY <1>1 DEF Inv, MetadataLeads, PlaceInv, PlanInv, FreshInv, AgreeInv, Agree,
              Changes, Recorded, control
<1>2. CASE DropDatabase \/ ProvisionDatabase \/ VerifyAccounts \/ ChangeLock
  BY <1>1, <1>2 DEF DropDatabase, ProvisionDatabase, VerifyAccounts, ChangeLock,
                    world
<1>3. ASSUME NEW a \in Account, CreateUser(a) \/ RemoveUser(a)
      PROVE  Inv'
  BY <1>1, <1>3 DEF CreateUser, RemoveUser, applied
<1> QED
  BY <1>2, <1>3, WriteMetadataInv, RemoveMetadataInv, WriteCredentialInv,
     WriteSecretInv, RemoveSinkInv DEF ApplyStep

-----------------------------------------------------------------------------
(* The inductive invariant: the command's steps.                            *)

\* A command that ends, begins, or enters its finally block because it failed
\* promises nothing yet.
LEMMA RestInv ==
  ASSUME Inv, UNCHANGED <<metadata, credential, secret>>,
         \/ pc' \in {"idle", "load"} /\ ~failing'
         \/ pc' = "finally" /\ failing',
         {inv', want'} \subseteq {inv, want, NoDatabase}
  PROVE  Inv'
<1>1. MetadataLeads' /\ PlaceInv' /\ FreshInv' /\ AgreeInv'
  BY DEF Inv, MetadataLeads, PlaceInv, FreshInv, AgreeInv
<1>2. PlanInv'
  BY DEF Inv, PlanInv, Recorded
<1> QED
  BY <1>1, <1>2 DEF Inv

\* A command that ends keeps the invariant.
LEMMA FinishInv ==
  ASSUME Inv, NEW r, Finish(r)
  PROVE  Inv'
BY RestInv DEF Finish, Goto, world

\* So does one that fails, wherever it is.
LEMMA RaiseInv ==
  ASSUME Inv, Raise
  PROVE  Inv'
<1>1. CASE Protected
  BY <1>1, RestInv DEF Raise, Goto, world, applied
<1>2. CASE ~Protected
  BY <1>2, FinishInv DEF Raise
<1> QED
  BY <1>1, <1>2

\* The version Terraform plans, and that it never plans half a record.
LEMMA PlannedVersion ==
  ASSUME NEW i \in Metadata, Recorded(i) \/ i = NoDatabase,
         (cmd.kind = "AddDatabase") = ~Recorded(i)
  PROVE  /\ Planned(i).version = IF cmd.kind = "RotatePasswords" THEN i.version + 1
                                                                ELSE i.version
         /\ Recorded(Planned(i)) \/ Planned(i) = NoDatabase
BY DEF Planned, Recorded, Metadata

\* An attempt that starts from what Vault records plans a version none of the
\* passwords has yet.
LEMMA StartFromVaultInv ==
  ASSUME TypeOK, Inv, ~failing, NEW o,
         (cmd.kind = "AddDatabase") = ~Recorded(metadata),
         StartApply("changing", metadata, Planned(metadata), o)
  PROVE  Inv'
<1> DEFINE w == Planned(metadata)
<1>1. /\ pc' = "changing" /\ inv' = metadata /\ want' = w
      /\ UNCHANGED <<metadata, credential, secret, cmd, failing>>
  BY DEF StartApply, Goto, world
<1>2. /\ metadata \in Metadata /\ (Recorded(metadata) \/ metadata = NoDatabase)
  BY DEF TypeOK, Inv, PlanInv
<1>3. /\ w.version = IF cmd.kind = "RotatePasswords" THEN metadata.version + 1
                                                     ELSE metadata.version
      /\ Recorded(w) \/ w = NoDatabase
  BY <1>2, PlannedVersion
<1> HIDE DEF w
<1>4. MetadataLeads'
  BY <1>1 DEF Inv, MetadataLeads
<1>5. PlaceInv'
  BY <1>1 DEF PlaceInv, Recorded
<1>6. PlanInv'
  BY <1>1, <1>2, <1>3 DEF PlanInv, Recorded
<1>7. FreshInv'
  <2> SUFFICES ASSUME cmd.kind = "RotatePasswords", NEW a \in Account
               PROVE  credential[a].version # w.version /\ secret[a].version # w.version
    BY <1>1 DEF FreshInv
  <2>1. /\ credential[a].version <= metadata.version
        /\ secret[a].version <= metadata.version
    BY DEF Inv, MetadataLeads
  <2>2. /\ credential[a].version \in Nat /\ secret[a].version \in Nat
        /\ metadata.version \in Nat
    BY DEF TypeOK, Metadata, Sink
  <2> QED
    BY <1>3, <2>1, <2>2
<1>8. AgreeInv'
  BY <1>1 DEF AgreeInv
<1> QED
  BY <1>4, <1>5, <1>6, <1>7, <1>8 DEF Inv

\* The first apply of a change, right away or under the deployment lock.
LEMMA StartChangeInv ==
  ASSUME TypeOK, Inv, StartChange,
         \/ pc = "acquiring"
         \/ pc = "decide" /\ ~Refused /\ Changes
  PROVE  Inv'
<1>1. inv = metadata /\ ~failing
  BY DEF Inv, PlanInv, PlaceInv
<1>2. (cmd.kind = "AddDatabase") = ~Recorded(metadata)
  BY <1>1 DEF Inv, PlaceInv, Refused, Recorded
<1> QED
  BY <1>1, <1>2, StartFromVaultInv DEF StartChange

\* An apply that plans nothing new holds and wants what Vault records.
LEMMA SteadyApplyInv ==
  ASSUME TypeOK, Inv, NEW p, NEW o, StartApply(p, metadata, metadata, o),
         \/ p = "applying" /\ ~Changes /\ ~failing
         \/ p = "acquiring" /\ (cmd.kind = "AddDatabase") = ~Recorded(metadata)
              /\ ~failing
         \/ p = "verifying" /\ pc = "waiting"
         \/ p = "releasing" /\ pc = "finally"
  PROVE  Inv'
<1>1. /\ pc' = p /\ inv' = metadata /\ want' = metadata
      /\ UNCHANGED <<metadata, credential, secret, cmd, failing>>
  BY DEF StartApply, Goto, world
<1>2. MetadataLeads' /\ FreshInv'
  BY <1>1 DEF Inv, MetadataLeads, FreshInv
<1>3. PlaceInv'
  BY <1>1 DEF Inv, PlaceInv, Changes, Recorded
<1>4. PlanInv'
  BY <1>1 DEF Inv, PlanInv, Recorded
<1>5. AgreeInv'
  BY <1>1 DEF Inv, AgreeInv, Agree, Recorded
<1> QED
  BY <1>2, <1>3, <1>4, <1>5 DEF Inv

\* What has been loaded is what Vault records.
LEMMA ReloadInv ==
  ASSUME Inv, NEW p, Reload(p),
         \/ pc = "load" /\ p = "decide"
         \/ pc = "reload" /\ p = "waiting"
  PROVE  Inv'
<1>1. /\ pc' = p /\ inv' = metadata
      /\ UNCHANGED <<metadata, credential, secret, want, cmd, failing>>
  BY DEF Reload, Goto, world
<1>2. MetadataLeads' /\ PlaceInv' /\ FreshInv'
  BY <1>1 DEF Inv, MetadataLeads, PlaceInv, FreshInv
<1>3. PlanInv'
  BY <1>1 DEF Inv, PlanInv, Recorded
<1>4. AgreeInv'
  BY <1>1 DEF Inv, AgreeInv, Agree, Recorded
<1> QED
  BY <1>2, <1>3, <1>4 DEF Inv

\* Deciding what the command does.
LEMMA DecideInv ==
  ASSUME TypeOK, Inv, Decide
  PROVE  Inv'
<1>1. pc = "decide" /\ inv = metadata /\ ~failing
  BY DEF Decide, Inv, PlanInv, PlaceInv
<1>2. CASE Finish("failed") \/ Finish("succeeded")
  BY <1>2, FinishInv
<1>3. CASE ~Changes /\ StartApply("applying", inv, inv, "none")
  BY <1>1, <1>3, SteadyApplyInv
<1>4. CASE ~Refused /\ Changes /\ StartApply("acquiring", inv, inv, "acquire")
  <2>1. (cmd.kind = "AddDatabase") = ~Recorded(metadata)
    BY <1>1, <1>4 DEF Refused, Recorded
  <2> QED
    BY <1>1, <1>4, <2>1, SteadyApplyInv
<1>5. CASE ~Refused /\ Changes /\ StartChange
  BY <1>1, <1>5, StartChangeInv
<1> QED
  BY <1>2, <1>3, <1>4, <1>5 DEF Decide

\* Terraform has converged on a plan with new passwords: both sinks hold the
\* password of this one apply.
LEMMA ConvergedAgree ==
  ASSUME TypeOK, Inv, Converged, Recorded(want),
         \/ pc = "changing" /\ cmd.kind = "RotatePasswords"
         \/ pc = "recording" /\ cmd.kind = "AddDatabase"
  PROVE  /\ Recorded(metadata)
         /\ \A a \in Account : Agree(a) /\ credential[a].version = metadata.version
<1>1. metadata = want
  BY DEF Converged
<1> SUFFICES ASSUME NEW a \in Account
             PROVE  Agree(a) /\ credential[a].version = metadata.version
  BY <1>1
<1>2. /\ credential[a].version = want.version /\ secret[a].version = want.version
  BY DEF Converged
<1>3. credential[a].password = applies /\ secret[a].password = applies
  BY <1>2 DEF Inv, FreshInv
<1>4. credential[a] \in Sink /\ secret[a] \in Sink
  BY DEF TypeOK
<1> QED
  BY <1>1, <1>2, <1>3, <1>4 DEF Agree, Sink

\* The change has been applied.
LEMMA AfterChangeInv ==
  ASSUME TypeOK, Inv, pc = "changing", Converged, AfterChange
  PROVE  Inv'
<1>1. /\ metadata = want /\ ~failing
      /\ want.version = IF cmd.kind = "RotatePasswords" THEN inv.version + 1
                                                        ELSE inv.version
      /\ (cmd.kind = "AddDatabase") = ~Recorded(inv)
      /\ inv.version \in Nat
  BY DEF Converged, Inv, PlaceInv, PlanInv, TypeOK, Metadata
<1>2. CASE cmd.kind = "AddDatabase"
  <2>1. /\ pc' = "recording" /\ inv' = NewDatabase /\ want' = NewDatabase
        /\ UNCHANGED <<metadata, credential, secret, cmd, failing>>
    BY <1>2 DEF AfterChange, StartApply, Goto, world
  <2>2. metadata.version = 0
    BY <1>1, <1>2 DEF Recorded
  <2>3. \A a \in Account : credential[a].version = 0 /\ secret[a].version = 0
    BY <1>1, <2>2 DEF Converged
  <2>4. MetadataLeads' /\ PlaceInv'
    BY <1>1, <1>2, <2>1 DEF Inv, MetadataLeads, PlaceInv, Changes
  <2>5. PlanInv'
    BY <1>2, <2>1, <2>2 DEF Inv, PlanInv, Recorded, NewDatabase
  <2>6. FreshInv' /\ AgreeInv'
    BY <2>1, <2>3 DEF FreshInv, AgreeInv, NewDatabase
  <2> QED
    BY <2>4, <2>5, <2>6 DEF Inv
<1>3. CASE cmd.kind = "DeleteDatabase"
  <2>1. /\ pc' = "recording" /\ inv' = NoDatabase /\ want' = NoDatabase
        /\ UNCHANGED <<metadata, credential, secret, cmd, failing>>
    BY <1>3 DEF AfterChange, StartApply, Goto, world
  <2>2. MetadataLeads' /\ PlaceInv' /\ FreshInv' /\ AgreeInv'
    BY <1>1, <1>3, <2>1 DEF Inv, MetadataLeads, PlaceInv, FreshInv, AgreeInv, Changes
  <2>3. PlanInv'
    BY <1>3, <2>1 DEF Inv, PlanInv, Recorded
  <2> QED
    BY <2>2, <2>3 DEF Inv
<1>4. CASE cmd.kind \notin {"AddDatabase", "DeleteDatabase"}
  <2>1. /\ pc' = "reload"
        /\ UNCHANGED <<metadata, credential, secret, inv, want, cmd, failing>>
    BY <1>4 DEF AfterChange, Local, Goto, world, applied
  <2>2. MetadataLeads' /\ PlaceInv' /\ FreshInv' /\ PlanInv'
    BY <1>1, <2>1 DEF Inv, MetadataLeads, PlaceInv, FreshInv, PlanInv, Recorded
  <2>3. CASE cmd.kind = "RotatePasswords"
    <3>1. Recorded(want)
      BY <1>1, <2>3 DEF Recorded
    <3>2. AgreeInv'
      BY <2>1, <2>3, <3>1, ConvergedAgree DEF AgreeInv, Agree, Recorded
    <3> QED
      BY <2>2, <3>2 DEF Inv
  <2>4. CASE cmd.kind # "RotatePasswords"
    BY <1>4, <2>1, <2>2, <2>4 DEF Inv, AgreeInv
  <2> QED
    BY <2>3, <2>4
<1> QED
  BY <1>2, <1>3, <1>4

\* The second apply of AddDatabase or DeleteDatabase has succeeded.
LEMMA AfterRecordingInv ==
  ASSUME TypeOK, Inv, pc = "recording", Converged,
         Local(IF Recorded(inv) THEN "reload" ELSE "waiting")
  PROVE  Inv'
<1>1. /\ metadata = want /\ want = inv /\ ~failing
      /\ cmd.kind \in {"AddDatabase", "DeleteDatabase"}
      /\ (cmd.kind = "AddDatabase") = Recorded(inv)
  BY DEF Converged, Inv, PlaceInv, PlanInv, Recorded, NewDatabase, NoDatabase
<1>2. /\ pc' = IF Recorded(inv) THEN "reload" ELSE "waiting"
      /\ UNCHANGED <<metadata, credential, secret, inv, want, cmd, failing>>
  BY DEF Local, Goto, world, applied
<1>3. MetadataLeads' /\ PlaceInv' /\ FreshInv' /\ PlanInv'
  BY <1>1, <1>2 DEF Inv, MetadataLeads, PlaceInv, FreshInv, PlanInv, Recorded
<1>4. CASE cmd.kind = "AddDatabase"
  <2>1. AgreeInv'
    BY <1>1, <1>2, <1>4, ConvergedAgree DEF AgreeInv, Agree, Recorded
  <2> QED
    BY <1>3, <2>1 DEF Inv
<1>5. CASE cmd.kind # "AddDatabase"
  BY <1>1, <1>2, <1>3, <1>5 DEF Inv, AgreeInv
<1> QED
  BY <1>4, <1>5

\* Terraform exits 0.
LEMMA ApplySucceedsInv ==
  ASSUME TypeOK, Inv, ApplySucceeds
  PROVE  Inv'
<1>1. pc \in ApplyPC /\ Converged
  BY DEF ApplySucceeds, Applying
<1>2. CASE pc = "acquiring"
  BY <1>2, StartChangeInv DEF ApplySucceeds
<1>3. CASE pc = "changing"
  BY <1>1, <1>3, AfterChangeInv DEF ApplySucceeds
<1>4. CASE pc = "recording"
  BY <1>1, <1>4, AfterRecordingInv DEF ApplySucceeds
<1>5. CASE pc = "verifying"
  <2>1. CASE Local("finally")
    <3>1. /\ pc' = "finally" /\ ~failing
          /\ UNCHANGED <<metadata, credential, secret, inv, want, cmd, failing>>
      BY <1>5, <2>1 DEF Local, Goto, world, applied, Inv, PlaceInv
    <3>2. MetadataLeads' /\ PlaceInv' /\ FreshInv' /\ PlanInv'
      BY <3>1 DEF Inv, MetadataLeads, PlaceInv, FreshInv, PlanInv, Recorded
    <3>3. AgreeInv'
      BY <1>5, <3>1 DEF Inv, AgreeInv, Agree, Recorded
    <3> QED
      BY <3>2, <3>3 DEF Inv
  <2>2. CASE Succeed
    BY <2>2, FinishInv DEF Succeed
  <2> QED
    BY <1>5, <2>1, <2>2 DEF ApplySucceeds
<1>6. CASE pc = "releasing"
  BY <1>6, FinishInv DEF ApplySucceeds
<1>7. CASE pc = "applying"
  <2>1. /\ pc' = "settling"
        /\ UNCHANGED <<metadata, credential, secret, inv, want, cmd, failing>>
    BY <1>7 DEF ApplySucceeds, Local, Goto, world, applied
  <2> QED
    BY <1>7, <2>1 DEF Inv, MetadataLeads, PlaceInv, FreshInv, PlanInv, AgreeInv,
                      Recorded, Changes
<1> QED
  BY <1>1, <1>2, <1>3, <1>4, <1>5, <1>6, <1>7 DEF ApplyPC

\* Every step of the command, and of Terraform under it, keeps the invariant.
LEMMA ControllerInv ==
  ASSUME TypeOK, Inv, Controller
  PROVE  Inv'
<1>1. CASE LoadInventory
  BY <1>1, ReloadInv DEF LoadInventory
<1>2. CASE Retry
  <2>1. ~failing /\ (cmd.kind = "AddDatabase") = ~Recorded(metadata)
    BY <1>2 DEF Retry, Inv, PlaceInv
  <2> QED
    BY <1>2, <2>1, StartFromVaultInv DEF Retry
<1>3. CASE ReloadInventory
  BY <1>3, ReloadInv DEF ReloadInventory
<1>4. CASE VerifyDatabase
  <2>1. pc = "waiting" /\ inv = metadata
    BY <1>4 DEF VerifyDatabase, Inv, PlanInv
  <2> QED
    BY <1>4, <2>1, SteadyApplyInv DEF VerifyDatabase
<1>5. CASE ReleaseLock
  BY <1>5, SteadyApplyInv DEF ReleaseLock
<1>6. CASE Settle
  BY <1>6, FinishInv DEF Settle, Succeed
<1> QED
  BY <1>1, <1>2, <1>3, <1>4, <1>5, <1>6, DecideInv, ApplyStepInv,
     ApplySucceedsInv DEF Controller

\* A failed apply is retried, or fails the command.
LEMMA ApplyFailsInv ==
  ASSUME Inv, ApplyFails
  PROVE  Inv'
<1>1. CASE Raise
  BY <1>1, RaiseInv
<1>2. CASE /\ pc = "changing" /\ cmd.kind = "RotatePasswords"
           /\ Goto("retry")
           /\ UNCHANGED <<world, aged, applied, cmd, failing, outcome, commands>>
  BY <1>2 DEF Inv, MetadataLeads, PlaceInv, FreshInv, PlanInv, AgreeInv, Recorded,
              Goto, world, applied
<1> QED
  BY <1>1, <1>2 DEF ApplyFails

\* The invariant is inductive.
LEMMA NextInv ==
  ASSUME TypeOK, Inv, [Next]_vars
  PROVE  Inv'
<1>1. CASE Submit
  <2>1. ~failing
    BY <1>1 DEF Submit, Inv, PlaceInv
  <2> QED
    BY <1>1, <2>1, RestInv DEF Submit, Goto, world, applied
<1>2. CASE ReadFails \/ Crash
  BY <1>2, RaiseInv, FinishInv DEF ReadFails, Crash
<1>3. CASE Operator \/ Age \/ UNCHANGED vars
  <2>1. UNCHANGED <<metadata, credential, secret, inv, want, applies, control>>
    BY <1>3 DEF Operator, SyncLogin, Age, vars, world, applied
  <2> QED
    BY <2>1 DEF Inv, MetadataLeads, PlaceInv, PlanInv, FreshInv, AgreeInv, Agree,
                Changes, Recorded, control
<1> QED
  BY <1>1, <1>2, <1>3, ControllerInv, ApplyFailsInv DEF Next

\* The inductive invariant holds in every reachable state: what a command holds
\* of the inventory is what Vault records wherever it matters, and passwords of
\* the version being written are all of the apply that writes them.
THEOREM InvariantCorrect == Spec => []CredentialInv
<1>1. Init => TypeOK /\ Inv
  BY InitType, InitInv
<1>2. TypeOK /\ Inv /\ [Next]_vars => TypeOK' /\ Inv'
  BY NextType, NextInv
<1>3. TypeOK /\ Inv => CredentialInv
  BY DEF CredentialInv, Inv
<1> QED
  BY <1>1, <1>2, <1>3, PTL DEF Spec

\* No account's password, in Vault or in Kubernetes, is ever ahead of the version
\* the database's metadata records.
THEOREM MetadataCorrect == Spec => []MetadataLeads
BY InvariantCorrect, PTL DEF CredentialInv

-----------------------------------------------------------------------------
(* What success means.                                                      *)

\* AddDatabase and RotatePasswords report success from two places only, and in
\* both the two passwords of every account agree.
LEMMA SuccessAgrees ==
  ASSUME TypeOK, Inv, [Next]_vars, outcome = "none", outcome' = "succeeded",
         cmd.kind \in {"AddDatabase", "RotatePasswords"}
  PROVE  \A a \in Account : Agree(a) /\ credential[a].version = metadata.version
<1>1. pc \in {"verifying", "releasing"} /\ ~failing
  <2>1. Decide \/ ApplySucceeds \/ Settle
    BY DEF Next, vars, control, world, applied, Submit, Controller, LoadInventory,
           Retry, ReloadInventory, VerifyDatabase, ReleaseLock, ApplyStep,
           WriteMetadata, RemoveMetadata, DropDatabase, ProvisionDatabase,
           VerifyAccounts, ChangeLock, WriteCredential, WriteSecret, CreateUser,
           RemoveUser, RemoveCredential, RemoveSecret, ApplyFails, ReadFails,
           Raise, Crash, Operator, SyncLogin, Age, Reload, StartApply, Finish
  <2>2. ~Decide
    BY DEF Decide, AlreadyDone, Finish, StartApply, StartChange
  <2>3. ~Settle
    BY DEF Settle, Inv, PlaceInv, Changes
  <2>4. CASE ApplySucceeds
    BY <2>4 DEF ApplySucceeds, StartChange, AfterChange, StartApply, Local, Finish,
                Succeed, Inv, PlaceInv
  <2> QED
    BY <2>1, <2>2, <2>3, <2>4
<1> QED
  BY <1>1 DEF Inv, AgreeInv

\* When AddDatabase or RotatePasswords reports success, whatever applies failed or
\* were killed half-way before, Vault and Kubernetes hold the same password of
\* every account, at the version Vault records.
THEOREM SinksCorrect == Spec => SinksConverge
<1>1. TypeOK /\ Inv /\ [Next]_vars =>
        (Reports("AddDatabase") \/ Reports("RotatePasswords") =>
           \A a \in Account : Agree(a) /\ credential[a].version = metadata.version)
  BY SuccessAgrees DEF Reports
<1>2. Spec => [](TypeOK /\ Inv)
  <2>1. Init => TypeOK /\ Inv
    BY InitType, InitInv
  <2>2. TypeOK /\ Inv /\ [Next]_vars => TypeOK' /\ Inv'
    BY NextType, NextInv
  <2> QED
    BY <2>1, <2>2, PTL DEF Spec
<1> QED
  BY <1>1, <1>2, PTL DEF Spec, SinksConverge
=============================================================================
