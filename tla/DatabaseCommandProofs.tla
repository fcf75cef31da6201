---------------------- MODULE DatabaseCommandProofs ----------------------
(***************************************************************************)
(* Proofs of what the database commands report, for every set of accounts, *)
(* either type of deployment, every mix of commands and every bound: the   *)
(* inductive invariant CommandInv on top of CredentialInv, and from it the *)
(* Owner policy (OwnerAsReported, OwnerStaysOut), that a deletion leaves   *)
(* nothing (DeletedIsGone), that no record comes before its database       *)
(* (DatabaseFirst), and that all of it implements DatabaseService.         *)
(***************************************************************************)
EXTENDS DatabaseCredentialsProofs

-----------------------------------------------------------------------------
(* The inductive invariant.                                                 *)

\* The change is applied, and no exception is on its way: from here on the
\* command only looks, and gives the lock back.
Done == \/ pc \in {"reload", "waiting", "verifying"}
        \/ pc \in {"finally", "releasing"} /\ ~failing

\* MongoDB has been asked.
Asked == \/ pc = "verifying" /\ op = "none"
         \/ pc \in {"finally", "releasing"} /\ ~failing

\* The command is one that disables the Owner.
Disables == \/ cmd.kind = "DisableOwner"
            \/ cmd.kind = "RotatePasswords" /\ cmd.due

\* What a command makes of the Owner policy: in its plan, in the record and the
\* MongoDBUser, and in MongoDB.
PolicyInv ==
  /\ pc \in {"load", "decide", "acquiring", "changing", "retry"}
       /\ cmd.kind = "RotatePasswords" /\ cmd.due => aged
  /\ pc = "changing" =>
       /\ cmd.kind # "EnableOwner" => (inv.owner_disabled => want.owner_disabled)
       /\ cmd.kind = "EnableOwner" => ~want.owner_disabled
       /\ Disables => want.owner_disabled
  /\ Done /\ Disables => metadata.owner_disabled /\ ~user[Owner]
  /\ Done /\ cmd.kind = "EnableOwner" =>
       Recorded(metadata) /\ ~metadata.owner_disabled /\ user[Owner]
  /\ Asked /\ Disables => login[Owner] = 0

\* The database itself: how far the one-shot operation has come, and that the
\* second apply does not begin before it has.
OperationInv ==
  /\ pc = "changing" /\ cmd.kind = "AddDatabase" =>
       op = "create_database" \/ (op = "none" /\ materialized)
  /\ pc = "changing" /\ cmd.kind = "DeleteDatabase" =>
       op = "delete_database" \/ (op = "deleted" /\ ~materialized)
  /\ pc = "recording" => op = "none" /\ materialized = (cmd.kind = "AddDatabase")
  /\ pc = "recording" /\ cmd.kind = "AddDatabase" => metadata \in {NoDatabase, NewDatabase}
  /\ pc = "verifying" => op \in {"verify", "verify_absent", "none"}
  /\ pc = "releasing" => op \in {"release", "none"}

\* What a deletion leaves of the record, the accounts and MongoDB.
GoneInv ==
  /\ \A a \in Account : /\ credential[a].version = 0 => credential[a] = NoSink
                        /\ secret[a].version = 0 => secret[a] = NoSink
  /\ Done /\ cmd.kind = "DeleteDatabase" =>
       /\ metadata = NoDatabase /\ ~materialized
       /\ \A a \in Account : ~user[a] /\ credential[a] = NoSink /\ secret[a] = NoSink
  /\ Asked /\ cmd.kind = "DeleteDatabase" => \A a \in Account : login[a] = 0

CommandInv == PolicyInv /\ OperationInv /\ GoneInv

-----------------------------------------------------------------------------
(* It holds at the start, and where a command promises nothing.             *)

\* The invariant holds where no command has run.
LEMMA InitCommand == Init => CommandInv
BY DEF Init, CommandInv, PolicyInv, OperationInv, GoneInv, Done, Asked, Disables

\* A command that has ended, or failed on its way to the finally block, promises
\* nothing of the Owner, the operation or a deletion.
LEMMA RestCommand ==
  ASSUME CommandInv, UNCHANGED <<credential, secret>>,
         pc' = "idle" \/ (pc' = "finally" /\ failing')
  PROVE  CommandInv'
BY DEF CommandInv, PolicyInv, OperationInv, GoneInv, Done, Asked

\* Ending a command keeps the invariant.
LEMMA FinishCommand ==
  ASSUME CommandInv, NEW r, Finish(r)
  PROVE  CommandInv'
BY RestCommand DEF Finish, Goto, world

\* So does an exception, wherever it is raised.
LEMMA RaiseCommand ==
  ASSUME CommandInv, Raise
  PROVE  CommandInv'
<1>1. CASE Protected
  BY <1>1, RestCommand DEF Raise, Goto, world
<1>2. CASE ~Protected
  BY <1>2, FinishCommand DEF Raise
<1> QED
  BY <1>1, <1>2

-----------------------------------------------------------------------------
(* Terraform's steps.                                                       *)

\* Where an apply runs that has the record to change, nothing is done yet.
LEMMA StillToRecord ==
  ASSUME Inv, Applying, want # metadata
  PROVE  pc \in {"changing", "recording"} /\ ~Done /\ ~Asked
BY DEF Inv, PlanInv, Applying, ApplyPC, Done, Asked

\* Once it is done, every apply wants what Vault records.
LEMMA DoneIsSteady ==
  ASSUME Inv, Applying, Done
  PROVE  want = metadata
BY DEF Inv, PlanInv, Applying, ApplyPC, Done

\* Writing the record keeps the invariant.
LEMMA WriteMetadataCommand ==
  ASSUME TypeOK, Inv, CommandInv, WriteMetadata
  PROVE  CommandInv'
<1>1. /\ metadata' = want /\ Recorded(want) /\ metadata # want
      /\ aged' = (Recorded(metadata) /\ aged)
      /\ UNCHANGED <<credential, secret, user, login, materialized, locked,
                     applied, control>>
  BY DEF WriteMetadata
<1>2. /\ pc \in {"changing", "recording"}
      /\ ~Done' /\ ~Asked'
  BY <1>1, StillToRecord DEF WriteMetadata, Done, Asked, control, applied
<1>3. pc = "changing" /\ cmd.kind = "RotatePasswords" => Recorded(metadata)
  BY <1>1 DEF Inv, PlaceInv, PlanInv
<1>4. PolicyInv'
  BY <1>1, <1>2, <1>3 DEF CommandInv, PolicyInv, Disables, control, applied
<1>5. OperationInv'
  BY <1>1, <1>2 DEF CommandInv, OperationInv, Inv, PlanInv, control, applied
<1>6. GoneInv'
  BY <1>1, <1>2 DEF CommandInv, GoneInv
<1> QED
  BY <1>4, <1>5, <1>6 DEF CommandInv

\* Removing it does.
LEMMA RemoveMetadataCommand ==
  ASSUME TypeOK, Inv, CommandInv, RemoveMetadata
  PROVE  CommandInv'
<1>1. /\ metadata' = NoDatabase /\ ~Recorded(want) /\ metadata # NoDatabase
      /\ UNCHANGED <<credential, secret, user, login, materialized, locked, aged,
                     applied, control>>
  BY DEF RemoveMetadata
<1>2. want # metadata
  BY <1>1 DEF Inv, PlanInv
<1>3. ~Done' /\ ~Asked'
  BY <1>1, <1>2, StillToRecord DEF RemoveMetadata, Done, Asked, control, applied
<1>4. PolicyInv'
  BY <1>1, <1>3 DEF CommandInv, PolicyInv, Disables, control, applied
<1>5. OperationInv' /\ GoneInv'
  BY <1>1, <1>3 DEF CommandInv, OperationInv, GoneInv, control, applied
<1> QED
  BY <1>4, <1>5 DEF CommandInv

\* Writing a password does: there is none to write once a deletion is done.
LEMMA WriteSinkCommand ==
  ASSUME TypeOK, Inv, CommandInv, NEW a \in Account,
         WriteCredential(a) \/ WriteSecret(a)
  PROVE  CommandInv'
<1> DEFINE s == [version |-> want.version, password |-> applies]
<1>1. /\ Recorded(want) /\ Applying
      /\ \/ credential' = [credential EXCEPT ![a] = s] /\ secret' = secret
         \/ secret' = [secret EXCEPT ![a] = s] /\ credential' = credential
      /\ UNCHANGED <<metadata, user, login, materialized, locked, aged, applied, control>>
  BY DEF WriteCredential, WriteSecret
<1>2. s.version # 0
  BY <1>1 DEF Recorded
<1> HIDE DEF s
<1>3. PolicyInv' /\ OperationInv'
  BY <1>1 DEF CommandInv, PolicyInv, OperationInv, Done, Asked, Disables, Recorded,
              control, applied
<1>4. ~(Done /\ cmd.kind = "DeleteDatabase")
  BY <1>1, DoneIsSteady DEF CommandInv, GoneInv, Recorded, NoDatabase
<1>5. GoneInv'
  <2>1. credential \in [Account -> Sink] /\ secret \in [Account -> Sink]
    BY DEF TypeOK
  <2>2. ~(Done /\ cmd.kind = "DeleteDatabase")' /\ ~(Asked /\ cmd.kind = "DeleteDatabase")'
    BY <1>1, <1>4 DEF Done, Asked, control, applied
  <2> QED
    BY <1>1, <1>2, <2>1, <2>2 DEF CommandInv, GoneInv
<1> QED
  BY <1>3, <1>5 DEF CommandInv

\* Removing one does.
LEMMA RemoveSinkCommand ==
  ASSUME TypeOK, CommandInv, NEW a \in Account, RemoveCredential(a) \/ RemoveSecret(a)
  PROVE  CommandInv'
<1>1. /\ \/ credential' = [credential EXCEPT ![a] = NoSink] /\ secret' = secret
         \/ secret' = [secret EXCEPT ![a] = NoSink] /\ credential' = credential
      /\ UNCHANGED <<metadata, user, login, materialized, locked, aged, applied, control>>
  BY DEF RemoveCredential, RemoveSecret
<1>2. PolicyInv' /\ OperationInv'
  BY <1>1 DEF CommandInv, PolicyInv, OperationInv, Done, Asked, Disables, Recorded,
              control, applied
<1>3. GoneInv'
  <2>1. credential \in [Account -> Sink] /\ secret \in [Account -> Sink]
    BY DEF TypeOK
  <2> QED
    BY <1>1, <2>1 DEF CommandInv, GoneInv, Done, Asked, control, applied
<1> QED
  BY <1>2, <1>3 DEF CommandInv

\* Creating and removing a MongoDBUser does: once it is done, the plan is the
\* record, and the record has the Owner as the command wants it.
LEMMA ChangeUserCommand ==
  ASSUME TypeOK, Inv, CommandInv, NEW a \in Account, CreateUser(a) \/ RemoveUser(a)
  PROVE  CommandInv'
<1>1. /\ Applying
      /\ \/ Active(want, a) /\ user' = [user EXCEPT ![a] = TRUE]
         \/ ~Active(want, a) /\ user' = [user EXCEPT ![a] = FALSE]
      /\ UNCHANGED <<metadata, credential, secret, login, materialized, locked, aged,
                     applied, control>>
  BY DEF CreateUser, RemoveUser
<1>2. user \in [Account -> BOOLEAN]
  BY DEF TypeOK
<1>3. /\ Done /\ user'[a] => Active(metadata, a)
      /\ Done /\ Active(metadata, a) => user'[a]
  <2>1. Done => want = metadata
    BY <1>1, DoneIsSteady
  <2>2. (user'[a] => Active(want, a)) /\ (Active(want, a) => user'[a])
    <3>1. CASE Active(want, a)
      BY <1>1, <1>2, <3>1
    <3>2. CASE ~Active(want, a)
      BY <1>1, <1>2, <3>2
    <3> QED
      BY <3>1, <3>2
  <2> QED
    BY <2>1, <2>2
<1>4. (Done' <=> Done) /\ (Asked' <=> Asked) /\ (Disables' <=> Disables)
  BY <1>1 DEF Done, Asked, Disables, control, applied
<1>5. PolicyInv'
  <2>1. a # Owner => user'[Owner] = user[Owner]
    BY <1>1, <1>2, CredentialAssumption
  <2>2. Done /\ Disables => ~user'[Owner]
    BY <1>3, <2>1 DEF CommandInv, PolicyInv, Active
  <2>3. Done /\ cmd.kind = "EnableOwner" => user'[Owner]
    BY <1>3, <2>1 DEF CommandInv, PolicyInv, Active
  <2> QED
    BY <1>1, <1>4, <2>2, <2>3 DEF CommandInv, PolicyInv, Recorded, control, applied
<1>6. OperationInv'
  BY <1>1 DEF CommandInv, OperationInv, control, applied
<1>7. GoneInv'
  <2>1. Done /\ cmd.kind = "DeleteDatabase" => \A b \in Account : ~user'[b]
    BY <1>1, <1>2, <1>3 DEF CommandInv, GoneInv, Active, Recorded, NoDatabase
  <2> QED
    BY <1>1, <1>4, <2>1 DEF CommandInv, GoneInv, control, applied
<1> QED
  BY <1>5, <1>6, <1>7 DEF CommandInv

\* The hooks of the database do: the operation of the apply goes ahead, and
\* nothing creates a database that was just dropped.
LEMMA HookCommand ==
  ASSUME TypeOK, Inv, CommandInv, DropDatabase \/ ProvisionDatabase
  PROVE  CommandInv'
<1>1. UNCHANGED <<metadata, credential, secret, user, login, locked, aged, inv, want,
                  applies, control>> /\ Applying
  BY DEF DropDatabase, ProvisionDatabase
<1>2. Asked' => Asked
  BY <1>1 DEF DropDatabase, ProvisionDatabase, Asked, control, CommandInv, OperationInv
<1>3. (Done' <=> Done) /\ (Disables' <=> Disables)
  BY <1>1 DEF Done, Disables, control
<1>4. PolicyInv'
  BY <1>1, <1>2, <1>3 DEF CommandInv, PolicyInv, Recorded, control
<1>5. CASE DropDatabase
  <2>1. op = "delete_database" /\ op' = "deleted" /\ ~materialized'
    BY <1>5 DEF DropDatabase
  <2>2. OperationInv' /\ GoneInv'
    BY <1>1, <1>2, <1>3, <2>1 DEF CommandInv, OperationInv, GoneInv, control
  <2> QED
    BY <1>4, <2>2 DEF CommandInv
<1>6. CASE ProvisionDatabase
  <2>1. /\ materialized'
        /\ \/ op = "create_database" /\ op' = "none"
           \/ /\ Recorded(want) /\ ~materialized
              /\ op \notin {"delete_database", "deleted"} /\ op' = op
    BY <1>6 DEF ProvisionDatabase
  <2>2. pc = "recording" => Recorded(want)
    BY <2>1 DEF CommandInv, OperationInv
  <2>3. pc # "recording"
    <3>1. pc = "recording" => cmd.kind = "AddDatabase"
      BY <2>2 DEF Inv, PlanInv, Recorded, NoDatabase
    <3>2. pc = "recording" /\ cmd.kind = "AddDatabase" => op = "none" /\ materialized
      BY DEF CommandInv, OperationInv
    <3> QED
      BY <2>1, <3>1, <3>2
  <2>4. OperationInv'
    BY <1>1, <2>1, <2>3 DEF CommandInv, OperationInv, control
  <2>5. ~(Done /\ cmd.kind = "DeleteDatabase")
    BY <1>1, <2>1, DoneIsSteady DEF CommandInv, OperationInv, GoneInv, Recorded,
       NoDatabase, Applying, ApplyPC, Done
  <2>6. GoneInv'
    BY <1>1, <1>2, <1>3, <2>5 DEF CommandInv, GoneInv, Done, Asked, control
  <2> QED
    BY <1>4, <2>4, <2>6 DEF CommandInv
<1> QED
  BY <1>5, <1>6

\* The verification does: where it succeeds, MongoDB has no account it must not have.
LEMMA VerifyCommand ==
  ASSUME TypeOK, Inv, CommandInv, VerifyAccounts
  PROVE  CommandInv'
<1>1. /\ UNCHANGED <<world, aged, inv, want, applies, control>>
      /\ Applying /\ op' = "none"
      /\ \/ op = "verify" /\ \A a \in Account : Active(inv, a) <=> login[a] # 0
         \/ op = "verify_absent" /\ \A a \in Account : login[a] = 0
  BY DEF VerifyAccounts
<1>2. /\ (Done' <=> Done) /\ (Disables' <=> Disables)
      /\ pc # "recording" /\ pc # "releasing"
      /\ pc = "changing" => cmd.kind \notin {"AddDatabase", "DeleteDatabase"}
  BY <1>1 DEF Done, Disables, control, CommandInv, OperationInv
<1>3. Asked' => Done /\ (Asked \/ pc = "verifying")
  BY <1>1 DEF Asked, Done, control
<1>4. pc = "verifying" => inv = metadata
  BY DEF Inv, PlanInv
<1>5. PolicyInv'
  <2>1. pc = "verifying" /\ Disables => login[Owner] = 0
    BY <1>1, <1>4, CredentialAssumption DEF CommandInv, PolicyInv, Done, Active
  <2>2. Asked' /\ Disables => login[Owner] = 0
    BY <1>3, <2>1 DEF CommandInv, PolicyInv
  <2> QED
    BY <1>1, <1>2, <2>2 DEF CommandInv, PolicyInv, Recorded, control, world
<1>6. OperationInv'
  BY <1>1, <1>2 DEF CommandInv, OperationInv, control, world
<1>7. GoneInv'
  <2>1. pc = "verifying" /\ cmd.kind = "DeleteDatabase" => \A a \in Account : login[a] = 0
    BY <1>1, <1>4 DEF CommandInv, GoneInv, Done, Active, Recorded, NoDatabase
  <2>2. Asked' /\ cmd.kind = "DeleteDatabase" => \A a \in Account : login[a] = 0
    BY <1>3, <2>1 DEF CommandInv, GoneInv
  <2> QED
    BY <1>1, <1>2, <2>2 DEF CommandInv, GoneInv, control, world
<1> QED
  BY <1>5, <1>6, <1>7 DEF CommandInv

\* Taking and releasing the lock does.
LEMMA ChangeLockCommand ==
  ASSUME CommandInv, ChangeLock
  PROVE  CommandInv'
<1>1. /\ UNCHANGED <<metadata, credential, secret, user, login, materialized, aged,
                     inv, want, applies, control>>
      /\ op \in {"acquire", "release"} /\ op' = "none"
  BY DEF ChangeLock
<1>2. pc \notin {"recording", "verifying"}
  BY <1>1 DEF CommandInv, OperationInv
<1>3. (Done' <=> Done) /\ (Disables' <=> Disables) /\ (Asked' <=> Asked)
  BY <1>1, <1>2 DEF Done, Disables, Asked, control
<1>4. PolicyInv' /\ GoneInv'
  BY <1>1, <1>3 DEF CommandInv, PolicyInv, GoneInv, Recorded, control
<1>5. OperationInv'
  BY <1>1, <1>2 DEF CommandInv, OperationInv, control
<1> QED
  BY <1>4, <1>5 DEF CommandInv

\* Every step of Terraform keeps the invariant.
LEMMA ApplyStepCommand ==
  ASSUME TypeOK, Inv, CommandInv, ApplyStep
  PROVE  CommandInv'
BY WriteMetadataCommand, RemoveMetadataCommand, WriteSinkCommand, RemoveSinkCommand,
   ChangeUserCommand, HookCommand, VerifyCommand, ChangeLockCommand DEF ApplyStep

-----------------------------------------------------------------------------
(* The command's steps.                                                     *)

\* What the apply of a change is planned for follows the Owner policy.
LEMMA StartChangeCommand ==
  ASSUME CommandInv, NEW i, NEW o,
         pc \in {"decide", "acquiring", "retry"},
         StartApply("changing", i, Planned(i), o),
         cmd.kind = "AddDatabase" => o = "create_database",
         cmd.kind = "DeleteDatabase" => o = "delete_database",
         i \in Metadata
  PROVE  CommandInv'
<1>1. /\ pc' = "changing" /\ inv' = i /\ want' = Planned(i) /\ op' = o
      /\ UNCHANGED <<credential, secret, aged, cmd>>
  BY DEF StartApply, Goto, world
<1>2. ~Done' /\ ~Asked'
  BY <1>1 DEF Done, Asked
<1>3. Disables => Planned(i).owner_disabled
  BY DEF Disables, Planned, CommandInv, PolicyInv, Metadata
<1>4. /\ cmd.kind # "EnableOwner" /\ i.owner_disabled => Planned(i).owner_disabled
      /\ cmd.kind = "EnableOwner" => ~Planned(i).owner_disabled
  BY DEF Planned, Metadata
<1>5. PolicyInv'
  BY <1>1, <1>2, <1>3, <1>4 DEF CommandInv, PolicyInv, Disables
<1>6. OperationInv' /\ GoneInv'
  BY <1>1, <1>2 DEF CommandInv, OperationInv, GoneInv
<1> QED
  BY <1>5, <1>6 DEF CommandInv

\* Deciding what a command does keeps the invariant.
LEMMA DecideCommand ==
  ASSUME TypeOK, CommandInv, Decide
  PROVE  CommandInv'
<1>1. pc = "decide" /\ inv \in Metadata
  BY DEF Decide, TypeOK
<1>2. CASE Finish("failed") \/ Finish("succeeded")
  BY <1>2, FinishCommand
<1>3. CASE \/ StartApply("applying", inv, inv, "none")
           \/ StartApply("acquiring", inv, inv, "acquire")
  BY <1>1, <1>3 DEF StartApply, Goto, world, CommandInv, PolicyInv, OperationInv, GoneInv,
                    Done, Asked
<1>4. CASE StartChange
  BY <1>1, <1>4, StartChangeCommand DEF StartChange, FirstOperation
<1> QED
  BY <1>2, <1>3, <1>4 DEF Decide

\* The first apply of a change has succeeded: the policy is in the record and the
\* MongoDBUser, or the database is created or dropped.
LEMMA AfterChangeCommand ==
  ASSUME TypeOK, Inv, CommandInv, pc = "changing", Converged, AfterChange
  PROVE  CommandInv'
<1>1. /\ metadata = want /\ op \in {"none", "deleted"}
      /\ user[Owner] = Active(want, Owner)
  BY CredentialAssumption DEF Converged
<1>2. CASE cmd.kind \in {"AddDatabase", "DeleteDatabase"}
  <2>1. /\ pc' = "recording" /\ op' = "none"
        /\ UNCHANGED <<metadata, credential, secret, materialized, cmd>>
    BY <1>2 DEF AfterChange, StartApply, Goto, world
  <2>2. materialized = (cmd.kind = "AddDatabase")
    BY <1>1, <1>2 DEF CommandInv, OperationInv, TypeOK
  <2>3. cmd.kind = "AddDatabase" => metadata = NoDatabase
    BY <1>1 DEF Inv, PlaceInv, PlanInv, Recorded
  <2>4. PolicyInv' /\ OperationInv'
    BY <2>1, <2>2, <2>3 DEF PolicyInv, OperationInv, Done, Asked
  <2>5. GoneInv'
    BY <2>1 DEF CommandInv, GoneInv, Done, Asked
  <2> QED
    BY <2>4, <2>5 DEF CommandInv
<1>3. CASE cmd.kind \notin {"AddDatabase", "DeleteDatabase"}
  <2>1. /\ pc' = "reload"
        /\ UNCHANGED <<metadata, credential, secret, user, login, cmd>>
    BY <1>3 DEF AfterChange, Local, Goto, world
  <2>2. Disables => metadata.owner_disabled /\ ~user[Owner]
    BY <1>1 DEF CommandInv, PolicyInv, Active
  <2>3. cmd.kind = "EnableOwner" =>
          Recorded(metadata) /\ ~metadata.owner_disabled /\ user[Owner]
    <3>1. cmd.kind = "EnableOwner" => Recorded(want)
      BY DEF Inv, PlaceInv, PlanInv, Recorded
    <3> QED
      BY <1>1, <3>1 DEF CommandInv, PolicyInv, Active
  <2>4. PolicyInv'
    BY <2>1, <2>2, <2>3 DEF PolicyInv, Asked, Disables, Recorded
  <2>5. OperationInv' /\ GoneInv'
    BY <1>3, <2>1 DEF CommandInv, OperationInv, GoneInv, Asked
  <2> QED
    BY <2>4, <2>5 DEF CommandInv
<1> QED
  BY <1>2, <1>3

\* The second apply of AddDatabase or DeleteDatabase has succeeded: what was
\* deleted is gone from the record, the accounts and the passwords.
LEMMA AfterRecordingCommand ==
  ASSUME TypeOK, Inv, CommandInv, pc = "recording", Converged,
         Local(IF Recorded(inv) THEN "reload" ELSE "waiting")
  PROVE  CommandInv'
<1>1. /\ metadata = want /\ want = inv
      /\ cmd.kind \in {"AddDatabase", "DeleteDatabase"}
  BY DEF Converged, Inv, PlaceInv, PlanInv
<1>2. /\ pc' \in {"reload", "waiting"}
      /\ UNCHANGED <<metadata, credential, secret, user, login, materialized, cmd>>
  BY DEF Local, Goto, world
<1>3. cmd.kind = "DeleteDatabase" =>
        /\ metadata = NoDatabase /\ ~materialized
        /\ \A a \in Account : ~user[a] /\ credential[a] = NoSink /\ secret[a] = NoSink
  <2> SUFFICES ASSUME cmd.kind = "DeleteDatabase"
               PROVE  /\ metadata = NoDatabase /\ ~materialized
                      /\ \A a \in Account : /\ ~user[a]
                                            /\ credential[a] = NoSink /\ secret[a] = NoSink
    OBVIOUS
  <2>1. metadata = NoDatabase /\ want = NoDatabase /\ ~materialized
    BY <1>1 DEF Inv, PlanInv, CommandInv, OperationInv
  <2>2. \A a \in Account : /\ user[a] = Active(want, a)
                           /\ credential[a].version = want.version
                           /\ secret[a].version = want.version
    BY DEF Converged
  <2>3. \A a \in Account : ~Active(want, a)
    BY <2>1 DEF Active, Recorded, NoDatabase
  <2>4. want.version = 0
    BY <2>1 DEF NoDatabase
  <2>5. \A a \in Account : credential[a] = NoSink /\ secret[a] = NoSink
    BY <2>2, <2>4 DEF CommandInv, GoneInv
  <2> QED
    BY <2>1, <2>2, <2>3, <2>5
<1>4. PolicyInv'
  BY <1>1, <1>2 DEF PolicyInv, Disables, Asked
<1>5. OperationInv' /\ GoneInv'
  BY <1>2, <1>3 DEF CommandInv, OperationInv, GoneInv, Asked
<1> QED
  BY <1>4, <1>5 DEF CommandInv

\* Once it is done, a command that looks, verifies and releases stays so.
LEMMA DoneCommand ==
  ASSUME CommandInv, Done, Done',
         UNCHANGED <<metadata, credential, secret, user, login, materialized, cmd>>,
         pc' = "verifying" => op' \in {"verify", "verify_absent"},
         pc' = "releasing" => op' = "release",
         Asked' => Asked
  PROVE  CommandInv'
<1>1. PolicyInv'
  BY DEF CommandInv, PolicyInv, Done, Disables, Recorded
<1>2. OperationInv' /\ GoneInv'
  BY DEF CommandInv, OperationInv, GoneInv, Done
<1> QED
  BY <1>1, <1>2 DEF CommandInv

\* Terraform exits 0.
LEMMA ApplySucceedsCommand ==
  ASSUME TypeOK, Inv, CommandInv, ApplySucceeds
  PROVE  CommandInv'
<1>1. pc \in ApplyPC /\ Converged
  BY DEF ApplySucceeds, Applying
<1>2. CASE pc = "acquiring"
  BY <1>2, StartChangeCommand DEF ApplySucceeds, StartChange, FirstOperation, TypeOK
<1>3. CASE pc = "changing"
  BY <1>1, <1>3, AfterChangeCommand DEF ApplySucceeds
<1>4. CASE pc = "recording"
  BY <1>1, <1>4, AfterRecordingCommand DEF ApplySucceeds
<1>5. CASE pc = "verifying"
  <2>1. CASE Local("finally")
    <3>1. /\ pc' = "finally" /\ ~failing'
          /\ UNCHANGED <<metadata, credential, secret, user, login, materialized, cmd>>
      BY <1>5, <2>1 DEF Local, Goto, world, Inv, PlaceInv
    <3>2. op = "none"
      BY <1>1, <1>5 DEF Converged, CommandInv, OperationInv
    <3> QED
      BY <1>5, <3>1, <3>2, DoneCommand DEF Done, Asked
  <2>2. CASE Succeed
    BY <2>2, FinishCommand DEF Succeed
  <2> QED
    BY <1>5, <2>1, <2>2 DEF ApplySucceeds
<1>6. CASE pc = "releasing"
  BY <1>6, FinishCommand DEF ApplySucceeds
<1>7. CASE pc = "applying"
  BY <1>7 DEF ApplySucceeds, Local, Goto, world, CommandInv, PolicyInv, OperationInv,
              GoneInv, Done, Asked
<1> QED
  BY <1>1, <1>2, <1>3, <1>4, <1>5, <1>6, <1>7 DEF ApplyPC

\* Giving the lock back keeps the invariant.
LEMMA ReleaseCommand ==
  ASSUME CommandInv, ReleaseLock
  PROVE  CommandInv'
<1>1. /\ pc = "finally" /\ pc' = "releasing" /\ op' = "release"
      /\ UNCHANGED <<metadata, credential, secret, user, login, materialized, cmd, failing>>
  BY DEF ReleaseLock, StartApply, Goto, world
<1>2. CASE failing
  BY <1>1, <1>2 DEF CommandInv, PolicyInv, OperationInv, GoneInv, Done, Asked
<1>3. CASE ~failing
  BY <1>1, <1>3, DoneCommand DEF Done, Asked
<1> QED
  BY <1>2, <1>3

\* Every step of the command keeps the invariant.
LEMMA ControllerCommand ==
  ASSUME TypeOK, Inv, CommandInv, Controller
  PROVE  CommandInv'
<1>1. CASE LoadInventory
  BY <1>1 DEF LoadInventory, Reload, Goto, world, CommandInv, PolicyInv, OperationInv,
              GoneInv, Done, Asked
<1>2. CASE Retry
  <2>1. pc = "retry" /\ cmd.kind = "RotatePasswords" /\ metadata \in Metadata
    BY <1>2 DEF Retry, Inv, PlaceInv, TypeOK
  <2> QED
    BY <1>2, <2>1, StartChangeCommand DEF Retry
<1>3. CASE ReloadInventory
  BY <1>3, DoneCommand DEF ReloadInventory, Reload, Goto, world, Done, Asked
<1>4. CASE VerifyDatabase
  BY <1>4, DoneCommand DEF VerifyDatabase, StartApply, Goto, world, Done, Asked
<1>5. CASE Settle
  BY <1>5, FinishCommand DEF Settle, Succeed
<1> QED
  BY <1>1, <1>2, <1>3, <1>4, <1>5, ReleaseCommand, DecideCommand, ApplyStepCommand,
     ApplySucceedsCommand DEF Controller

\* A failed apply is retried, or fails the command.
LEMMA ApplyFailsCommand ==
  ASSUME CommandInv, ApplyFails
  PROVE  CommandInv'
<1>1. CASE Raise
  BY <1>1, RaiseCommand
<1>2. CASE /\ pc = "changing" /\ Goto("retry")
           /\ UNCHANGED <<world, aged, applied, cmd, failing, outcome, commands>>
  BY <1>2 DEF CommandInv, PolicyInv, OperationInv, GoneInv, Done, Asked, Goto, world
<1> QED
  BY <1>1, <1>2 DEF ApplyFails

\* MongoDB follows the MongoDBUsers: what has none cannot log in again.
LEMMA OperatorCommand ==
  ASSUME TypeOK, CommandInv, NEW a \in Account, SyncLogin(a)
  PROVE  CommandInv'
<1>1. /\ login' = [login EXCEPT ![a] = IF user[a] THEN secret[a].password ELSE 0]
      /\ UNCHANGED <<metadata, credential, secret, user, materialized, aged, applied,
                     control>>
  BY DEF SyncLogin
<1>2. login \in [Account -> Nat]
  BY DEF TypeOK
<1>3. (Done' <=> Done) /\ (Asked' <=> Asked) /\ (Disables' <=> Disables) /\ (Asked => Done)
  BY <1>1 DEF Done, Asked, Disables, control, applied
<1>4. \A b \in Account : ~user[b] /\ login[b] = 0 => login'[b] = 0
  BY <1>1, <1>2
<1>5. PolicyInv'
  <2>1. Asked /\ Disables => login'[Owner] = 0
    BY <1>3, <1>4, CredentialAssumption DEF CommandInv, PolicyInv
  <2> QED
    BY <1>1, <1>3, <2>1 DEF CommandInv, PolicyInv, Recorded, control, applied
<1>6. OperationInv'
  BY <1>1 DEF CommandInv, OperationInv, control, applied
<1>7. GoneInv'
  BY <1>1, <1>3, <1>4 DEF CommandInv, GoneInv, control, applied
<1> QED
  BY <1>5, <1>6, <1>7 DEF CommandInv

\* The invariant is inductive.
LEMMA NextCommand ==
  ASSUME TypeOK, Inv, CommandInv, [Next]_vars
  PROVE  CommandInv'
<1>1. CASE Submit
  <2>1. pc' = "load" /\ cmd'.due = aged /\ UNCHANGED <<credential, secret, aged>>
    BY <1>1 DEF Submit, Goto, world
  <2> QED
    BY <2>1 DEF CommandInv, PolicyInv, OperationInv, GoneInv, Done, Asked
<1>2. CASE ReadFails \/ Crash
  BY <1>2, RaiseCommand, FinishCommand DEF ReadFails, Crash
<1>3. CASE Operator
  BY <1>3, OperatorCommand DEF Operator
<1>4. CASE Age \/ UNCHANGED vars
  <2>1. UNCHANGED <<world, applied, control>> /\ (aged => aged')
    BY <1>4 DEF Age, vars
  <2> QED
    BY <2>1 DEF CommandInv, PolicyInv, OperationInv, GoneInv, Done, Asked, Disables,
                Recorded, world, applied, control
<1> QED
  BY <1>1, <1>2, <1>3, <1>4, ControllerCommand, ApplyFailsCommand DEF Next

\* What a command has done, and what MongoDB has been asked, holds until it ends.
THEOREM CommandCorrect == Spec => [](CredentialInv /\ CommandInv)
<1>1. Init => CredentialInv /\ CommandInv
  BY InitType, InitInv, InitCommand DEF CredentialInv, Inv
<1>2. CredentialInv /\ CommandInv /\ [Next]_vars => CredentialInv' /\ CommandInv'
  BY NextType, NextInv, NextCommand DEF CredentialInv, Inv
<1> QED
  BY <1>1, <1>2, PTL DEF Spec

-----------------------------------------------------------------------------
(* What success means.                                                      *)

\* A change reports success from two places, and MongoDB has been asked before.
LEMMA SuccessAsked ==
  ASSUME TypeOK, Inv, CommandInv, [Next]_vars,
         outcome = "none", outcome' = "succeeded", Changes, ~Decide
  PROVE  Done /\ Asked
<1>1. ApplySucceeds \/ Settle
  BY DEF Next, vars, control, world, applied, Submit, Controller, LoadInventory,
         Retry, ReloadInventory, VerifyDatabase, ReleaseLock, ApplyStep,
         WriteMetadata, RemoveMetadata, DropDatabase, ProvisionDatabase,
         VerifyAccounts, ChangeLock, WriteCredential, WriteSecret, CreateUser,
         RemoveUser, RemoveCredential, RemoveSecret, ApplyFails, ReadFails,
         Raise, Crash, Operator, SyncLogin, Age, Reload, StartApply, Finish
<1>2. ~Settle
  BY DEF Settle, Inv, PlaceInv
<1>3. pc \in {"verifying", "releasing"} /\ ~failing
  BY <1>1, <1>2 DEF ApplySucceeds, StartChange, AfterChange, StartApply, Local, Finish,
                    Succeed, Inv, PlaceInv
<1>4. pc = "verifying" => op = "none"
  BY <1>1, <1>2 DEF ApplySucceeds, Converged, CommandInv, OperationInv
<1> QED
  BY <1>3, <1>4 DEF Done, Asked

\* When a command that changed or rotated the Owner reports success, the record,
\* Kubernetes and MongoDB have the Owner as it says, whatever failed before.
THEOREM OwnerCorrect == Spec => OwnerAsReported
<1>1. ASSUME TypeOK, Inv, CommandInv, [Next]_vars, pc # "decide"
      PROVE  /\ (Reports("DisableOwner") \/ (Reports("RotatePasswords") /\ cmd.due)) =>
                  metadata.owner_disabled /\ ~user[Owner] /\ login[Owner] = 0
             /\ Reports("EnableOwner") => ~metadata.owner_disabled /\ user[Owner]
  <2>1. ~Decide
    BY <1>1 DEF Decide
  <2>2. Reports("DisableOwner") \/ Reports("RotatePasswords") \/ Reports("EnableOwner")
          => Done /\ Asked
    BY <1>1, <2>1, SuccessAsked DEF Reports, Changes
  <2> QED
    BY <1>1, <2>2 DEF Reports, Disables, CommandInv, PolicyInv
<1>2. CredentialInv /\ CommandInv /\ [Next]_vars =>
        (pc # "decide" =>
           /\ (Reports("DisableOwner") \/ (Reports("RotatePasswords") /\ cmd.due)) =>
                metadata.owner_disabled /\ ~user[Owner] /\ login[Owner] = 0
           /\ Reports("EnableOwner") => ~metadata.owner_disabled /\ user[Owner])
  BY <1>1 DEF CredentialInv, Inv
<1> QED
  BY <1>2, CommandCorrect, PTL DEF Spec, OwnerAsReported

\* A DeleteDatabase that reports success leaves no record, database, account,
\* MongoDBUser or password, whatever earlier attempts had left.
THEOREM DeletionCorrect == Spec => DeletedIsGone
<1>1. ASSUME TypeOK, Inv, CommandInv, [Next]_vars, Reports("DeleteDatabase")
      PROVE  /\ ~Recorded(metadata) /\ ~materialized
             /\ \A a \in Account : /\ login[a] = 0 /\ ~user[a]
                                   /\ credential[a] = NoSink /\ secret[a] = NoSink
  <2>1. ~Decide
    BY <1>1 DEF Decide, AlreadyDone, Finish, StartApply, StartChange, Reports
  <2>2. Done /\ Asked
    BY <1>1, <2>1, SuccessAsked DEF Reports, Changes
  <2> QED
    BY <1>1, <2>2 DEF Reports, CommandInv, GoneInv, Recorded, NoDatabase
<1>2. CredentialInv /\ CommandInv /\ [Next]_vars =>
        (Reports("DeleteDatabase") =>
           /\ ~Recorded(metadata) /\ ~materialized
           /\ \A a \in Account : /\ login[a] = 0 /\ ~user[a]
                                 /\ credential[a] = NoSink /\ secret[a] = NoSink)
  BY <1>1 DEF CredentialInv, Inv
<1> QED
  BY <1>2, CommandCorrect, PTL DEF Spec, DeletedIsGone

\* The record of a database changes only where an apply has one to write or remove.
LEMMA RecordMoves ==
  ASSUME [Next]_vars, metadata' # metadata
  PROVE  WriteMetadata \/ RemoveMetadata
BY DEF Next, vars, control, world, applied, Submit, Controller, LoadInventory, Decide,
       Retry, ReloadInventory, VerifyDatabase, ReleaseLock, ApplyStep, Settle, Succeed,
       DropDatabase, ProvisionDatabase, ApplySucceeds, StartChange, AfterChange, Local,
       VerifyAccounts, ChangeLock, WriteCredential, WriteSecret, CreateUser,
       RemoveUser, RemoveCredential, RemoveSecret, ApplyFails, ReadFails,
       Raise, Crash, Operator, SyncLogin, Age, Reload, StartApply, Finish

\* No account is recorded for a database that does not exist in MongoDB.
THEOREM DatabaseFirstCorrect == Spec => DatabaseFirst
<1>1. ASSUME TypeOK, Inv, CommandInv, [Next]_vars, ~Recorded(metadata), Recorded(metadata')
      PROVE  materialized
  <2>1. WriteMetadata
    BY <1>1, RecordMoves DEF RemoveMetadata, Recorded, NoDatabase
  <2>2. pc \in {"changing", "recording"} /\ Recorded(want) /\ want # metadata
    BY <1>1, <2>1, StillToRecord DEF WriteMetadata
  <2>3. pc # "changing"
    <3> SUFFICES ASSUME pc = "changing"
                 PROVE  FALSE
      OBVIOUS
    <3>1. inv = metadata /\ cmd.kind = "AddDatabase" /\ want.version = inv.version
      BY <1>1, <2>2 DEF Inv, PlanInv, PlaceInv
    <3> QED
      BY <1>1, <2>2, <3>1 DEF Recorded
  <2>4. cmd.kind = "AddDatabase"
    BY <1>1, <2>2, <2>3 DEF Inv, PlanInv, Recorded, NoDatabase
  <2> QED
    BY <1>1, <2>2, <2>3, <2>4 DEF CommandInv, OperationInv
<1>2. CredentialInv /\ CommandInv /\ [Next]_vars =>
        (~Recorded(metadata) /\ Recorded(metadata') => materialized)
  BY <1>1 DEF CredentialInv, Inv
<1> QED
  BY <1>2, CommandCorrect, PTL DEF Spec, DatabaseFirst

\* Only EnableOwner brings a disabled Owner back.
THEOREM OwnerOutCorrect == Spec => OwnerStaysOut
<1>1. ASSUME TypeOK, Inv, CommandInv, [Next]_vars, Recorded(metadata),
             metadata.owner_disabled, ~user[Owner], cmd.kind # "EnableOwner"
      PROVE  ~user'[Owner] /\ (Recorded(metadata') => metadata'.owner_disabled)
  <2>1. ~user'[Owner]
    <3>1. CASE user' = user
      BY <1>1, <3>1
    <3>2. ASSUME NEW a \in Account, CreateUser(a) \/ RemoveUser(a)
          PROVE  ~user'[Owner]
      <4>1. user \in [Account -> BOOLEAN] /\ Owner \in Account
        BY <1>1, CredentialAssumption DEF TypeOK
      <4>2. CASE RemoveUser(a)
        BY <1>1, <4>1, <4>2 DEF RemoveUser
      <4>3. CASE CreateUser(a)
        <5>1. a # Owner
          BY <1>1, <4>3 DEF CreateUser, Active
        <5> QED
          BY <1>1, <4>1, <4>3, <5>1 DEF CreateUser
      <4> QED
        BY <3>2, <4>2, <4>3
    <3>3. user' = user \/ \E a \in Account : CreateUser(a) \/ RemoveUser(a)
      BY <1>1 DEF Next, vars, control, world, applied, Submit, Controller, LoadInventory,
         Decide, Retry, ReloadInventory, VerifyDatabase, ReleaseLock, ApplyStep, Settle,
         Succeed, DropDatabase, ProvisionDatabase, ApplySucceeds, StartChange,
         AfterChange, Local, VerifyAccounts, ChangeLock, WriteCredential, WriteSecret,
         WriteMetadata, RemoveMetadata, RemoveCredential, RemoveSecret, ApplyFails,
         ReadFails, Raise, Crash, Operator, SyncLogin, Age, Reload, StartApply, Finish
    <3> QED
      BY <3>1, <3>2, <3>3
  <2>2. Recorded(metadata') => metadata'.owner_disabled
    <3>1. CASE metadata' = metadata
      BY <1>1, <3>1
    <3>2. CASE RemoveMetadata
      BY <3>2 DEF RemoveMetadata, Recorded, NoDatabase
    <3>3. CASE WriteMetadata
      <4>1. metadata' = want /\ Recorded(want) /\ pc \in {"changing", "recording"}
              /\ want # metadata
        BY <1>1, <3>3, StillToRecord DEF WriteMetadata
      <4>2. CASE pc = "changing"
        BY <1>1, <4>1, <4>2 DEF Inv, PlanInv, CommandInv, PolicyInv
      <4>3. CASE pc = "recording"
        <5>1. cmd.kind = "AddDatabase"
          BY <1>1, <4>1, <4>3 DEF Inv, PlanInv, Recorded, NoDatabase
        <5> QED
          BY <1>1, <4>3, <5>1 DEF CommandInv, OperationInv, NoDatabase, NewDatabase
      <4> QED
        BY <4>1, <4>2, <4>3
    <3> QED
      BY <1>1, <3>1, <3>2, <3>3, RecordMoves
  <2> QED
    BY <2>1, <2>2
<1>2. CredentialInv /\ CommandInv /\ [Next]_vars =>
        (Recorded(metadata) /\ metadata.owner_disabled /\ ~user[Owner] =>
           \/ cmd.kind = "EnableOwner"
           \/ ~user'[Owner] /\ (Recorded(metadata') => metadata'.owner_disabled))
  BY <1>1 DEF CredentialInv, Inv
<1> QED
  BY <1>2, CommandCorrect, PTL DEF Spec, OwnerStaysOut

-----------------------------------------------------------------------------
(* The commands implement DatabaseService.                                  *)

\* What the command, the operation of its apply and the answer that is due have to
\* do with each other.
ServiceInv ==
  /\ pc = "idle" => op = "none"
  /\ pc # "idle" => outcome = "none" /\ cmd.kind \in Kinds
  /\ pc \in {"acquiring", "changing"} => Changes
  /\ op = "create_database" => cmd.kind = "AddDatabase"
  /\ op = "delete_database" => cmd.kind = "DeleteDatabase"
  /\ Applying /\ op = "delete_database" => pc = "changing"
  /\ pc = "changing" /\ cmd.kind \in {"AddDatabase", "DeleteDatabase"} => want = inv

\* No password is of a later apply than the last, and none of this one before the
\* record is as it was planned.
DrawInv ==
  /\ Applying => applies # 0
  /\ \A a \in Account :
       /\ credential[a].password <= applies /\ secret[a].password <= applies
       /\ Applying /\ metadata # want =>
            credential[a].password # applies /\ secret[a].password # applies

\* It is inductive.
LEMMA NextDraw ==
  ASSUME TypeOK, Inv, DrawInv, [Next]_vars
  PROVE  DrawInv'
<1>1. /\ credential \in [Account -> Sink] /\ secret \in [Account -> Sink] /\ applies \in Nat
  BY DEF TypeOK
<1>2. \A a \in Account : credential[a].password \in Nat /\ secret[a].password \in Nat
  BY <1>1 DEF Sink
<1>3. CASE /\ UNCHANGED <<credential, secret>>
           /\ applies' = applies + 1
  <2>1. \A m, n \in Nat : m <= n => m <= n + 1 /\ m # n + 1
    OBVIOUS
  <2>2. applies + 1 # 0
    BY <1>1
  <2> QED
    BY <1>1, <1>2, <1>3, <2>1, <2>2 DEF DrawInv
<1>4. CASE /\ UNCHANGED <<credential, secret, applies>>
           /\ Applying' => Applying /\ (metadata' # want' => metadata # want)
  BY <1>4 DEF DrawInv
<1>5. ASSUME NEW a \in Account, WriteCredential(a) \/ WriteSecret(a)
      PROVE  DrawInv'
  <2> DEFINE s == [version |-> want.version, password |-> applies]
  <2>1. /\ \/ credential' = [credential EXCEPT ![a] = s] /\ secret' = secret
           \/ secret' = [secret EXCEPT ![a] = s] /\ credential' = credential
        /\ metadata = want /\ UNCHANGED <<metadata, applied, control>>
    BY <1>5 DEF WriteCredential, WriteSecret
  <2>2. s.password = applies /\ applies <= applies
    BY <1>1
  <2> HIDE DEF s
  <2> QED
    BY <1>1, <2>1, <2>2 DEF DrawInv, applied, control, Applying
<1>6. ASSUME NEW a \in Account, RemoveCredential(a) \/ RemoveSecret(a)
      PROVE  DrawInv'
  <2>1. /\ Applying /\ ~Recorded(want)
        /\ \/ credential' = [credential EXCEPT ![a] = NoSink] /\ secret' = secret
           \/ secret' = [secret EXCEPT ![a] = NoSink] /\ credential' = credential
        /\ UNCHANGED <<metadata, applied, control>>
    BY <1>6 DEF RemoveCredential, RemoveSecret
  <2>2. NoSink.password = 0 /\ 0 <= applies
    BY <1>1 DEF NoSink
  <2>3. applies # 0
    BY <2>1 DEF DrawInv
  <2> QED
    BY <1>1, <2>1, <2>2, <2>3 DEF DrawInv, applied, control, Applying
<1>7. CASE ApplyStep
  <2>1. CASE WriteMetadata \/ RemoveMetadata
    BY <1>4, <2>1 DEF WriteMetadata, RemoveMetadata, Inv, PlanInv, Applying, applied, control
  <2>2. CASE DropDatabase \/ ProvisionDatabase \/ VerifyAccounts \/ ChangeLock
    BY <1>4, <2>2 DEF DropDatabase, ProvisionDatabase, VerifyAccounts, ChangeLock, Applying,
                      control, world
  <2>3. ASSUME NEW a \in Account, CreateUser(a) \/ RemoveUser(a)
        PROVE  DrawInv'
    BY <1>4, <2>3 DEF CreateUser, RemoveUser, Applying, applied, control
  <2> QED
    BY <1>5, <1>6, <1>7, <2>1, <2>2, <2>3 DEF ApplyStep
<1>8. CASE Submit \/ Operator \/ Age \/ UNCHANGED vars
  BY <1>4, <1>8 DEF Submit, Operator, SyncLogin, Age, vars, world, applied, control, Goto,
                    Applying, ApplyPC
<1>9. CASE ~ApplyStep /\ (Controller \/ ApplyFails \/ ReadFails \/ Crash)
  <2>1. \/ UNCHANGED world /\ applies' = applies + 1
        \/ UNCHANGED world /\ applies' = applies /\ pc' \notin ApplyPC
    BY <1>9 DEF Controller, LoadInventory, Decide, Retry, ReloadInventory, VerifyDatabase,
         ReleaseLock, ApplySucceeds, Settle, ApplyFails, ReadFails, Crash, Raise, Finish,
         StartApply, StartChange, AfterChange, Reload, Local, Succeed, Goto, applied, ApplyPC
  <2> QED
    BY <1>3, <1>4, <2>1 DEF world, Applying
<1> QED
  BY <1>7, <1>8, <1>9 DEF Next

\* Ending a command leaves no operation behind.
LEMMA FinishService ==
  ASSUME NEW r, Finish(r)
  PROVE  ServiceInv'
BY DEF Finish, Goto, ServiceInv, Applying, ApplyPC

\* A command that stays in its applies, or leaves them for good, keeps it.
LEMMA StayService ==
  ASSUME ServiceInv, UNCHANGED <<cmd, outcome>>, pc # "idle", pc' # "idle",
         \/ pc' = pc /\ UNCHANGED <<inv, want>>
         \/ pc' \notin ApplyPC,
         op' = op \/ op' \notin {"create_database", "delete_database"}
  PROVE  ServiceInv'
BY DEF ServiceInv, Applying, ApplyPC, Changes

\* Starting an apply keeps it.
LEMMA StartService ==
  ASSUME ServiceInv, pc # "idle", NEW p \in ApplyPC, NEW i, NEW w, NEW o,
         StartApply(p, i, w, o),
         p \in {"acquiring", "changing"} => Changes,
         o = "create_database" => cmd.kind = "AddDatabase",
         o = "delete_database" => cmd.kind = "DeleteDatabase" /\ p = "changing",
         p = "changing" /\ cmd.kind \in {"AddDatabase", "DeleteDatabase"} => w = i
  PROVE  ServiceInv'
BY DEF StartApply, Goto, ServiceInv, Applying, ApplyPC, Changes

\* The first apply of a change plans the operation its command is about.
LEMMA StartChangeService ==
  ASSUME ServiceInv, pc # "idle", Changes, StartChange
  PROVE  ServiceInv'
BY StartService DEF StartChange, FirstOperation, Planned, ApplyPC

\* An exception keeps it.
LEMMA RaiseService ==
  ASSUME ServiceInv, pc # "idle", Raise
  PROVE  ServiceInv'
<1>1. CASE Protected
  BY <1>1, StayService DEF Raise, Goto, applied, ApplyPC
<1>2. CASE ~Protected
  BY <1>2, FinishService DEF Raise
<1> QED
  BY <1>1, <1>2

\* Every step of Terraform keeps it.
LEMMA ApplyStepService ==
  ASSUME ServiceInv, ApplyStep
  PROVE  ServiceInv'
<1>1. pc # "idle" /\ UNCHANGED <<pc, cmd, outcome, inv, want>>
  BY DEF ApplyStep, WriteMetadata, RemoveMetadata, DropDatabase, ProvisionDatabase,
         VerifyAccounts, ChangeLock, WriteCredential, WriteSecret, CreateUser,
         RemoveUser, RemoveCredential, RemoveSecret, Applying, ApplyPC, control, applied
<1>2. op' = op \/ op' \notin {"create_database", "delete_database"}
  BY DEF ApplyStep, WriteMetadata, RemoveMetadata, DropDatabase, ProvisionDatabase,
         VerifyAccounts, ChangeLock, WriteCredential, WriteSecret, CreateUser,
         RemoveUser, RemoveCredential, RemoveSecret, control, applied
<1> QED
  BY <1>1, <1>2, StayService

\* Every step of the command keeps it.
LEMMA ControllerService ==
  ASSUME Inv, ServiceInv, Controller
  PROVE  ServiceInv'
<1>1. CASE LoadInventory \/ ReloadInventory
  BY <1>1, StayService DEF LoadInventory, ReloadInventory, Reload, Goto, ApplyPC
<1>2. CASE Decide
  <2>1. CASE StartApply("applying", inv, inv, "none")
    BY <1>2, <2>1, StartService DEF Decide, ApplyPC
  <2>2. CASE Changes /\ StartApply("acquiring", inv, inv, "acquire")
    BY <1>2, <2>2, StartService DEF Decide, ApplyPC
  <2>3. CASE Changes /\ StartChange
    BY <1>2, <2>3, StartChangeService DEF Decide
  <2> QED
    BY <1>2, <2>1, <2>2, <2>3, FinishService DEF Decide
<1>3. CASE Retry
  BY <1>3, StartService DEF Retry, Inv, PlaceInv, Changes, ApplyPC
<1>4. CASE VerifyDatabase \/ ReleaseLock
  <2>1. CASE VerifyDatabase
    BY <2>1, StartService DEF VerifyDatabase, ApplyPC
  <2>2. CASE ReleaseLock
    BY <2>2, StartService DEF ReleaseLock, ApplyPC
  <2> QED
    BY <1>4, <2>1, <2>2
<1>5. CASE Settle
  BY <1>5, FinishService DEF Settle, Succeed
<1>6. CASE ApplySucceeds
  <2>1. pc \in ApplyPC /\ pc # "idle"
    BY <1>6 DEF ApplySucceeds, Applying, ApplyPC
  <2>2. CASE pc = "acquiring" /\ StartChange
    BY <2>2, StartChangeService DEF ServiceInv
  <2>3. CASE pc = "changing" /\ AfterChange
    <3>1. CASE \E i \in {NewDatabase, NoDatabase} : StartApply("recording", i, i, "none")
      BY <2>3, <3>1, StartService DEF ApplyPC
    <3>2. CASE Local("reload")
      BY <2>3, <3>2, StayService DEF Local, Goto, applied, ApplyPC
    <3> QED
      BY <2>3, <3>1, <3>2 DEF AfterChange
  <2>4. CASE \E p \in {"reload", "waiting", "finally", "settling"} : Local(p)
    BY <2>1, <2>4, StayService DEF Local, Goto, applied, ApplyPC
  <2>5. CASE \E r \in {"failed", "succeeded"} : Finish(r)
    BY <2>5, FinishService
  <2> QED
    BY <1>6, <2>1, <2>2, <2>3, <2>4, <2>5 DEF ApplySucceeds, Succeed
<1> QED
  BY <1>1, <1>2, <1>3, <1>4, <1>5, <1>6, ApplyStepService DEF Controller

\* It is inductive.
LEMMA NextService ==
  ASSUME TypeOK, Inv, ServiceInv, [Next]_vars
  PROVE  ServiceInv'
<1>1. CASE Submit
  BY <1>1 DEF Submit, Goto, applied, ServiceInv, Applying, ApplyPC
<1>2. CASE ApplyFails
  <2>1. CASE Raise
    BY <1>2, <2>1, RaiseService DEF ApplyFails, Applying, ApplyPC
  <2>2. CASE ~Raise
    BY <1>2, <2>2, StayService DEF ApplyFails, Goto, applied, Applying, ApplyPC
  <2> QED
    BY <2>1, <2>2
<1>3. CASE ReadFails
  BY <1>3, RaiseService DEF ReadFails, ReadPC
<1>4. CASE Crash
  BY <1>4, FinishService DEF Crash
<1>5. CASE Operator \/ Age \/ UNCHANGED vars
  BY <1>5 DEF Operator, SyncLogin, Age, vars, applied, control, ServiceInv, Applying, Changes
<1> QED
  BY <1>1, <1>2, <1>3, <1>4, <1>5, ControllerService DEF Next

\* A step that ends the command replies; what it says is so.
LEMMA EndReplies ==
  ASSUME ServiceInv, pc # "idle", pc' = "idle", UNCHANGED <<world, applies>>,
         outcome' \in {"succeeded", "failed", "crashed"},
         outcome' = "succeeded" => Service!Holds(cmd.kind)
  PROVE  Service!Next
<1>1. cmd.kind # "none"
  BY CredentialAssumption DEF ServiceInv
<1>2. [a \in Account |-> Valid(a)]' = [a \in Account |-> Valid(a)]
  BY DEF Valid, Agree, Recorded, world
<1>3. Service!Reply(outcome')
  BY <1>1, <1>2 DEF Service!Reply, Service!Holds, world
<1> QED
  BY <1>3 DEF Service!Next

\* A step that only takes the command on is none, or draws the passwords of its apply.
LEMMA MoveDraws ==
  ASSUME ServiceInv, pc # "idle", pc' # "idle", UNCHANGED <<world, cmd, outcome>>,
         applies' \in {applies, applies + 1}
  PROVE  Service!Next \/ UNCHANGED Service!vars
<1>1. cmd.kind # "none"
  BY CredentialAssumption DEF ServiceInv
<1>2. [a \in Account |-> Valid(a)]' = [a \in Account |-> Valid(a)]
  BY DEF Valid, Agree, Recorded, world
<1>3. CASE applies' = applies
  BY <1>2, <1>3 DEF Service!vars, world
<1>4. CASE applies' = applies + 1
  BY <1>1, <1>2, <1>4 DEF Service!Draw, Service!Next, world
<1> QED
  BY <1>3, <1>4

\* What the steps of an apply have in common.
LEMMA ApplyRequest ==
  ASSUME ServiceInv, Applying, UNCHANGED control
  PROVE  /\ pc # "idle" /\ pc' # "idle" /\ cmd' = cmd /\ outcome' = outcome
         /\ cmd.kind # "none"
BY CredentialAssumption DEF ServiceInv, Applying, ApplyPC, control

\* Writing the record registers a new database, moves the version of a rotation
\* or sets the Owner policy, each for the command it is the purpose of.
LEMMA WriteMetadataService ==
  ASSUME TypeOK, Inv, CommandInv, ServiceInv, DrawInv, WriteMetadata
  PROVE  Service!Next \/ UNCHANGED Service!vars
<1>1. /\ metadata' = want /\ Recorded(want) /\ metadata # want
      /\ UNCHANGED <<credential, secret, user, login, materialized, locked, applied, control>>
  BY DEF WriteMetadata
<1>2. /\ pc \in {"changing", "recording"}
      /\ pc' # "idle" /\ cmd' = cmd /\ outcome' = outcome /\ applies' = applies
  BY <1>1, StillToRecord DEF WriteMetadata, control, applied
<1>3. metadata \in Metadata /\ want \in Metadata
  BY DEF TypeOK
<1>4. \A a \in Account : credential[a].version \in Nat /\ credential[a].version <= metadata.version
  BY DEF Inv, MetadataLeads, TypeOK, Sink
<1>5. CASE pc = "recording"
  <2>1. cmd.kind = "AddDatabase" /\ want = NewDatabase /\ metadata = NoDatabase /\ materialized
    <3>1. cmd.kind = "AddDatabase" /\ want = NewDatabase
      BY <1>1, <1>5 DEF Inv, PlanInv, Recorded, NoDatabase
    <3> QED
      BY <1>1, <1>5, <3>1 DEF CommandInv, OperationInv
  <2>2. \A a \in Account : credential[a].version # 1
    <3>1. metadata.version = 0
      BY <2>1 DEF NoDatabase
    <3>2. \A m, n \in Nat : m <= n /\ n = 0 => m # 1
      OBVIOUS
    <3> QED
      BY <1>3, <1>4, <3>1, <3>2 DEF Metadata
  <2>3. \A a \in Account : Valid(a) = {} /\ Valid(a)' = {}
    BY <1>1, <2>1, <2>2 DEF Valid, Recorded, NoDatabase, NewDatabase
  <2>4. Service!Record
    BY <1>1, <1>2, <1>5, <2>1, <2>3 DEF Service!Record, NoDatabase, NewDatabase
  <2> QED
    BY <2>4 DEF Service!Next
<1>6. CASE pc = "changing"
  <2>1. inv = metadata /\ Recorded(metadata)
    BY <1>1, <1>3, <1>6 DEF Inv, PlanInv, PlaceInv, ServiceInv, Recorded
  <2>2. CASE cmd.kind = "RotatePasswords"
    <3>1. want.version = metadata.version + 1 /\ want.owner_disabled \in {metadata.owner_disabled, TRUE}
      BY <1>3, <1>6, <2>1, <2>2 DEF Inv, PlanInv, CommandInv, PolicyInv, Metadata
    <3>2. \A a \in Account : credential[a].version # want.version
      <4>1. \A m, n \in Nat : m <= n => m # n + 1
        OBVIOUS
      <4> QED
        BY <1>3, <1>4, <3>1, <4>1 DEF Metadata
    <3>3. \A a \in Account : Valid(a)' = {}
      BY <1>1, <3>2 DEF Valid
    <3>4. \A a \in Account : applies \notin Valid(a)
      BY <1>1 DEF DrawInv, WriteMetadata, Valid
    <3>5. Service!Rotate
      BY <1>1, <1>2, <1>6, <2>1, <2>2, <3>1, <3>3, <3>4 DEF Service!Rotate, Recorded
    <3> QED
      BY <3>5 DEF Service!Next
  <2>3. CASE cmd.kind # "RotatePasswords"
    <3>1. want.version = metadata.version /\ cmd.kind \in {"DisableOwner", "EnableOwner"}
      BY <1>1, <1>6, <2>1, <2>3, CredentialAssumption DEF Inv, PlanInv, ServiceInv, Changes
    <3>2. want.owner_disabled = (cmd.kind = "DisableOwner")
      BY <1>3, <1>6, <3>1 DEF CommandInv, PolicyInv, Disables, Metadata
    <3>3. \A a \in Account : Valid(a)' = Valid(a)
      BY <1>1, <3>1 DEF Valid, Agree, Recorded
    <3>4. Service!SetOwner
      BY <1>1, <1>2, <1>6, <2>1, <3>1, <3>2, <3>3 DEF Service!SetOwner, Recorded
    <3> QED
      BY <3>4 DEF Service!Next
  <2> QED
    BY <2>2, <2>3
<1> QED
  BY <1>2, <1>5, <1>6

\* Only a deletion, which has dropped the database, removes anything.
LEMMA OnlyDeletions ==
  ASSUME TypeOK, Inv, CommandInv, ServiceInv, Applying, ~Recorded(want), Recorded(metadata)
  PROVE  cmd.kind = "DeleteDatabase" /\ ~materialized
<1>1. pc \in {"changing", "recording"} /\ want # metadata
  BY StillToRecord
<1>2. pc # "changing"
  BY <1>1 DEF Inv, PlanInv, PlaceInv, TypeOK, Metadata, Recorded
<1>3. cmd.kind = "DeleteDatabase"
  BY <1>1, <1>2 DEF Inv, PlanInv, PlaceInv, Recorded, NewDatabase
<1> QED
  BY <1>1, <1>2, <1>3 DEF CommandInv, OperationInv

\* Removing the record ends a deletion.
LEMMA RemoveMetadataService ==
  ASSUME TypeOK, Inv, CommandInv, ServiceInv, RemoveMetadata
  PROVE  Service!Next
<1>1. /\ metadata' = NoDatabase /\ ~Recorded(want) /\ Recorded(metadata) /\ Applying
      /\ \A a \in Account : credential[a] = NoSink /\ secret[a] = NoSink
      /\ UNCHANGED <<credential, secret, user, login, materialized, locked, applied, control>>
  BY DEF RemoveMetadata, Inv, PlanInv
<1>2. cmd.kind = "DeleteDatabase" /\ ~materialized
  BY <1>1, OnlyDeletions
<1>3. \A a \in Account : Valid(a) = {} /\ Valid(a)' = {}
  BY <1>1 DEF Valid, Recorded, NoSink, NoDatabase
<1>4. Service!Forget
  BY <1>1, <1>2, <1>3, ApplyRequest DEF Service!Forget, NoDatabase, applied
<1> QED
  BY <1>4 DEF Service!Next

\* Writing a password makes it valid when it is the second of the two, and never
\* touches one that is valid.
LEMMA WriteSinkService ==
  ASSUME TypeOK, Inv, ServiceInv, NEW a \in Account, WriteCredential(a) \/ WriteSecret(a)
  PROVE  Service!Next \/ UNCHANGED Service!vars
<1> DEFINE s == [version |-> want.version, password |-> applies]
<1>1. /\ Recorded(metadata) /\ metadata = want /\ Applying
      /\ \/ /\ credential[a].version # metadata.version
            /\ credential' = [credential EXCEPT ![a] = s] /\ secret' = secret
         \/ /\ secret[a].version # metadata.version
            /\ secret' = [secret EXCEPT ![a] = s] /\ credential' = credential
      /\ UNCHANGED <<metadata, user, login, materialized, locked, applied, control>>
  BY DEF WriteCredential, WriteSecret
<1>2. s.version = want.version /\ s.password = applies
  OBVIOUS
<1> HIDE DEF s
<1>3. Valid(a) = {}
  BY <1>1 DEF Valid, Agree
<1>4. credential \in [Account -> Sink] /\ secret \in [Account -> Sink]
  BY DEF TypeOK
<1>5. \A b \in Account : b # a => Valid(b)' = Valid(b)
  BY <1>1, <1>4 DEF Valid, Agree
<1>6. Valid(a)' \in {{}, {applies}}
  BY <1>1, <1>2, <1>4 DEF Valid, Agree
<1>7. CASE Valid(a)' = {}
  <2>1. [b \in Account |-> Valid(b)]' = [b \in Account |-> Valid(b)]
    BY <1>3, <1>5, <1>7
  <2> QED
    BY <1>1, <2>1, ApplyRequest DEF Service!vars, applied
<1>8. CASE Valid(a)' = {applies}
  <2>1. [b \in Account |-> Valid(b)]' = [[b \in Account |-> Valid(b)] EXCEPT ![a] = {applies}]
    BY <1>5, <1>8
  <2>2. Service!Settle(a)
    BY <1>1, <1>3, <2>1, ApplyRequest DEF Service!Settle, Recorded, applied
  <2> QED
    BY <2>2 DEF Service!Next
<1> QED
  BY <1>6, <1>7, <1>8

\* Removing a password does, when it is valid, what a deletion is for.
LEMMA RemoveSinkService ==
  ASSUME TypeOK, Inv, CommandInv, ServiceInv, NEW a \in Account,
         RemoveCredential(a) \/ RemoveSecret(a)
  PROVE  Service!Next \/ UNCHANGED Service!vars
<1>1. /\ ~Recorded(want) /\ Applying
      /\ \/ credential' = [credential EXCEPT ![a] = NoSink] /\ secret' = secret
         \/ secret' = [secret EXCEPT ![a] = NoSink] /\ credential' = credential
      /\ UNCHANGED <<metadata, user, login, materialized, locked, applied, control>>
  BY DEF RemoveCredential, RemoveSecret
<1>2. credential \in [Account -> Sink] /\ secret \in [Account -> Sink]
  BY DEF TypeOK
<1>3. \A b \in Account : b # a => Valid(b)' = Valid(b)
  BY <1>1, <1>2 DEF Valid, Agree
<1>4. Valid(a)' = {}
  <2>1. credential'[a].version = 0 \/ secret'[a].version = 0
    BY <1>1, <1>2 DEF NoSink
  <2> QED
    BY <1>1, <2>1 DEF Valid, Agree, Recorded
<1>5. CASE Valid(a) = {}
  <2>1. [b \in Account |-> Valid(b)]' = [b \in Account |-> Valid(b)]
    BY <1>3, <1>4, <1>5
  <2> QED
    BY <1>1, <2>1, ApplyRequest DEF Service!vars, applied
<1>6. CASE Valid(a) # {}
  <2>1. cmd.kind = "DeleteDatabase" /\ ~materialized
    BY <1>1, <1>6, OnlyDeletions DEF Valid
  <2>2. [b \in Account |-> Valid(b)]' = [[b \in Account |-> Valid(b)] EXCEPT ![a] = {}]
    BY <1>3, <1>4
  <2>3. Service!Erase(a)
    BY <1>1, <2>1, <2>2, ApplyRequest DEF Service!Erase, applied
  <2> QED
    BY <2>3 DEF Service!Next
<1> QED
  BY <1>5, <1>6

\* The hooks drop the database a deletion is about, and create one that is added
\* or on record.
LEMMA HookService ==
  ASSUME TypeOK, Inv, CommandInv, ServiceInv, DropDatabase \/ ProvisionDatabase
  PROVE  Service!Next
<1>1. /\ UNCHANGED <<metadata, credential, secret, applies, control>> /\ Applying
  BY DEF DropDatabase, ProvisionDatabase
<1>2. [a \in Account |-> Valid(a)]' = [a \in Account |-> Valid(a)]
  BY <1>1 DEF Valid, Agree, Recorded
<1>3. CASE DropDatabase
  <2>1. cmd.kind = "DeleteDatabase" /\ pc = "changing" /\ ~materialized'
    BY <1>1, <1>3 DEF DropDatabase, ServiceInv
  <2>2. metadata.version > 0
    BY <2>1 DEF Inv, PlanInv, PlaceInv, Recorded
  <2>3. Service!Drop
    BY <1>1, <1>2, <1>3, <2>1, <2>2, ApplyRequest DEF Service!Drop, DropDatabase, TypeOK
  <2> QED
    BY <2>3 DEF Service!Next
<1>4. CASE ProvisionDatabase
  <2>1. op = "create_database" => cmd.kind = "AddDatabase"
    BY DEF ServiceInv
  <2>2. Recorded(want) => cmd.kind = "AddDatabase" \/ metadata.version > 0
    <3>1. CASE pc = "changing"
      BY <3>1 DEF Inv, PlanInv, PlaceInv, Recorded
    <3>2. CASE pc = "recording"
      BY <3>2 DEF Inv, PlanInv, Recorded, NoDatabase
    <3> QED
      BY <1>1, <3>1, <3>2, StillToRecord DEF Recorded
  <2>3. Service!Create
    BY <1>1, <1>2, <1>4, <2>1, <2>2, ApplyRequest DEF Service!Create, ProvisionDatabase
  <2> QED
    BY <2>3 DEF Service!Next
<1> QED
  BY <1>3, <1>4

\* MongoDBUsers, logins, the deployment lock and the rotation interval are none of
\* the service.
LEMMA OtherService ==
  ASSUME UNCHANGED <<metadata, credential, secret, materialized, applies, pc, cmd, outcome>>
  PROVE  UNCHANGED Service!vars
BY DEF Service!vars, Valid, Agree, Recorded

\* Every step of Terraform implements one of the service, or none.
LEMMA ApplyStepServes ==
  ASSUME TypeOK, Inv, CommandInv, ServiceInv, DrawInv, ApplyStep
  PROVE  Service!Next \/ UNCHANGED Service!vars
<1>1. CASE VerifyAccounts \/ ChangeLock
  BY <1>1, OtherService DEF VerifyAccounts, ChangeLock, control, world
<1>2. ASSUME NEW a \in Account, CreateUser(a) \/ RemoveUser(a)
      PROVE  UNCHANGED Service!vars
  BY <1>2, OtherService DEF CreateUser, RemoveUser, control, applied
<1> QED
  BY <1>1, <1>2, WriteMetadataService, RemoveMetadataService, WriteSinkService,
     RemoveSinkService, HookService DEF ApplyStep

\* What a success says is so.
LEMMA SuccessHolds ==
  ASSUME TypeOK, Inv, CommandInv, ServiceInv, [Next]_vars, pc # "idle",
         outcome' = "succeeded"
  PROVE  Service!Holds(cmd.kind)
<1>1. outcome = "none"
  BY DEF ServiceInv
<1>2. CASE Decide
  <2>1. AlreadyDone /\ ~Refused /\ inv = metadata
    BY <1>1, <1>2 DEF Decide, Finish, StartApply, StartChange, Inv, PlanInv
  <2>2. Changes => ((cmd.kind = "AddDatabase") # Recorded(metadata))
    BY <2>1 DEF Refused
  <2> QED
    BY <2>1, <2>2 DEF AlreadyDone, Changes, Recorded, Service!Holds
<1>3. CASE ~Decide /\ Changes
  <2>1. Done /\ Asked
    BY <1>1, <1>3, SuccessAsked
  <2>2. cmd.kind \in {"AddDatabase", "RotatePasswords"} =>
          metadata.version > 0 /\ \A a \in Account : Valid(a) # {}
    BY <2>1 DEF Inv, AgreeInv, Done, Valid, Recorded
  <2>3. cmd.kind = "DeleteDatabase" => metadata.version = 0 /\ ~materialized
    BY <2>1 DEF CommandInv, GoneInv, NoDatabase
  <2>4. /\ cmd.kind = "DisableOwner" => metadata.owner_disabled
        /\ cmd.kind = "EnableOwner" => metadata.version > 0 /\ ~metadata.owner_disabled
    BY <2>1 DEF CommandInv, PolicyInv, Disables, Recorded
  <2> QED
    BY <2>2, <2>3, <2>4 DEF Service!Holds
<1>4. CASE ~Changes
  BY <1>4 DEF Changes, Service!Holds
<1> QED
  BY <1>2, <1>3, <1>4

\* Ending a command, or taking it on.
LEMMA CommandServes ==
  ASSUME TypeOK, Inv, CommandInv, ServiceInv, Next,
         ~Submit, ~ApplyStep, ~Operator, ~Age
  PROVE  Service!Next \/ UNCHANGED Service!vars
<1>1. pc # "idle"
  BY DEF Next, Controller, LoadInventory, Decide, Retry, ReloadInventory, VerifyDatabase,
         ReleaseLock, ApplySucceeds, Settle, ApplyFails, ReadFails, Crash, Applying,
         ApplyPC, ReadPC
<1>2. UNCHANGED <<world, cmd>> /\ applies' \in {applies, applies + 1}
  BY DEF Next, Controller, LoadInventory, Decide, Retry, ReloadInventory, VerifyDatabase,
         ReleaseLock, ApplySucceeds, Settle, ApplyFails, ReadFails, Crash, Raise, Finish,
         StartApply, StartChange, AfterChange, Reload, Local, Succeed, applied
<1>3. \/ pc' # "idle" /\ outcome' = outcome
      \/ /\ pc' = "idle" /\ applies' = applies
         /\ outcome' \in {"succeeded", "failed", "crashed"}
  BY DEF Next, Controller, LoadInventory, Decide, Retry, ReloadInventory, VerifyDatabase,
         ReleaseLock, ApplySucceeds, Settle, ApplyFails, ReadFails, Crash, Raise, Finish,
         StartApply, StartChange, AfterChange, Reload, Local, Succeed, Goto, applied
<1>4. CASE pc' = "idle"
  BY <1>1, <1>2, <1>3, <1>4, SuccessHolds, EndReplies
<1> QED
  BY <1>1, <1>2, <1>3, <1>4, MoveDraws

\* The commands on a database implement DatabaseService: one at a time, answered
\* with what is so, and a valid password stays valid until the customer asks for a
\* rotation or a deletion, whatever is interrupted, rerun or reconciled.
THEOREM ServiceCorrect == Spec => ServiceSpec
<1>1. Init => ServiceInv /\ DrawInv /\ Service!Init
  <2> SUFFICES ASSUME Init
               PROVE  ServiceInv /\ DrawInv /\ Service!Init
    OBVIOUS
  <2>1. ServiceInv
    BY DEF Init, ServiceInv, Applying, ApplyPC
  <2>2. DrawInv
    BY DEF Init, DrawInv, NoSink, Applying, ApplyPC
  <2>3. \A a \in Account : Valid(a) = {}
    <3>1. metadata = NoDatabase
      BY DEF Init
    <3>2. ~Recorded(metadata)
      BY <3>1 DEF Recorded, NoDatabase
    <3> QED
      BY <3>2 DEF Valid
  <2> QED
    BY <2>1, <2>2, <2>3 DEF Init, Service!Init, NoDatabase
<1>2. CredentialInv /\ CommandInv /\ ServiceInv /\ DrawInv /\ [Next]_vars => ServiceInv' /\ DrawInv'
  BY NextService, NextDraw DEF CredentialInv, Inv
<1>3. CredentialInv /\ CommandInv /\ ServiceInv /\ DrawInv /\ [Next]_vars => [Service!Next]_(Service!vars)
  <2> SUFFICES ASSUME TypeOK, Inv, CommandInv, ServiceInv, DrawInv, [Next]_vars
               PROVE  Service!Next \/ UNCHANGED Service!vars
    BY DEF CredentialInv, Inv
  <2>1. CASE Submit
    <3>1. PICK k \in Kinds : cmd' = [kind |-> k, due |-> aged]
      BY <2>1 DEF Submit
    <3>2. [a \in Account |-> Valid(a)]' = [a \in Account |-> Valid(a)]
      BY <2>1 DEF Submit, Valid, Agree, Recorded, world
    <3>3. Service!Ask(k)
      BY <2>1, <3>1, <3>2 DEF Submit, Goto, Service!Ask, world, applied
    <3> QED
      BY <3>3 DEF Service!Next
  <2>2. CASE Operator \/ Age \/ UNCHANGED vars
    BY <2>2, OtherService DEF Operator, SyncLogin, Age, vars, world, applied, control
  <2> QED
    BY <2>1, <2>2, ApplyStepServes, CommandServes
<1> QED
  BY <1>1, <1>2, <1>3, CommandCorrect, PTL DEF Spec, ServiceSpec, Service!Spec
=============================================================================
