---------------------- MODULE OperationJournalProofs ----------------------
(***************************************************************************)
(* Proofs about OperationJournal, for any number of operations, of readers *)
(* among them and of kills: the inductive invariant JournalInv, and from   *)
(* it what an administrator and the double-submit guard may conclude from  *)
(* a record although three processes write it without a lock.              *)
(***************************************************************************)
EXTENDS OperationJournal, TLAPS

-----------------------------------------------------------------------------
(* The inductive invariant.  It speaks of one operation at a time: the      *)
(* processes of two operations share no file.                               *)

Open      == {"Queued", "In Progress"}
Saving(p) == pc[p] \in SavePC \cup ArchivePC
Ended(o)  == pc["wk", o] \in {"exited", "killed"}

\* Which places the processes can be in, next to each other.
PlaceInv(o) ==
  /\ pc["fg", o] \in {"idle", "create", "spawn", "no_worker", "no_worker_archive",
                      "reload", "pid", "done", "error", "killed"}
  /\ pc["wk", o] \in {"idle", "boot", "running", "action", "load_success",
                      "load_failure", "succeeded", "failed", "succeeded_archive",
                      "failed_archive", "exited", "killed"}
  /\ pc["rd", o] \in {"idle", "check", "interrupted_archive"}
  /\ pc["fg", o] \in {"idle", "create", "spawn", "no_worker", "no_worker_archive"} =>
       pc["wk", o] = "idle"
  /\ pc["fg", o] \in {"reload", "pid", "done"} => pc["wk", o] # "idle"
  /\ pc["fg", o] = "killed" => ForegroundKilled
  /\ \A r \in Role : staged[r, o] => Saving(<<r, o>>)

\* Before the worker is started only the foreground writes, and no pid.
UnstartedInv(o) ==
  pc["wk", o] = "idle" =>
    /\ action[o] = "none"
    /\ ~journal[o].pid /\ ~temp[o].pid /\ \A r \in Role : ~mine[r, o].pid
    /\ pc["fg", o] = "create" =>
         /\ mine["fg", o].result = "Queued"
         /\ staged["fg", o] => temp[o].result = "Queued"
    /\ pc["fg", o] = "spawn" => journal[o].result = "Queued" /\ temp[o] = NoRecord
    /\ pc["fg", o] \in {"no_worker", "no_worker_archive"} =>
         /\ mine["fg", o].result = "Failed"
         /\ staged["fg", o] => temp[o].result = "Failed"
    /\ pc["fg", o] = "error" => journal[o].result = "Failed"

\* Until the action ends, whatever anybody may yet write reads In Progress.
VisibleInv(o) ==
  pc["wk", o] \in {"boot", "running", "action"} =>
    /\ action[o] # "succeeded"
    /\ journal[o].result \in Open
    /\ temp[o] # NoRecord => temp[o].result \in Open
    /\ Saving(<<"fg", o>>) => mine["fg", o].result \in Open
    /\ Saving(<<"wk", o>>) => mine["wk", o].result \in Open

\* Who is called interrupted has been started and has ended.
EndedInv(o) ==
  pc["rd", o] = "interrupted_archive" \/ shown[o] = "Interrupted" => Ended(o)

\* A success that anybody holds, has staged or has shown is one of the action.
SuccessInv(o) ==
  \/ journal[o].result = "Succeeded" \/ temp[o].result = "Succeeded"
  \/ \E r \in Role : mine[r, o].result = "Succeeded"
  \/ shown[o] = "Succeeded" \/ pc["wk", o] = "load_success"
  => action[o] = "succeeded"

\* Once the worker is started every record that is written has its pid, and
\* whoever has gone on from a save, its own or one that another process renamed,
\* leaves one behind.
PidInv(o) ==
  pc["wk", o] # "idle" =>
    /\ temp[o] # NoRecord => temp[o].pid
    /\ \A r \in Role : /\ Saving(<<r, o>>) => mine[r, o].pid
                       /\ staged[r, o] /\ temp[o] = NoRecord => journal[o].pid
    /\ pc["fg", o] \in {"done", "error"} => journal[o].pid
    /\ pc["wk", o] \notin {"boot", "running", "killed"} => journal[o].pid

OpInv(o) == /\ PlaceInv(o) /\ UnstartedInv(o) /\ VisibleInv(o)
            /\ EndedInv(o) /\ SuccessInv(o) /\ PidInv(o)

JournalInv == \A o \in Op : OpInv(o)

-----------------------------------------------------------------------------
(* Types.                                                                   *)

\* The processes of an operation, and a record before there is one.
LEMMA Basics ==
  /\ \A r \in Role, o \in Op : <<r, o>> \in Proc
  /\ Role = {"fg", "wk", "rd"}
  /\ NoRecord \in Record /\ NoRecord.result = "none" /\ ~NoRecord.pid
BY DEF Proc, Role, NoRecord, Record

\* Init has the right types.
LEMMA InitType == Init => TypeOK
BY Basics DEF Init, TypeOK, PC, SavePC, ArchivePC

\* Loading a record keeps TypeOK.
LEMMA LoadType ==
  ASSUME TypeOK, NEW p \in Proc, NEW q \in PC, NEW rec \in Record, Load(p, q, rec)
  PROVE  TypeOK'
BY DEF Load, Goto, TypeOK

\* A process that saves goes on to one of the places.
LEMMA SavedType ==
  ASSUME TypeOK, NEW p \in Proc
  PROVE  /\ pc[p] \in SavePC \cup ArchivePC => SavedPC(p) \in PC
         /\ AfterMissing(p) \in PC
<1>1. {"exited", "spawn", "done", "no_worker_archive", "action", "succeeded_archive",
       "failed_archive", "error", "idle", "load_failure"} \subseteq PC
  BY DEF PC, SavePC, ArchivePC
<1>2. pc[p] \in SavePC \cup ArchivePC => SavedPC(p) \in PC
  BY <1>1 DEF SavedPC, AfterSave, SavePC, ArchivePC
<1>3. AfterMissing(p) \in PC
  BY <1>1 DEF AfterMissing
<1> QED
  BY <1>2, <1>3

\* Where a process saves, and only there, it has a temporary file to rename.
StagedInv == \A p \in Proc : staged[p] => pc[p] \in SavePC \cup ArchivePC

\* A save keeps TypeOK.
LEMMA SaveType ==
  ASSUME TypeOK, StagedInv, NEW r \in Role, NEW o \in Op, Save(<<r, o>>)
  PROVE  TypeOK'
<1> DEFINE p == <<r, o>>
<1>1. p \in Proc /\ p[1] = r /\ p[2] = o
  BY DEF Proc
<1>2. CASE WriteTemp(p)
  <2>1. mine' \in [Proc -> Record]
    <3>1. mine[p] \in Record
      BY <1>1 DEF TypeOK
    <3>2. [mine[p] EXCEPT !.archived = @ \/ pc[p] \in ArchivePC] \in Record
      BY <3>1 DEF Record
    <3>3. mine' = [mine EXCEPT ![p] = [mine[p] EXCEPT !.archived = @ \/ pc[p] \in ArchivePC]]
      BY <1>1, <1>2 DEF WriteTemp, TypeOK
    <3> QED
      BY <1>1, <3>2, <3>3 DEF TypeOK
  <2>2. temp' \in [Op -> Record] /\ staged' \in [Proc -> BOOLEAN]
    BY <1>1, <1>2, <2>1 DEF WriteTemp, TypeOK
  <2> QED
    BY <1>2, <2>1, <2>2 DEF WriteTemp, TypeOK
<1>3. CASE Replace(p)
  <2>1. SavedPC(p) \in PC
    BY <1>1, <1>3, SavedType DEF Replace, StagedInv
  <2> QED
    BY <1>1, <1>3, <2>1, Basics DEF Replace, Goto, TypeOK
<1>4. CASE ReplaceMissing(p)
  BY <1>1, <1>4, SavedType DEF ReplaceMissing, Goto, TypeOK
<1> QED
  BY <1>2, <1>3, <1>4 DEF Save

\* Only the three results of effective_result and the stored ones are shown.
LEMMA EffectiveType ==
  ASSUME NEW rec \in Record, NEW o \in Op
  PROVE  EffectiveResult(rec, o) \in {"none", "In Progress", "Succeeded", "Failed",
                                      "Interrupted"}
BY DEF EffectiveResult, Record

\* Every step keeps TypeOK.
LEMMA NextType ==
  ASSUME TypeOK, StagedInv, [Next]_vars
  PROVE  TypeOK'
<1>1. CASE UNCHANGED vars
  BY <1>1 DEF vars, TypeOK
<1>2. ASSUME NEW o \in Op,
             \/ Submit(o) \/ Foreground(o) \/ Worker(o) \/ Reader(o)
             \/ \E r \in {"fg", "wk"} : Kill(<<r, o>>)
      PROVE  TypeOK'
  <2>1. /\ <<"fg", o>> \in Proc /\ <<"wk", o>> \in Proc /\ <<"rd", o>> \in Proc
        /\ journal[o] \in Record /\ mine["fg", o] \in Record /\ mine["rd", o] \in Record
    <3>1. <<"fg", o>> \in Proc /\ <<"wk", o>> \in Proc /\ <<"rd", o>> \in Proc
      BY Basics
    <3> QED
      BY <3>1 DEF TypeOK
  <2>2. {"create", "reload", "boot", "error", "no_worker", "pid", "running", "load_success",
         "load_failure", "succeeded", "failed", "check", "idle", "interrupted_archive",
         "killed"} \subseteq PC
    BY DEF PC, SavePC, ArchivePC
  <2>3. CASE Submit(o)
    <3>1. [NoRecord EXCEPT !.result = "Queued"] \in Record
      BY DEF NoRecord, Record
    <3> QED
      BY <2>1, <2>2, <2>3, <3>1, LoadType DEF Submit
  <2>4. CASE StartWorker(o)
    BY <2>1, <2>2, <2>4 DEF StartWorker, TypeOK
  <2>5. CASE StartWorkerFails(o)
    <3>1. [mine["fg", o] EXCEPT !.result = "Failed"] \in Record
      BY <2>1 DEF Record
    <3> QED
      BY <2>1, <2>2, <2>5, <3>1, LoadType DEF StartWorkerFails
  <2>6. CASE ReloadForPid(o)
    <3>1. [journal[o] EXCEPT !.pid = TRUE,
                             !.result = IF @ = "Queued" THEN "In Progress" ELSE @] \in Record
      <4>1. CASE journal[o].result = "Queued"
        BY <2>1, <4>1 DEF Record
      <4>2. CASE journal[o].result # "Queued"
        BY <2>1, <4>2 DEF Record
      <4> QED
        BY <4>1, <4>2
    <3> QED
      BY <2>1, <2>2, <2>6, <3>1, LoadType DEF ReloadForPid
  <2>7. CASE MarkRunning(o)
    <3>1. [journal[o] EXCEPT !.result = "In Progress", !.pid = TRUE] \in Record
      BY <2>1 DEF Record
    <3> QED
      BY <2>1, <2>2, <2>7, <3>1, LoadType DEF MarkRunning
  <2>8. CASE ActionEnds(o)
    BY <2>1, <2>2, <2>8 DEF ActionEnds, Goto, TypeOK
  <2>9. CASE MarkSucceeded(o) \/ MarkFailed(o)
    <3>1. /\ [journal[o] EXCEPT !.result = "Succeeded"] \in Record
          /\ [journal[o] EXCEPT !.result = "Failed"] \in Record
      BY <2>1 DEF Record
    <3> QED
      BY <2>1, <2>2, <2>9, <3>1, LoadType DEF MarkSucceeded, MarkFailed
  <2>10. CASE ReadOperation(o)
    BY <2>1, <2>2, <2>10, LoadType DEF ReadOperation
  <2>11. CASE ShowOperation(o)
    <3> DEFINE result == EffectiveResult(mine["rd", o], o)
    <3>1. CASE Goto(<<"rd", o>>, "interrupted_archive") /\ UNCHANGED shown
      BY <2>1, <2>2, <2>11, <3>1 DEF ShowOperation, Goto, TypeOK
    <3>2. CASE Goto(<<"rd", o>>, "idle") /\ shown' = [shown EXCEPT ![o] = result]
      <4>1. result \in {"none", "In Progress", "Succeeded", "Failed", "Interrupted"}
        BY <2>1, EffectiveType
      <4> QED
        BY <2>1, <2>2, <2>11, <3>2, <4>1 DEF ShowOperation, Goto, TypeOK
    <3> QED
      BY <2>11, <3>1, <3>2 DEF ShowOperation
  <2>12. ASSUME NEW r \in {"fg", "wk"}, Kill(<<r, o>>)
         PROVE  TypeOK'
    <3>1. <<r, o>> \in Proc
      BY <2>1, <2>12
    <3>2. /\ pc' = [pc EXCEPT ![<<r, o>>] = "killed"]
          /\ staged' = [staged EXCEPT ![<<r, o>>] = FALSE]
          /\ kills' = kills + 1
          /\ UNCHANGED <<journal, temp, mine, action, shown>>
      BY <2>12 DEF Kill, Goto
    <3>3. pc' \in [Proc -> PC] /\ staged' \in [Proc -> BOOLEAN]
      BY <2>2, <3>1, <3>2 DEF TypeOK
    <3>4. kills \in Nat /\ kills' = kills + 1
      BY <3>2 DEF TypeOK
    <3>5. kills' \in Nat
      BY <3>4
    <3> QED
      BY <3>2, <3>3, <3>5 DEF TypeOK
  <2>13. ASSUME NEW r \in Role, Save(<<r, o>>)
         PROVE  TypeOK'
    BY <2>13, SaveType
  <2> QED
    BY <1>2, <2>3, <2>4, <2>5, <2>6, <2>7, <2>8, <2>9, <2>10, <2>11, <2>12, <2>13, Basics
    DEF Foreground, Worker, Reader
<1> QED
  BY <1>1, <1>2 DEF Next

-----------------------------------------------------------------------------
(* The invariant, action by action.                                         *)

\* The invariant says in particular who has a temporary file to rename.
LEMMA InvStaged == JournalInv => StagedInv
<1> SUFFICES ASSUME JournalInv, NEW p \in Proc, staged[p]
             PROVE  pc[p] \in SavePC \cup ArchivePC
  BY DEF StagedInv
<1>1. PICK r \in Role, o \in Op : p = <<r, o>>
  BY DEF Proc
<1>2. PlaceInv(o)
  BY DEF JournalInv, OpInv
<1> QED
  BY <1>1, <1>2 DEF PlaceInv, Saving

\* The invariant holds where nothing was submitted.
LEMMA InitJournal == Init => JournalInv
<1> SUFFICES ASSUME Init, NEW o \in Op
             PROVE  OpInv(o)
  BY DEF JournalInv
<1>1. \A r \in Role : /\ pc[r, o] = "idle" /\ mine[r, o] = NoRecord /\ ~staged[r, o]
  BY Basics DEF Init
<1>2. /\ pc["fg", o] = "idle" /\ pc["wk", o] = "idle" /\ pc["rd", o] = "idle"
      /\ journal[o] = NoRecord /\ temp[o] = NoRecord
      /\ action[o] = "none" /\ shown[o] = "none"
  BY <1>1, Basics DEF Init
<1> QED
  BY <1>1, <1>2, Basics
  DEF OpInv, PlaceInv, UnstartedInv, VisibleInv, EndedInv, SuccessInv, PidInv, Saving

\* Nothing of operation e has changed.
Still(e) ==
  /\ journal'[e] = journal[e] /\ temp'[e] = temp[e]
  /\ action'[e] = action[e] /\ shown'[e] = shown[e]
  /\ \A r \in Role : /\ pc'[r, e] = pc[r, e] /\ mine'[r, e] = mine[r, e]
                     /\ staged'[r, e] = staged[r, e]

\* The processes of one operation touch nothing of another.
LEMMA StillInv ==
  ASSUME NEW e \in Op, OpInv(e), Still(e)
  PROVE  OpInv(e)'
<1>1. /\ pc'["fg", e] = pc["fg", e] /\ pc'["wk", e] = pc["wk", e]
      /\ pc'["rd", e] = pc["rd", e]
      /\ mine'["fg", e] = mine["fg", e] /\ mine'["wk", e] = mine["wk", e]
      /\ staged'["fg", e] = staged["fg", e]
      /\ journal'[e] = journal[e] /\ temp'[e] = temp[e]
      /\ action'[e] = action[e] /\ shown'[e] = shown[e]
  BY Basics DEF Still
<1>2. \A r \in Role : /\ Saving(<<r, e>>)' <=> Saving(<<r, e>>)
                      /\ mine'[r, e] = mine[r, e] /\ staged'[r, e] = staged[r, e]
  BY DEF Still, Saving
<1>3. PlaceInv(e)' /\ EndedInv(e)'
  BY <1>1, <1>2 DEF OpInv, PlaceInv, EndedInv, Ended
<1>4. UnstartedInv(e)' /\ SuccessInv(e)'
  BY <1>1, <1>2 DEF OpInv, UnstartedInv, SuccessInv
<1>5. VisibleInv(e)' /\ PidInv(e)'
  BY <1>1, <1>2, Basics DEF OpInv, VisibleInv, PidInv
<1> QED
  BY <1>3, <1>4, <1>5 DEF OpInv

\* What Load does to the processes of the operation.
LEMMA LoadMoves ==
  ASSUME TypeOK, NEW r \in Role, NEW o \in Op, NEW q, NEW rec, Load(<<r, o>>, q, rec)
  PROVE  /\ pc'[r, o] = q /\ mine'[r, o] = rec
         /\ \A s \in Role : s # r => pc'[s, o] = pc[s, o] /\ mine'[s, o] = mine[s, o]
         /\ UNCHANGED <<journal, temp, staged, action, shown, kills>>
         /\ \A e \in Op : e # o => Still(e)
<1>1. /\ pc' = [pc EXCEPT ![<<r, o>>] = q] /\ mine' = [mine EXCEPT ![<<r, o>>] = rec]
      /\ UNCHANGED <<journal, temp, staged, action, shown, kills>>
  BY DEF Load, Goto
<1>2. \A s \in Role, e \in Op :
        /\ <<s, e>> \in Proc
        /\ (s # r \/ e # o) => pc'[s, e] = pc[s, e] /\ mine'[s, e] = mine[s, e]
  BY <1>1 DEF TypeOK, Proc
<1>3. pc'[r, o] = q /\ mine'[r, o] = rec
  BY <1>1, <1>2 DEF TypeOK
<1> QED
  BY <1>1, <1>2, <1>3 DEF Still

\* Submitting an operation keeps the invariant.
LEMMA SubmitInv ==
  ASSUME TypeOK, NEW o \in Op, OpInv(o), Submit(o)
  PROVE  OpInv(o)' /\ \A e \in Op : e # o => Still(e)
<1> DEFINE new == [NoRecord EXCEPT !.result = "Queued"]
<1>1. /\ pc["fg", o] = "idle" /\ pc["wk", o] = "idle" /\ ~staged["fg", o]
      /\ new.result = "Queued" /\ ~new.pid
  BY Basics DEF Submit, OpInv, PlaceInv, Saving, SavePC, ArchivePC, NoRecord
<1>2. /\ pc'["fg", o] = "create" /\ mine'["fg", o] = new
      /\ \A s \in Role : s # "fg" => pc'[s, o] = pc[s, o] /\ mine'[s, o] = mine[s, o]
      /\ UNCHANGED <<journal, temp, staged, action, shown, kills>>
      /\ \A e \in Op : e # o => Still(e)
  BY Basics, LoadMoves DEF Submit
<1> HIDE DEF new
<1>3. /\ pc'["wk", o] = "idle" /\ pc'["rd", o] = pc["rd", o]
  BY <1>1, <1>2, Basics
<1>4. PlaceInv(o)'
  BY <1>1, <1>2, <1>3, Basics DEF OpInv, PlaceInv, Saving
<1>5. UnstartedInv(o)'
  BY <1>1, <1>2, <1>3, Basics DEF OpInv, UnstartedInv
<1>6. VisibleInv(o)' /\ PidInv(o)' /\ EndedInv(o)'
  BY <1>1, <1>2, <1>3 DEF OpInv, VisibleInv, PidInv, EndedInv, Ended
<1>7. SuccessInv(o)'
  BY <1>1, <1>2, <1>3, Basics DEF OpInv, SuccessInv
<1> QED
  BY <1>2, <1>4, <1>5, <1>6, <1>7 DEF OpInv

\* Starting the worker does: the record reads Queued and nobody writes it.
LEMMA StartWorkerInv ==
  ASSUME TypeOK, NEW o \in Op, OpInv(o), StartWorker(o)
  PROVE  OpInv(o)' /\ \A e \in Op : e # o => Still(e)
<1>1. /\ pc["fg", o] = "spawn" /\ pc["wk", o] = "idle"
      /\ pc["rd", o] \in {"idle", "check"}
      /\ \A r \in Role : ~staged[r, o]
      /\ journal[o].result = "Queued" /\ temp[o] = NoRecord /\ action[o] = "none"
      /\ shown[o] # "Interrupted"
  BY Basics DEF StartWorker, OpInv, PlaceInv, UnstartedInv, EndedInv, Ended, Saving,
                SavePC, ArchivePC
<1>2. /\ pc' = [pc EXCEPT ![<<"fg", o>>] = "reload", ![<<"wk", o>>] = "boot"]
      /\ UNCHANGED <<journal, temp, mine, staged, action, shown, kills>>
  BY DEF StartWorker
<1>3. /\ pc'["fg", o] = "reload" /\ pc'["wk", o] = "boot" /\ pc'["rd", o] = pc["rd", o]
      /\ \A s \in Role, e \in Op : e # o => pc'[s, e] = pc[s, e]
  BY <1>2 DEF TypeOK, Proc, Role
<1>4. \A r \in Role : ~Saving(<<r, o>>)'
  BY <1>1, <1>3, Basics DEF Saving, SavePC, ArchivePC
<1>5. \A e \in Op : e # o => Still(e)
  BY <1>2, <1>3 DEF Still
<1>6. PlaceInv(o)' /\ UnstartedInv(o)'
  BY <1>1, <1>2, <1>3, <1>4 DEF PlaceInv, UnstartedInv
<1>7. VisibleInv(o)' /\ PidInv(o)' /\ EndedInv(o)'
  BY <1>1, <1>2, <1>3, <1>4, Basics DEF VisibleInv, PidInv, EndedInv, Open
<1>8. SuccessInv(o)'
  BY <1>1, <1>2, <1>3 DEF OpInv, SuccessInv
<1> QED
  BY <1>5, <1>6, <1>7, <1>8 DEF OpInv

\* Recording that it could not be started does.
LEMMA StartWorkerFailsInv ==
  ASSUME TypeOK, NEW o \in Op, OpInv(o), StartWorkerFails(o)
  PROVE  OpInv(o)' /\ \A e \in Op : e # o => Still(e)
<1> DEFINE new == [mine["fg", o] EXCEPT !.result = "Failed"]
<1>1. /\ pc["fg", o] = "spawn" /\ pc["wk", o] = "idle" /\ ~staged["fg", o]
  BY Basics DEF StartWorkerFails, OpInv, PlaceInv, Saving, SavePC, ArchivePC
<1>2. new.result = "Failed" /\ ~new.pid
  <2>1. <<"fg", o>> \in Proc /\ ~mine["fg", o].pid
    BY <1>1, Basics DEF OpInv, UnstartedInv
  <2>2. mine["fg", o] \in Record
    BY <2>1 DEF TypeOK
  <2> QED
    BY <2>1, <2>2 DEF Record
<1>3. /\ pc'["fg", o] = "no_worker" /\ mine'["fg", o] = new
      /\ \A s \in Role : s # "fg" => pc'[s, o] = pc[s, o] /\ mine'[s, o] = mine[s, o]
      /\ UNCHANGED <<journal, temp, staged, action, shown, kills>>
      /\ \A e \in Op : e # o => Still(e)
  BY Basics, LoadMoves DEF StartWorkerFails
<1> HIDE DEF new
<1>4. /\ pc'["wk", o] = "idle" /\ pc'["rd", o] = pc["rd", o]
  BY <1>1, <1>3, Basics
<1>5. PlaceInv(o)'
  BY <1>1, <1>3, <1>4, Basics DEF OpInv, PlaceInv, Saving
<1>6. UnstartedInv(o)'
  BY <1>1, <1>2, <1>3, <1>4, Basics DEF OpInv, UnstartedInv
<1>7. VisibleInv(o)' /\ PidInv(o)' /\ EndedInv(o)'
  BY <1>1, <1>3, <1>4 DEF OpInv, VisibleInv, PidInv, EndedInv, Ended
<1>8. SuccessInv(o)'
  BY <1>1, <1>2, <1>3, <1>4, Basics DEF OpInv, SuccessInv
<1> QED
  BY <1>3, <1>5, <1>6, <1>7, <1>8 DEF OpInv

\* The foreground takes over what the worker may have recorded, and its pid.
LEMMA ReloadForPidInv ==
  ASSUME TypeOK, NEW o \in Op, OpInv(o), ReloadForPid(o)
  PROVE  OpInv(o)' /\ \A e \in Op : e # o => Still(e)
<1> DEFINE new == [journal[o] EXCEPT !.pid = TRUE,
                                     !.result = IF @ = "Queued" THEN "In Progress" ELSE @]
<1>1. /\ pc["fg", o] = "reload" /\ pc["wk", o] # "idle" /\ ~staged["fg", o]
  BY Basics DEF ReloadForPid, OpInv, PlaceInv, Saving, SavePC, ArchivePC
<1>2. /\ new.pid
      /\ new.result = IF journal[o].result = "Queued" THEN "In Progress"
                                                      ELSE journal[o].result
  BY DEF TypeOK, Record
<1>3. /\ pc'["fg", o] = "pid" /\ mine'["fg", o] = new
      /\ \A s \in Role : s # "fg" => pc'[s, o] = pc[s, o] /\ mine'[s, o] = mine[s, o]
      /\ UNCHANGED <<journal, temp, staged, action, shown, kills>>
      /\ \A e \in Op : e # o => Still(e)
  <2>1. Load(<<"fg", o>>, "pid", new)
    BY DEF ReloadForPid
  <2> HIDE DEF new
  <2> QED
    BY <2>1, Basics, LoadMoves
<1> HIDE DEF new
<1>4. pc'["wk", o] = pc["wk", o] /\ pc'["rd", o] = pc["rd", o] /\ mine'["wk", o] = mine["wk", o]
  BY <1>3, Basics
<1>5. PlaceInv(o)'
  BY <1>1, <1>3, <1>4, Basics DEF OpInv, PlaceInv, Saving
<1>6. UnstartedInv(o)' /\ EndedInv(o)'
  BY <1>1, <1>3, <1>4 DEF OpInv, UnstartedInv, EndedInv, Ended
<1>7. VisibleInv(o)'
  BY <1>1, <1>2, <1>3, <1>4 DEF OpInv, VisibleInv, Open, Saving
<1>8. PidInv(o)'
  BY <1>1, <1>2, <1>3, <1>4, Basics DEF OpInv, PidInv, Saving
<1>9. SuccessInv(o)'
  BY <1>2, <1>3, <1>4, Basics DEF OpInv, SuccessInv
<1> QED
  BY <1>3, <1>5, <1>6, <1>7, <1>8, <1>9 DEF OpInv

\* The worker marks its record: a success only where the action was one.
LEMMA MarkInv ==
  ASSUME TypeOK, NEW o \in Op, OpInv(o), MarkRunning(o) \/ MarkSucceeded(o) \/ MarkFailed(o)
  PROVE  OpInv(o)' /\ \A e \in Op : e # o => Still(e)
<1>1. PICK q, new :
        /\ Load(<<"wk", o>>, q, new)
        /\ \/ pc["wk", o] = "boot" /\ q = "running" /\ new.result = "In Progress" /\ new.pid
           \/ /\ pc["wk", o] = "load_success" /\ q = "succeeded"
              /\ new.result = "Succeeded" /\ new.pid = journal[o].pid
           \/ /\ pc["wk", o] = "load_failure" /\ q = "failed"
              /\ new.result = "Failed" /\ new.pid = journal[o].pid
  <2>1. journal[o] \in Record
    BY DEF TypeOK
  <2>2. CASE MarkRunning(o)
    <3> DEFINE n == [journal[o] EXCEPT !.result = "In Progress", !.pid = TRUE]
    <3>1. n.result = "In Progress" /\ n.pid
      BY <2>1 DEF Record
    <3>2. Load(<<"wk", o>>, "running", n) /\ pc["wk", o] = "boot"
      BY <2>2 DEF MarkRunning
    <3> QED
      BY <3>1, <3>2
  <2>3. CASE MarkSucceeded(o)
    <3> DEFINE n == [journal[o] EXCEPT !.result = "Succeeded"]
    <3>1. n.result = "Succeeded" /\ n.pid = journal[o].pid
      BY <2>1 DEF Record
    <3>2. Load(<<"wk", o>>, "succeeded", n) /\ pc["wk", o] = "load_success"
      BY <2>3 DEF MarkSucceeded
    <3> QED
      BY <3>1, <3>2
  <2>4. CASE MarkFailed(o)
    <3> DEFINE n == [journal[o] EXCEPT !.result = "Failed"]
    <3>1. n.result = "Failed" /\ n.pid = journal[o].pid
      BY <2>1 DEF Record
    <3>2. Load(<<"wk", o>>, "failed", n) /\ pc["wk", o] = "load_failure"
      BY <2>4 DEF MarkFailed
    <3> QED
      BY <3>1, <3>2
  <2> QED
    BY <2>2, <2>3, <2>4
<1>2. /\ pc["wk", o] \in {"boot", "load_success", "load_failure"}
      /\ q \in {"running", "succeeded", "failed"} /\ ~staged["wk", o]
  BY <1>1, Basics DEF OpInv, PlaceInv, Saving, SavePC, ArchivePC
<1>3. new.pid
  BY <1>1 DEF OpInv, PidInv
<1>4. /\ pc'["wk", o] = q /\ mine'["wk", o] = new
      /\ \A s \in Role : s # "wk" => pc'[s, o] = pc[s, o] /\ mine'[s, o] = mine[s, o]
      /\ UNCHANGED <<journal, temp, staged, action, shown, kills>>
      /\ \A e \in Op : e # o => Still(e)
  BY <1>1, Basics, LoadMoves
<1>5. pc'["fg", o] = pc["fg", o] /\ pc'["rd", o] = pc["rd", o] /\ mine'["fg", o] = mine["fg", o]
  BY <1>4, Basics
<1>6. pc["rd", o] # "interrupted_archive" /\ shown[o] # "Interrupted"
  BY <1>2 DEF OpInv, EndedInv, Ended
<1>7. PlaceInv(o)'
  BY <1>2, <1>4, <1>5, Basics DEF OpInv, PlaceInv, Saving
<1>8. UnstartedInv(o)' /\ EndedInv(o)'
  BY <1>2, <1>4, <1>5, <1>6 DEF OpInv, UnstartedInv, EndedInv, Ended
<1>9. VisibleInv(o)'
  BY <1>1, <1>2, <1>4, <1>5 DEF OpInv, VisibleInv, Open, Saving
<1>10. PidInv(o)'
  BY <1>1, <1>2, <1>3, <1>4, <1>5, Basics DEF OpInv, PidInv, Saving
<1>11. SuccessInv(o)'
  BY <1>1, <1>2, <1>4, <1>5, Basics DEF OpInv, SuccessInv
<1> QED
  BY <1>4, <1>7, <1>8, <1>9, <1>10, <1>11 DEF OpInv

\* The action ends.
LEMMA ActionEndsInv ==
  ASSUME TypeOK, NEW o \in Op, OpInv(o), ActionEnds(o)
  PROVE  OpInv(o)' /\ \A e \in Op : e # o => Still(e)
<1>1. PICK q \in {"load_success", "load_failure"}, a \in {"succeeded", "failed"} :
        /\ pc' = [pc EXCEPT ![<<"wk", o>>] = q] /\ action' = [action EXCEPT ![o] = a]
        /\ q = "load_success" => a = "succeeded"
  BY DEF ActionEnds, Goto
<1>2. /\ pc["wk", o] = "action" /\ ~staged["wk", o] /\ action[o] # "succeeded"
      /\ UNCHANGED <<journal, temp, mine, staged, shown, kills>>
  BY Basics DEF ActionEnds, OpInv, PlaceInv, VisibleInv, Saving, SavePC, ArchivePC
<1>3. /\ pc'["wk", o] = q /\ pc'["fg", o] = pc["fg", o] /\ pc'["rd", o] = pc["rd", o]
      /\ \A s \in Role, e \in Op : e # o => pc'[s, e] = pc[s, e]
      /\ action'[o] = a /\ \A e \in Op : e # o => action'[e] = action[e]
  BY <1>1 DEF TypeOK, Proc, Role
<1>4. \A e \in Op : e # o => Still(e)
  BY <1>2, <1>3 DEF Still
<1>5. PlaceInv(o)'
  BY <1>2, <1>3, Basics DEF OpInv, PlaceInv, Saving
<1>6. UnstartedInv(o)' /\ EndedInv(o)' /\ VisibleInv(o)'
  BY <1>2, <1>3 DEF OpInv, UnstartedInv, EndedInv, Ended, VisibleInv
<1>7. PidInv(o)'
  BY <1>2, <1>3, Basics DEF OpInv, PidInv, Saving, SavePC, ArchivePC
<1>8. SuccessInv(o)'
  BY <1>1, <1>2, <1>3 DEF OpInv, SuccessInv
<1> QED
  BY <1>4, <1>5, <1>6, <1>7, <1>8 DEF OpInv

\* ListOperation reads the record.
LEMMA ReadOperationInv ==
  ASSUME TypeOK, NEW o \in Op, OpInv(o), ReadOperation(o)
  PROVE  OpInv(o)' /\ \A e \in Op : e # o => Still(e)
<1>1. pc["rd", o] = "idle" /\ ~staged["rd", o]
  BY Basics DEF ReadOperation, OpInv, PlaceInv, Saving, SavePC, ArchivePC
<1>2. /\ pc'["rd", o] = "check" /\ mine'["rd", o] = journal[o]
      /\ \A s \in Role : s # "rd" => pc'[s, o] = pc[s, o] /\ mine'[s, o] = mine[s, o]
      /\ UNCHANGED <<journal, temp, staged, action, shown, kills>>
      /\ \A e \in Op : e # o => Still(e)
  BY Basics, LoadMoves DEF ReadOperation
<1>3. /\ pc'["fg", o] = pc["fg", o] /\ pc'["wk", o] = pc["wk", o]
      /\ mine'["fg", o] = mine["fg", o] /\ mine'["wk", o] = mine["wk", o]
  BY <1>2, Basics
<1>4. PlaceInv(o)'
  BY <1>1, <1>2, <1>3, Basics DEF OpInv, PlaceInv, Saving
<1>5. UnstartedInv(o)'
  BY <1>1, <1>2, <1>3, Basics DEF OpInv, UnstartedInv
<1>6. EndedInv(o)' /\ VisibleInv(o)'
  BY <1>1, <1>2, <1>3 DEF OpInv, EndedInv, Ended, VisibleInv, Saving
<1>7. PidInv(o)'
  BY <1>1, <1>2, <1>3, Basics DEF OpInv, PidInv, Saving, SavePC, ArchivePC
<1>8. SuccessInv(o)'
  BY <1>2, <1>3, Basics DEF OpInv, SuccessInv
<1> QED
  BY <1>2, <1>4, <1>5, <1>6, <1>7, <1>8 DEF OpInv

\* It calls interrupted only what has a pid, hence was started, and has ended.
LEMMA ShowOperationInv ==
  ASSUME TypeOK, NEW o \in Op, OpInv(o), ShowOperation(o)
  PROVE  OpInv(o)' /\ \A e \in Op : e # o => Still(e)
<1> DEFINE result == EffectiveResult(mine["rd", o], o)
<1>1. pc["rd", o] = "check" /\ ~staged["rd", o]
      /\ UNCHANGED <<journal, temp, mine, staged, action, kills>>
  BY Basics DEF ShowOperation, OpInv, PlaceInv, Saving, SavePC, ArchivePC
<1>2. PICK q \in {"interrupted_archive", "idle"} :
        /\ pc' = [pc EXCEPT ![<<"rd", o>>] = q]
        /\ q = "interrupted_archive" => result = "Interrupted"
        /\ shown' = shown \/ shown' = [shown EXCEPT ![o] = result]
  BY DEF ShowOperation, Goto
<1>3. mine["rd", o] \in Record
  BY Basics DEF TypeOK
<1>4. result = "Interrupted" => Ended(o) /\ mine["rd", o].pid
  <2>1. result = "Interrupted" => mine["rd", o].pid /\ ~WorkerAlive(o)
    BY <1>3 DEF EffectiveResult, Record
  <2>2. mine["rd", o].pid => pc["wk", o] # "idle"
    BY Basics DEF OpInv, UnstartedInv
  <2> QED
    BY <2>1, <2>2 DEF WorkerAlive, Ended
<1>5. result = "Succeeded" => mine["rd", o].result = "Succeeded"
  BY DEF EffectiveResult
<1> HIDE DEF result
<1>6. /\ pc'["rd", o] = q /\ pc'["fg", o] = pc["fg", o] /\ pc'["wk", o] = pc["wk", o]
      /\ \A s \in Role, e \in Op : e # o => pc'[s, e] = pc[s, e]
  BY <1>2 DEF TypeOK, Proc, Role
<1>7. /\ shown'[o] \in {shown[o], result}
      /\ \A e \in Op : e # o => shown'[e] = shown[e]
  BY <1>2 DEF TypeOK
<1>8. \A e \in Op : e # o => Still(e)
  BY <1>1, <1>6, <1>7 DEF Still
<1>9. PlaceInv(o)'
  BY <1>1, <1>6, Basics DEF OpInv, PlaceInv, Saving
<1>10. UnstartedInv(o)'
  BY <1>1, <1>2, <1>4, <1>6 DEF OpInv, UnstartedInv, Ended
<1>11. EndedInv(o)' /\ VisibleInv(o)'
  BY <1>1, <1>2, <1>4, <1>6, <1>7 DEF OpInv, EndedInv, Ended, VisibleInv, Saving
<1>12. PidInv(o)'
  BY <1>1, <1>2, <1>4, <1>6, Basics DEF OpInv, PidInv, Saving, SavePC, ArchivePC
<1>13. SuccessInv(o)'
  BY <1>1, <1>5, <1>6, <1>7, Basics DEF OpInv, SuccessInv
<1> QED
  BY <1>8, <1>9, <1>10, <1>11, <1>12, <1>13 DEF OpInv

\* A kill keeps the invariant: what it leaves staged nobody renames.
LEMMA KillInv ==
  ASSUME TypeOK, NEW o \in Op, OpInv(o), NEW r \in {"fg", "wk"}, Kill(<<r, o>>)
  PROVE  OpInv(o)' /\ \A e \in Op : e # o => Still(e)
<1>1. /\ pc' = [pc EXCEPT ![<<r, o>>] = "killed"]
      /\ staged' = [staged EXCEPT ![<<r, o>>] = FALSE]
      /\ UNCHANGED <<journal, temp, mine, action, shown>>
      /\ r = "wk" => WorkerAlive(o)
      /\ r = "fg" => ForegroundKilled
  BY DEF Kill, Goto
<1>2. /\ \A s \in Role, e \in Op : s # r \/ e # o => /\ pc'[s, e] = pc[s, e]
                                                  /\ staged'[s, e] = staged[s, e]
      /\ pc'[r, o] = "killed" /\ ~staged'[r, o]
  BY <1>1 DEF TypeOK, Proc, Role
<1>3. \A e \in Op : e # o => Still(e)
  BY <1>1, <1>2 DEF Still
<1>4. /\ pc'["fg", o] \in {pc["fg", o], "killed"} /\ pc'["wk", o] \in {pc["wk", o], "killed"}
      /\ pc'["rd", o] = pc["rd", o]
      /\ pc'["wk", o] = "idle" <=> pc["wk", o] = "idle"
      /\ pc'["fg", o] # pc["fg", o] => ForegroundKilled
      /\ \A s \in Role : staged'[s, o] => staged[s, o] /\ pc'[s, o] = pc[s, o]
      /\ \A s \in Role : Saving(<<s, o>>)' => Saving(<<s, o>>)
  BY <1>1, <1>2, Basics DEF WorkerAlive, Saving, SavePC, ArchivePC
<1>5. PlaceInv(o)'
  BY <1>4, Basics DEF OpInv, PlaceInv, Saving
<1>6. UnstartedInv(o)'
  BY <1>1, <1>4, Basics DEF OpInv, UnstartedInv
<1>7. EndedInv(o)'
  BY <1>1, <1>4 DEF OpInv, EndedInv, Ended
<1>8. VisibleInv(o)'
  BY <1>1, <1>4, Basics DEF OpInv, VisibleInv
<1>9. PidInv(o)'
  BY <1>1, <1>4, Basics DEF OpInv, PidInv
<1>10. SuccessInv(o)'
  BY <1>1, <1>4 DEF OpInv, SuccessInv
<1> QED
  BY <1>3, <1>5, <1>6, <1>7, <1>8, <1>9, <1>10 DEF OpInv

\* Where the processes save; ListOperation only what has ended.
LEMMA SavePlaces ==
  ASSUME NEW o \in Op, OpInv(o), NEW r \in Role, Saving(<<r, o>>)
  PROVE  /\ r = "fg" => pc["fg", o] \in {"create", "pid", "no_worker", "no_worker_archive"}
         /\ r = "wk" => pc["wk", o] \in {"running", "succeeded", "failed",
                                         "succeeded_archive", "failed_archive"}
         /\ r = "rd" => pc["rd", o] = "interrupted_archive" /\ Ended(o)
BY Basics DEF OpInv, PlaceInv, EndedInv, Saving, SavePC, ArchivePC

\* Writing the temporary file: whatever is in it now is what the process holds.
LEMMA WriteTempInv ==
  ASSUME TypeOK, NEW o \in Op, OpInv(o), NEW r \in Role, WriteTemp(<<r, o>>)
  PROVE  OpInv(o)' /\ \A e \in Op : e # o => Still(e)
<1>1. /\ <<r, o>> \in Proc /\ mine[r, o] \in Record
      /\ Saving(<<r, o>>)
      /\ UNCHANGED <<journal, pc, action, shown, kills>>
  BY Basics DEF WriteTemp, TypeOK, Saving
<1>2. PICK rec \in Record :
        /\ rec.result = mine[r, o].result /\ rec.pid = mine[r, o].pid
        /\ mine' = [mine EXCEPT ![<<r, o>>] = rec]
        /\ temp' = [temp EXCEPT ![o] = rec]
        /\ staged' = [staged EXCEPT ![<<r, o>>] = TRUE]
  <2> DEFINE n == [mine[r, o] EXCEPT !.archived = @ \/ pc[r, o] \in ArchivePC]
  <2>1. n \in Record /\ n.result = mine[r, o].result /\ n.pid = mine[r, o].pid
    BY <1>1 DEF Record
  <2>2. mine' = [mine EXCEPT ![<<r, o>>] = n] /\ staged' = [staged EXCEPT ![<<r, o>>] = TRUE]
    BY DEF WriteTemp
  <2>3. temp' = [temp EXCEPT ![o] = mine'[r, o]]
    BY DEF WriteTemp
  <2> HIDE DEF n
  <2>4. mine'[r, o] = n
    BY <1>1, <2>2 DEF TypeOK
  <2> QED
    BY <2>1, <2>2, <2>3, <2>4
<1>3. /\ temp'[o] = rec /\ mine'[r, o] = rec
      /\ \A e \in Op : e # o => temp'[e] = temp[e]
      /\ \A s \in Role, e \in Op : s # r \/ e # o => /\ mine'[s, e] = mine[s, e]
                                                  /\ staged'[s, e] = staged[s, e]
  BY <1>1, <1>2 DEF TypeOK, Proc
<1>4. \A e \in Op : e # o => Still(e)
  BY <1>1, <1>3 DEF Still
<1>5. \A s \in Role : /\ Saving(<<s, o>>)' <=> Saving(<<s, o>>)
                      /\ mine'[s, o].result = mine[s, o].result
                      /\ mine'[s, o].pid = mine[s, o].pid
                      /\ staged'[s, o] => Saving(<<s, o>>)
  BY <1>1, <1>2, <1>3 DEF Saving, OpInv, PlaceInv
<1>6. PlaceInv(o)' /\ EndedInv(o)'
  BY <1>1, <1>5 DEF OpInv, PlaceInv, EndedInv, Ended
<1>7. UnstartedInv(o)'
  <2> SUFFICES ASSUME pc["wk", o] = "idle"
               PROVE  UnstartedInv(o)'
    BY <1>1 DEF UnstartedInv
  <2>1. r = "fg" /\ pc["fg", o] # "spawn"
    BY <1>1, SavePlaces, Basics DEF Ended
  <2> QED
    BY <1>1, <1>2, <1>3, <1>5, <2>1, Basics DEF OpInv, UnstartedInv
<1>8. VisibleInv(o)'
  <2> SUFFICES ASSUME pc["wk", o] \in {"boot", "running", "action"}
               PROVE  VisibleInv(o)'
    BY <1>1 DEF VisibleInv
  <2>1. r \in {"fg", "wk"}
    BY <1>1, SavePlaces, Basics DEF Ended
  <2>2. mine[r, o].result \in Open
    BY <1>1, <2>1 DEF OpInv, VisibleInv
  <2> QED
    BY <1>1, <1>2, <1>3, <1>5, <2>2, Basics DEF OpInv, VisibleInv
<1>9. SuccessInv(o)'
  <2>1. temp'[o].result = mine[r, o].result
    BY <1>2, <1>3
  <2>2. \A s \in Role : mine'[s, o].result = mine[s, o].result
    BY <1>5
  <2>3. /\ journal'[o] = journal[o] /\ shown'[o] = shown[o] /\ action'[o] = action[o]
        /\ pc'["wk", o] = pc["wk", o]
    BY <1>1
  <2> QED
    BY <2>1, <2>2, <2>3 DEF OpInv, SuccessInv
<1>10. PidInv(o)'
  <2> SUFFICES ASSUME pc["wk", o] # "idle"
               PROVE  PidInv(o)'
    BY <1>1 DEF PidInv
  <2>1. temp'[o].pid
    BY <1>1, <1>2, <1>3 DEF OpInv, PidInv
  <2>2. temp'[o] # NoRecord
    BY <2>1, Basics
  <2> QED
    BY <1>1, <1>5, <2>1, <2>2 DEF OpInv, PidInv
<1> QED
  BY <1>4, <1>6, <1>7, <1>8, <1>9, <1>10 DEF OpInv

\* Renaming it: the record becomes what some process of the operation staged.
LEMMA ReplaceInv ==
  ASSUME TypeOK, NEW o \in Op, OpInv(o), NEW r \in Role, Replace(<<r, o>>)
  PROVE  OpInv(o)' /\ \A e \in Op : e # o => Still(e)
<1>1. /\ <<r, o>> \in Proc /\ staged[r, o] /\ Saving(<<r, o>>)
      /\ temp[o] # NoRecord
      /\ UNCHANGED <<mine, kills>>
  BY Basics DEF Replace, OpInv, PlaceInv
<1>2. PICK q : /\ q = SavedPC(<<r, o>>)
               /\ pc' = [pc EXCEPT ![<<r, o>>] = q]
  BY DEF Replace, Goto
<1>3. /\ journal' = [journal EXCEPT ![o] = temp[o]]
      /\ temp' = [temp EXCEPT ![o] = NoRecord]
      /\ staged' = [staged EXCEPT ![<<r, o>>] = FALSE]
      /\ action' = IF pc[r, o] = "running" THEN [action EXCEPT ![o] = "running"] ELSE action
      /\ shown' = IF r = "rd" THEN [shown EXCEPT ![o] = "Interrupted"] ELSE shown
  BY DEF Replace
<1>4. /\ pc'[r, o] = q /\ ~staged'[r, o]
      /\ \A s \in Role, e \in Op : s # r \/ e # o => /\ pc'[s, e] = pc[s, e]
                                                  /\ staged'[s, e] = staged[s, e]
  BY <1>1, <1>2, <1>3 DEF TypeOK, Proc
<1>5. /\ journal'[o] = temp[o] /\ temp'[o] = NoRecord
      /\ action'[o] = IF pc[r, o] = "running" THEN "running" ELSE action[o]
      /\ shown'[o] = IF r = "rd" THEN "Interrupted" ELSE shown[o]
      /\ \A e \in Op : e # o => /\ journal'[e] = journal[e] /\ temp'[e] = temp[e]
                                /\ action'[e] = action[e] /\ shown'[e] = shown[e]
  BY <1>3 DEF TypeOK
<1>6. \A e \in Op : e # o => Still(e)
  BY <1>1, <1>4, <1>5 DEF Still
<1>7. /\ r = "fg" => /\ pc["fg", o] \in {"create", "pid", "no_worker", "no_worker_archive"}
                     /\ pc["fg", o] = "create" => q = "spawn"
                     /\ pc["fg", o] = "pid" => q = "done"
                     /\ pc["fg", o] = "no_worker" => q = "no_worker_archive"
                     /\ pc["fg", o] = "no_worker_archive" => q = "error"
      /\ r = "wk" => /\ pc["wk", o] \in {"running", "succeeded", "failed",
                                         "succeeded_archive", "failed_archive"}
                     /\ pc["wk", o] = "running" => q = "action"
                     /\ pc["wk", o] # "running" =>
                          q \in {"exited", "succeeded_archive", "failed_archive"}
      /\ r = "rd" => pc["rd", o] = "interrupted_archive" /\ Ended(o) /\ q = "idle"
  <2>1. /\ r = "fg" => pc["fg", o] \in {"create", "pid", "no_worker", "no_worker_archive"}
        /\ r = "wk" => pc["wk", o] \in {"running", "succeeded", "failed",
                                         "succeeded_archive", "failed_archive"}
        /\ r = "rd" => pc["rd", o] = "interrupted_archive" /\ Ended(o)
    BY <1>1, SavePlaces
  <2>2. q = IF pc[r, o] \in {"succeeded", "failed"} /\ mine[r, o].archived
            THEN "exited" ELSE AfterSave[pc[r, o]]
    BY <1>2 DEF SavedPC
  <2>3. /\ AfterSave["create"] = "spawn" /\ AfterSave["pid"] = "done"
        /\ AfterSave["no_worker"] = "no_worker_archive"
        /\ AfterSave["no_worker_archive"] = "error" /\ AfterSave["running"] = "action"
        /\ AfterSave["succeeded"] = "succeeded_archive"
        /\ AfterSave["failed"] = "failed_archive"
        /\ AfterSave["succeeded_archive"] = "exited" /\ AfterSave["failed_archive"] = "exited"
        /\ AfterSave["interrupted_archive"] = "idle"
    BY DEF AfterSave
  <2>4. CASE r = "fg"
    BY <2>1, <2>2, <2>3, <2>4
  <2>5. CASE r = "wk"
    BY <2>1, <2>2, <2>3, <2>5
  <2>6. CASE r = "rd"
    BY <2>1, <2>2, <2>3, <2>6
  <2> QED
    BY <2>4, <2>5, <2>6, Basics
<1>8. CASE r = "fg"
  <2>1. /\ pc'["fg", o] = q /\ pc'["wk", o] = pc["wk", o] /\ pc'["rd", o] = pc["rd", o]
        /\ action'[o] = action[o] /\ shown'[o] = shown[o]
    BY <1>4, <1>5, <1>7, <1>8, Basics
  <2>2. pc["fg", o] = "pid" <=> pc["wk", o] # "idle"
    BY <1>7, <1>8 DEF OpInv, PlaceInv
  <2>3. \A s \in Role : /\ staged'[s, o] => staged[s, o] /\ s # "fg"
                        /\ s # "fg" => (Saving(<<s, o>>)' <=> Saving(<<s, o>>))
                        /\ mine'[s, o] = mine[s, o]
    BY <1>1, <1>4, <1>8 DEF Saving
  <2>4. PlaceInv(o)'
    BY <1>7, <1>8, <2>1, <2>2, <2>3 DEF OpInv, PlaceInv
  <2>5. UnstartedInv(o)'
    BY <1>1, <1>5, <1>7, <1>8, <2>1, <2>2, <2>3, Basics DEF OpInv, UnstartedInv
  <2>6. EndedInv(o)'
    BY <2>1 DEF OpInv, EndedInv, Ended
  <2>7. Saving(<<"fg", o>>)' => pc["wk", o] = "idle"
    BY <1>7, <1>8, <2>1, <2>2 DEF Saving, SavePC, ArchivePC
  <2>8. VisibleInv(o)'
    BY <1>1, <1>5, <2>1, <2>3, <2>7, Basics DEF OpInv, VisibleInv
  <2>9. SuccessInv(o)'
    BY <1>5, <2>1, <2>3, Basics DEF OpInv, SuccessInv
  <2>10. PidInv(o)'
    BY <1>1, <1>5, <1>8, <2>1, <2>3, <2>7, Basics DEF OpInv, PidInv
  <2> QED
    BY <1>6, <2>4, <2>5, <2>6, <2>8, <2>9, <2>10 DEF OpInv
<1>9. CASE r = "wk"
  <2>1. /\ pc'["wk", o] = q /\ pc'["fg", o] = pc["fg", o] /\ pc'["rd", o] = pc["rd", o]
        /\ shown'[o] = shown[o]
    BY <1>4, <1>5, <1>9, Basics
  <2>2. pc["wk", o] # "idle" /\ q # "idle" /\ q # "load_success" /\ ~Ended(o)
    BY <1>7, <1>9 DEF Ended
  <2>3. \A s \in Role : /\ staged'[s, o] => staged[s, o] /\ s # "wk"
                        /\ s # "wk" => (Saving(<<s, o>>)' <=> Saving(<<s, o>>))
                        /\ mine'[s, o] = mine[s, o]
    BY <1>1, <1>4, <1>9 DEF Saving
  <2>4. PlaceInv(o)'
    BY <1>7, <1>9, <2>1, <2>2, <2>3 DEF OpInv, PlaceInv
  <2>5. UnstartedInv(o)' /\ EndedInv(o)'
    BY <2>1, <2>2 DEF OpInv, UnstartedInv, EndedInv
  <2>6. VisibleInv(o)'
    BY <1>1, <1>5, <1>7, <1>9, <2>1, <2>2, <2>3, Basics
    DEF OpInv, VisibleInv, Saving, SavePC, ArchivePC
  <2>7. SuccessInv(o)'
    <3>1. pc["wk", o] = "running" => action[o] # "succeeded"
      BY DEF OpInv, VisibleInv
    <3>2. pc["wk", o] # "running" => action'[o] = action[o]
      BY <1>5, <1>9
    <3> QED
      BY <1>5, <2>1, <2>2, <2>3, <3>1, <3>2, Basics DEF OpInv, SuccessInv
  <2>8. PidInv(o)'
    BY <1>1, <1>5, <1>9, <2>1, <2>2, <2>3, Basics DEF OpInv, PidInv
  <2> QED
    BY <1>6, <2>4, <2>5, <2>6, <2>7, <2>8 DEF OpInv
<1>10. CASE r = "rd"
  <2>1. /\ pc'["rd", o] = "idle" /\ pc'["fg", o] = pc["fg", o] /\ pc'["wk", o] = pc["wk", o]
        /\ action'[o] = action[o] /\ shown'[o] = "Interrupted" /\ Ended(o)
    BY <1>4, <1>5, <1>7, <1>10, Basics
  <2>2. pc["wk", o] \in {"exited", "killed"}
    BY <2>1 DEF Ended
  <2>3. \A s \in Role : /\ staged'[s, o] => staged[s, o] /\ s # "rd"
                        /\ Saving(<<s, o>>)' => Saving(<<s, o>>)
                        /\ s # "rd" => (Saving(<<s, o>>)' <=> Saving(<<s, o>>))
                        /\ mine'[s, o] = mine[s, o]
    BY <1>1, <1>4, <1>10, <2>1 DEF Saving
  <2>4. PlaceInv(o)'
    BY <1>10, <2>1, <2>3 DEF OpInv, PlaceInv
  <2>5. UnstartedInv(o)' /\ EndedInv(o)' /\ VisibleInv(o)'
    BY <2>1, <2>2 DEF UnstartedInv, EndedInv, Ended, VisibleInv
  <2>6. SuccessInv(o)'
    BY <1>5, <2>1, <2>3, Basics DEF OpInv, SuccessInv
  <2>7. PidInv(o)'
    BY <1>1, <1>5, <2>1, <2>2, <2>3, Basics DEF OpInv, PidInv
  <2> QED
    BY <1>6, <2>4, <2>5, <2>6, <2>7 DEF OpInv
<1> QED
  BY <1>8, <1>9, <1>10, Basics

\* Finding it renamed: another process has left its record, pid included.
LEMMA ReplaceMissingInv ==
  ASSUME TypeOK, NEW o \in Op, OpInv(o), NEW r \in Role, ReplaceMissing(<<r, o>>)
  PROVE  OpInv(o)' /\ \A e \in Op : e # o => Still(e)
<1>1. /\ <<r, o>> \in Proc /\ staged[r, o] /\ Saving(<<r, o>>)
      /\ temp[o] = NoRecord
      /\ UNCHANGED <<journal, temp, mine, action, shown, kills>>
  BY Basics DEF ReplaceMissing, OpInv, PlaceInv
<1>2. PICK q : /\ q = AfterMissing(<<r, o>>)
               /\ pc' = [pc EXCEPT ![<<r, o>>] = q]
               /\ staged' = [staged EXCEPT ![<<r, o>>] = FALSE]
  BY DEF ReplaceMissing, Goto
<1>3. /\ pc'[r, o] = q /\ ~staged'[r, o]
      /\ \A s \in Role, e \in Op : s # r \/ e # o => /\ pc'[s, e] = pc[s, e]
                                                  /\ staged'[s, e] = staged[s, e]
  BY <1>1, <1>2 DEF TypeOK, Proc
<1>4. \A e \in Op : e # o => Still(e)
  BY <1>1, <1>3 DEF Still
<1>5. pc["wk", o] # "idle" /\ journal[o].pid
  <2>1. pc["wk", o] = "idle" => r = "fg"
    BY <1>1, SavePlaces, Basics DEF Ended
  <2>2. pc["wk", o] # "idle"
    BY <1>1, <2>1, SavePlaces, Basics DEF OpInv, PlaceInv, UnstartedInv
  <2> QED
    BY <1>1, <2>2 DEF OpInv, PidInv
<1>6. /\ r = "fg" => q = "error"
      /\ r = "rd" => q = "idle"
      /\ r = "wk" => q \in {"load_failure", "exited"} /\ ~Ended(o)
  BY <1>1, <1>2, SavePlaces DEF AfterMissing, Ended
<1>7. \A s \in Role : /\ staged'[s, o] => staged[s, o] /\ s # r
                      /\ Saving(<<s, o>>)' => s # r /\ Saving(<<s, o>>)
                      /\ s # r => (Saving(<<s, o>>)' <=> Saving(<<s, o>>))
  BY <1>3, <1>6, Basics DEF Saving, SavePC, ArchivePC
<1>8. /\ pc'["fg", o] = IF r = "fg" THEN "error" ELSE pc["fg", o]
      /\ pc'["rd", o] = IF r = "rd" THEN "idle" ELSE pc["rd", o]
      /\ r # "wk" => pc'["wk", o] = pc["wk", o]
      /\ r = "wk" => pc'["wk", o] \in {"load_failure", "exited"} /\ ~Ended(o)
  BY <1>3, <1>6, Basics
<1>9. PlaceInv(o)'
  BY <1>5, <1>7, <1>8 DEF OpInv, PlaceInv
<1>10. UnstartedInv(o)' /\ EndedInv(o)'
  BY <1>1, <1>5, <1>8 DEF OpInv, UnstartedInv, EndedInv, Ended
<1>11. VisibleInv(o)'
  BY <1>1, <1>7, <1>8, Basics DEF OpInv, VisibleInv
<1>12. SuccessInv(o)'
  BY <1>1, <1>8 DEF OpInv, SuccessInv
<1>13. PidInv(o)'
  BY <1>1, <1>5, <1>7 DEF OpInv, PidInv
<1> QED
  BY <1>4, <1>9, <1>10, <1>11, <1>12, <1>13 DEF OpInv

-----------------------------------------------------------------------------
(* The theorems.                                                            *)

\* Every step keeps the invariant: a step is one of one operation, and leaves
\* the others where they are.
LEMMA NextJournal ==
  ASSUME TypeOK, JournalInv, [Next]_vars
  PROVE  JournalInv'
<1>1. ASSUME UNCHANGED vars
      PROVE  \A e \in Op : Still(e)
  BY <1>1 DEF vars, Still
<1>2. ASSUME NEW o \in Op,
             \/ Submit(o) \/ Foreground(o) \/ Worker(o) \/ Reader(o)
             \/ \E r \in {"fg", "wk"} : Kill(<<r, o>>)
      PROVE  JournalInv'
  <2>1. OpInv(o)
    BY DEF JournalInv
  <2>2. ASSUME NEW r \in Role, Save(<<r, o>>)
        PROVE  OpInv(o)' /\ \A e \in Op : e # o => Still(e)
    BY <2>1, <2>2, WriteTempInv, ReplaceInv, ReplaceMissingInv DEF Save
  <2>3. ASSUME NEW r \in {"fg", "wk"}, Kill(<<r, o>>)
        PROVE  OpInv(o)' /\ \A e \in Op : e # o => Still(e)
    BY <2>1, <2>3, KillInv
  <2>4. OpInv(o)' /\ \A e \in Op : e # o => Still(e)
    <3>1. Save(<<"fg", o>>) \/ Save(<<"wk", o>>) \/ Save(<<"rd", o>>)
            => OpInv(o)' /\ \A e \in Op : e # o => Still(e)
      BY <2>2, Basics
    <3>2. CASE Submit(o)
      BY <2>1, <3>2, SubmitInv
    <3>3. CASE Foreground(o)
      BY <2>1, <3>1, <3>3, StartWorkerInv, StartWorkerFailsInv, ReloadForPidInv
      DEF Foreground
    <3>4. CASE Worker(o)
      BY <2>1, <3>1, <3>4, MarkInv, ActionEndsInv DEF Worker
    <3>5. CASE Reader(o)
      BY <2>1, <3>1, <3>5, ReadOperationInv, ShowOperationInv DEF Reader
    <3> QED
      BY <1>2, <2>3, <3>2, <3>3, <3>4, <3>5
  <2>5. ASSUME NEW e \in Op, e # o
        PROVE  OpInv(e)'
    BY <2>4, <2>5, StillInv DEF JournalInv
  <2> QED
    BY <2>4, <2>5 DEF JournalInv
<1>3. ASSUME UNCHANGED vars
      PROVE  JournalInv'
  BY <1>1, <1>3, StillInv DEF JournalInv
<1> QED
  BY <1>2, <1>3 DEF Next

\* TypeOK and JournalInv are invariants of the journal.
THEOREM JournalCorrect == Spec => [](TypeOK /\ JournalInv)
<1>1. Init => TypeOK /\ JournalInv
  BY InitType, InitJournal
<1>2. TypeOK /\ JournalInv /\ [Next]_vars => (TypeOK /\ JournalInv)'
  BY InvStaged, NextType, NextJournal
<1> QED
  BY <1>1, <1>2, PTL DEF Spec

\* The variables stay in their types.
THEOREM TypeCorrect == Spec => []TypeOK
BY JournalCorrect, PTL

\* A worker that has its action before it or is in it has a record that reads In
\* Progress, whatever the foreground and ListOperation write over it.
THEOREM VisibleCorrect == Spec => []RunningIsVisible
<1>1. TypeOK /\ JournalInv => RunningIsVisible
  <2> SUFFICES ASSUME JournalInv, NEW o \in Op, pc["wk", o] \in {"boot", "running", "action"}
               PROVE  EffectiveResult(journal[o], o) = "In Progress"
    BY DEF RunningIsVisible
  <2>1. journal[o].result \in {"Queued", "In Progress"}
    BY DEF JournalInv, OpInv, VisibleInv, Open
  <2> QED
    BY <2>1 DEF EffectiveResult, WorkerAlive
<1> QED
  BY <1>1, JournalCorrect, PTL

\* Only its own submission moves a foreground that has not begun.
LEMMA OnlySubmit ==
  ASSUME TypeOK, JournalInv, Next, NEW o \in Op, pc["fg", o] = "idle", pc'["fg", o] # "idle"
  PROVE  Submit(o)
<1>1. PICK p \in Op : \/ Submit(p) \/ Foreground(p) \/ Worker(p) \/ Reader(p)
                      \/ \E r \in {"fg", "wk"} : Kill(<<r, p>>)
  BY DEF Next
<1>2. ASSUME NEW s \in Role, NEW q, Goto(<<s, p>>, q)
      PROVE  s = "fg" /\ p = o
  BY <1>2, Basics DEF Goto, TypeOK
<1>3. ASSUME NEW s \in Role
      PROVE  ~Save(<<s, p>>)
  <2>1. ~staged["fg", o]
    BY Basics DEF JournalInv, OpInv, PlaceInv, Saving, SavePC, ArchivePC
  <2>2. ~WriteTemp(<<s, p>>)
    BY DEF WriteTemp
  <2>3. ~Replace(<<s, p>>) /\ ~ReplaceMissing(<<s, p>>)
    BY <1>2, <2>1 DEF Replace, ReplaceMissing
  <2> QED
    BY <2>2, <2>3 DEF Save
<1>4. Submit(p) => p = o
  BY <1>2, Basics DEF Submit, Load
<1>5. ~StartWorker(p)
  BY Basics DEF StartWorker, TypeOK
<1>6. ~StartWorkerFails(p) /\ ~ReloadForPid(p)
  <2>1. StartWorkerFails(p) \/ ReloadForPid(p) => p = o
    BY <1>2, Basics DEF StartWorkerFails, ReloadForPid, Load
  <2> QED
    BY <2>1 DEF StartWorkerFails, ReloadForPid
<1>7. ~Worker(p)
  BY <1>2, <1>3, Basics DEF Worker, MarkRunning, ActionEnds, MarkSucceeded, MarkFailed, Load
<1>8. ~Reader(p)
  BY <1>2, <1>3, Basics DEF Reader, ReadOperation, ShowOperation, Load
<1>9. ASSUME NEW r \in {"fg", "wk"}
      PROVE  ~Kill(<<r, p>>)
  <2>1. Kill(<<r, p>>) => r = "fg" /\ p = o
    BY <1>2, Basics DEF Kill
  <2> QED
    BY <2>1 DEF Kill
<1> QED
  BY <1>1, <1>3, <1>4, <1>5, <1>6, <1>7, <1>8, <1>9, Basics DEF Foreground

\* The double-submit guard lets no command through before the action of another
\* operation of the deployment has ended.
THEOREM GuardCorrect == Spec => SecondIsHeldBack
<1> DEFINE Guarded == \A o, e \in Op : (pc["fg", o] = "idle" /\ pc'["fg", o] # "idle") =>
                         pc["wk", e] \notin {"boot", "running", "action"}
<1>1. TypeOK /\ JournalInv /\ [Next]_vars => [Guarded]_vars
  <2> SUFFICES ASSUME TypeOK, JournalInv, Next, NEW o \in Op, NEW e \in Op,
                      pc["fg", o] = "idle", pc'["fg", o] # "idle"
               PROVE  pc["wk", e] \notin {"boot", "running", "action"}
    BY DEF vars
  <2>1. Submit(o)
    BY OnlySubmit
  <2>2. /\ pc["wk", e] \in {"boot", "running", "action"} =>
             journal[e].result \in {"Queued", "In Progress"}
        /\ journal[e] # NoRecord => EffectiveResult(journal[e], e) # "In Progress"
    BY <2>1 DEF JournalInv, OpInv, VisibleInv, Open, Submit
  <2>3. journal[e].result \in {"Queued", "In Progress"} => journal[e] # NoRecord
    BY Basics
  <2> QED
    BY <2>2, <2>3 DEF EffectiveResult, WorkerAlive
<1> QED
  BY <1>1, JournalCorrect, PTL DEF Spec, SecondIsHeldBack

\* What ListOperation calls interrupted has no worker any more.
THEOREM InterruptedCorrect == Spec => []InterruptedIsDead
<1>1. JournalInv => InterruptedIsDead
  BY DEF JournalInv, OpInv, EndedInv, Ended, InterruptedIsDead, WorkerAlive
<1> QED
  BY <1>1, JournalCorrect, PTL

\* A success that is recorded or shown is one of the action.
THEOREM SuccessCorrect == Spec => []SuccessIsReal
<1>1. JournalInv => SuccessIsReal
  BY DEF JournalInv, OpInv, SuccessInv, SuccessIsReal
<1> QED
  BY <1>1, JournalCorrect, PTL

\* When the foreground has returned and the worker is gone the record no longer
\* blocks the deployment, provided no foreground was killed: one that is killed
\* before it records the pid may leave a record nobody can call interrupted.
THEOREM UnblockedCorrect == Spec => [](~ForegroundKilled => EndedIsUnblocked)
<1>1. TypeOK /\ JournalInv => (~ForegroundKilled => EndedIsUnblocked)
  <2> SUFFICES ASSUME TypeOK, JournalInv, ~ForegroundKilled, NEW o \in Op,
                      pc["fg", o] \in {"done", "error", "killed"}, ~WorkerAlive(o)
               PROVE  EffectiveResult(journal[o], o) # "In Progress"
    BY DEF EndedIsUnblocked
  <2>1. PlaceInv(o) /\ UnstartedInv(o) /\ PidInv(o)
    BY DEF JournalInv, OpInv
  <2>2. pc["fg", o] \in {"done", "error"}
    BY <2>1 DEF PlaceInv
  <2>3. CASE pc["wk", o] = "idle"
    <3>1. journal[o].result = "Failed"
      BY <2>1, <2>2, <2>3 DEF PlaceInv, UnstartedInv
    <3> QED
      BY <3>1 DEF EffectiveResult
  <2>4. CASE pc["wk", o] # "idle"
    <3>1. journal[o].pid
      BY <2>1, <2>2, <2>4 DEF PidInv
    <3> QED
      BY <3>1 DEF EffectiveResult
  <2> QED
    BY <2>3, <2>4
<1> QED
  BY <1>1, JournalCorrect, PTL
=============================================================================
