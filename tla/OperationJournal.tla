-------------------------- MODULE OperationJournal --------------------------
(***************************************************************************)
(* The asynchronous operation journal (async_operations.py) and the main() *)
(* functions that use it (cli.py, admin_cli.py): one JSON file for every   *)
(* operation, written by three processes that share no lock.               *)
(*   "fg"  the foreground command: it scans the journal, creates the       *)
(*         record, starts the worker and records the worker's pid;         *)
(*   "wk"  the detached worker: it marks the record running, executes the  *)
(*         action, and marks it Succeeded or Failed;                       *)
(*   "rd"  ListOperation: it shows the record and archives the transcript  *)
(*         of a worker it believes interrupted.                            *)
(* Op is the operations submitted for one deployment, those the            *)
(* double-submit guard compares.  _write_state writes <id>.json.tmp and    *)
(* renames it: the two are steps of their own, and the temporary name is   *)
(* the same for every process.                                             *)
(***************************************************************************)
EXTENDS Integers

CONSTANTS
  Op,                 \* the operations
  Watched,            \* those an administrator looks at with ListOperation
  MaxKills,           \* bound on the processes killed
  ForegroundKilled    \* may a foreground command be killed (Ctrl-C)?

ASSUME JournalAssumption ==
  Watched \subseteq Op /\ MaxKills \in Nat /\ ForegroundKilled \in BOOLEAN

VARIABLES
  journal,   \* journal[o]: the record in <id>.json
  temp,      \* temp[o]: the record in <id>.json.tmp
  pc,        \* pc[r, o]: where the process is
  mine,      \* mine[r, o]: the state dict it holds
  staged,    \* staged[r, o]: it has written temp[o] and renames it next
  action,    \* action[o]: what became of the business action
  shown,     \* shown[o]: what ListOperation printed last
  kills      \* number of processes killed

vars == <<journal, temp, pc, mine, staged, action, shown, kills>>

Role   == {"fg", "wk", "rd"}
Proc   == Role \X Op
Record == [result   : {"none", "Queued", "In Progress", "Succeeded", "Failed"},
           pid      : BOOLEAN,      \* is the worker's pid recorded?
           archived : BOOLEAN]

NoRecord == [result |-> "none", pid |-> FALSE, archived |-> FALSE]

\* Where a process saves mine through _write_state; in an Archive place the
\* save is the one at the end of _finalize_transcript.
SavePC    == {"create", "pid", "no_worker", "running", "succeeded", "failed"}
ArchivePC == {"no_worker_archive", "succeeded_archive", "failed_archive",
              "interrupted_archive"}
PC == SavePC \cup ArchivePC \cup
      {"idle", "spawn", "reload", "done", "error", "boot", "action",
       "load_success", "load_failure", "exited", "check", "killed"}

\* os.kill(pid, 0); a pid is taken to name no later process.
WorkerAlive(o) == pc["wk", o] \notin {"idle", "exited", "killed"}

\* Mutants: a record without a pid counts as interrupted; a queued one does
\* not count as in progress.
EffectiveResult_NoPidGuard(rec, o) ==
  IF rec.result \in {"Queued", "In Progress"}
  THEN IF rec.pid /\ WorkerAlive(o) THEN "In Progress" ELSE "Interrupted"
  ELSE rec.result

EffectiveResult_QueuedIdle(rec, o) ==
  IF rec.result = "In Progress"
  THEN IF rec.pid /\ ~WorkerAlive(o) THEN "Interrupted" ELSE "In Progress"
  ELSE rec.result

EffectiveResult(rec, o) ==
  IF rec.result \in {"Queued", "In Progress"}
  THEN IF rec.pid /\ ~WorkerAlive(o) THEN "Interrupted" ELSE "In Progress"
  ELSE rec.result

TypeOK ==
  /\ journal \in [Op -> Record]
  /\ temp \in [Op -> Record]
  /\ pc \in [Proc -> PC]
  /\ mine \in [Proc -> Record]
  /\ staged \in [Proc -> BOOLEAN]
  /\ action \in [Op -> {"none", "running", "succeeded", "failed"}]
  /\ shown \in [Op -> {"none", "In Progress", "Succeeded", "Failed", "Interrupted"}]
  /\ kills \in Nat

Init ==
  /\ journal = [o \in Op |-> NoRecord]
  /\ temp = [o \in Op |-> NoRecord]
  /\ pc = [p \in Proc |-> "idle"]
  /\ mine = [p \in Proc |-> NoRecord]
  /\ staged = [p \in Proc |-> FALSE]
  /\ action = [o \in Op |-> "none"]
  /\ shown = [o \in Op |-> "none"]
  /\ kills = 0

-----------------------------------------------------------------------------
(* _write_state: every process saves the same way.                          *)

Goto(p, q) == pc' = [pc EXCEPT ![p] = q]

\* temp.write_text: whatever another process left there is overwritten.
WriteTemp(p) ==
  /\ pc[p] \in SavePC \cup ArchivePC
  /\ ~staged[p]
  /\ mine' = [mine EXCEPT ![p].archived = @ \/ pc[p] \in ArchivePC]
  /\ temp' = [temp EXCEPT ![p[2]] = mine'[p]]
  /\ staged' = [staged EXCEPT ![p] = TRUE]
  /\ UNCHANGED <<journal, pc, action, shown, kills>>

\* What follows a save; _finalize_transcript saves nothing for an archived one.
AfterSave ==
  [create |-> "spawn", pid |-> "done", no_worker |-> "no_worker_archive",
   running |-> "action", succeeded |-> "succeeded_archive",
   failed |-> "failed_archive", no_worker_archive |-> "error",
   succeeded_archive |-> "exited", failed_archive |-> "exited",
   interrupted_archive |-> "idle"]

SavedPC(p) ==
  IF pc[p] \in {"succeeded", "failed"} /\ mine[p].archived
  THEN "exited" ELSE AfterSave[pc[p]]

\* temp.replace(path) moves whatever the temporary file holds now.
Replace(p) ==
  /\ staged[p]
  /\ temp[p[2]] # NoRecord
  /\ journal' = [journal EXCEPT ![p[2]] = temp[p[2]]]
  /\ temp' = [temp EXCEPT ![p[2]] = NoRecord]
  /\ staged' = [staged EXCEPT ![p] = FALSE]
  /\ Goto(p, SavedPC(p))
  /\ action' = IF pc[p] = "running" THEN [action EXCEPT ![p[2]] = "running"]
                                    ELSE action
  /\ shown' = IF p[1] = "rd" THEN [shown EXCEPT ![p[2]] = "Interrupted"]
                             ELSE shown
  /\ UNCHANGED <<mine, kills>>

\* Another process has renamed the file: FileNotFoundError.  In a worker,
\* main() answers with mark_failed, whose own exceptions it swallows.
AfterMissing(p) ==
  CASE p[1] = "fg" -> "error"
    [] p[1] = "rd" -> "idle"
    [] pc[p] \in {"running", "succeeded", "succeeded_archive"} -> "load_failure"
    [] OTHER -> "exited"

ReplaceMissing(p) ==
  /\ staged[p]
  /\ temp[p[2]] = NoRecord
  /\ staged' = [staged EXCEPT ![p] = FALSE]
  /\ Goto(p, AfterMissing(p))
  /\ UNCHANGED <<journal, temp, mine, action, shown, kills>>

Save(p) == WriteTemp(p) \/ Replace(p) \/ ReplaceMissing(p)

\* load_operation, with what the caller then sets in the dict.
Load(p, q, rec) ==
  /\ mine' = [mine EXCEPT ![p] = rec]
  /\ Goto(p, q)
  /\ UNCHANGED <<journal, temp, staged, action, shown, kills>>

-----------------------------------------------------------------------------
(* launch_operation.                                                        *)

\* STEP 1 and the dict of create_operation: nothing of this deployment may be
\* shown as In Progress.
Submit(o) ==
  /\ pc["fg", o] = "idle"
  /\ \A e \in Op : journal[e] # NoRecord =>
                     EffectiveResult(journal[e], e) # "In Progress"
  /\ Load(<<"fg", o>>, "create", [NoRecord EXCEPT !.result = "Queued"])

\* STEP 4, Popen.
StartWorker(o) ==
  /\ pc["fg", o] = "spawn"
  /\ pc' = [pc EXCEPT ![<<"fg", o>>] = "reload", ![<<"wk", o>>] = "boot"]
  /\ UNCHANGED <<journal, temp, mine, staged, action, shown, kills>>

\* Mutant: a worker that could not be started leaves the record Queued.
StartWorkerFails_Unrecorded(o) ==
  /\ pc["fg", o] = "spawn"
  /\ Load(<<"fg", o>>, "error", mine["fg", o])

StartWorkerFails(o) ==
  /\ pc["fg", o] = "spawn"
  /\ Load(<<"fg", o>>, "no_worker", [mine["fg", o] EXCEPT !.result = "Failed"])

\* Mutant: the foreground does not record the worker's pid, and clears it.
ReloadForPid_NoPid(o) ==
  /\ pc["fg", o] = "reload"
  /\ Load(<<"fg", o>>, "pid",
          [journal[o] EXCEPT !.pid = FALSE,
                             !.result = IF @ = "Queued" THEN "In Progress" ELSE @])

\* STEP 5: reload, then add the pid; Queued becomes In Progress.
ReloadForPid(o) ==
  /\ pc["fg", o] = "reload"
  /\ Load(<<"fg", o>>, "pid",
          [journal[o] EXCEPT !.pid = TRUE,
                             !.result = IF @ = "Queued" THEN "In Progress" ELSE @])

Foreground(o) ==
  \/ StartWorker(o)
  \/ StartWorkerFails(o)
  \/ ReloadForPid(o)
  \/ Save(<<"fg", o>>)

-----------------------------------------------------------------------------
(* main() of a worker: phases 3, 5 and 6 and the exception handlers.        *)

\* Mutant: a result that print_operation and the guard do not know.
MarkRunning_Misspelt(o) ==
  /\ pc["wk", o] = "boot"
  /\ Load(<<"wk", o>>, "running",
          [journal[o] EXCEPT !.result = "Running", !.pid = TRUE])

MarkRunning(o) ==
  /\ pc["wk", o] = "boot"
  /\ Load(<<"wk", o>>, "running",
          [journal[o] EXCEPT !.result = "In Progress", !.pid = TRUE])

\* Mutant: main() swallows the exception of the action.
ActionEnds_Swallowed(o) ==
  /\ pc["wk", o] = "action"
  /\ \E r \in {"succeeded", "failed"} : action' = [action EXCEPT ![o] = r]
  /\ Goto(<<"wk", o>>, "load_success")
  /\ UNCHANGED <<journal, temp, mine, staged, shown, kills>>

\* The business action ends, well or with an exception.
ActionEnds(o) ==
  /\ pc["wk", o] = "action"
  /\ \/ /\ action' = [action EXCEPT ![o] = "succeeded"]
        /\ Goto(<<"wk", o>>, "load_success")
     \/ /\ action' = [action EXCEPT ![o] = "failed"]
        /\ Goto(<<"wk", o>>, "load_failure")
  /\ UNCHANGED <<journal, temp, mine, staged, shown, kills>>

MarkSucceeded(o) ==
  /\ pc["wk", o] = "load_success"
  /\ Load(<<"wk", o>>, "succeeded", [journal[o] EXCEPT !.result = "Succeeded"])

MarkFailed(o) ==
  /\ pc["wk", o] = "load_failure"
  /\ Load(<<"wk", o>>, "failed", [journal[o] EXCEPT !.result = "Failed"])

Worker(o) ==
  \/ MarkRunning(o)
  \/ ActionEnds(o)
  \/ MarkSucceeded(o)
  \/ MarkFailed(o)
  \/ Save(<<"wk", o>>)

-----------------------------------------------------------------------------
(* print_operation.                                                         *)

ReadOperation(o) ==
  /\ o \in Watched
  /\ pc["rd", o] = "idle"
  /\ journal[o] # NoRecord
  /\ Load(<<"rd", o>>, "check", journal[o])

\* effective_result looks at the process after the record was read.
ShowOperation(o) ==
  /\ pc["rd", o] = "check"
  /\ LET result == EffectiveResult(mine["rd", o], o) IN
       IF result = "Interrupted" /\ ~mine["rd", o].archived
       THEN /\ Goto(<<"rd", o>>, "interrupted_archive")
            /\ UNCHANGED shown
       ELSE /\ Goto(<<"rd", o>>, "idle")
            /\ shown' = [shown EXCEPT ![o] = result]
  /\ UNCHANGED <<journal, temp, mine, staged, action, kills>>

Reader(o) ==
  \/ ReadOperation(o)
  \/ ShowOperation(o)
  \/ Save(<<"rd", o>>)

-----------------------------------------------------------------------------

Kill(p) ==
  /\ kills < MaxKills
  /\ \/ p[1] = "wk" /\ WorkerAlive(p[2])
     \/ /\ p[1] = "fg" /\ ForegroundKilled
        /\ pc[p] \notin {"idle", "done", "error", "killed"}
  /\ Goto(p, "killed")
  /\ staged' = [staged EXCEPT ![p] = FALSE]
  /\ kills' = kills + 1
  /\ UNCHANGED <<journal, temp, mine, action, shown>>

Next ==
  \E o \in Op :
    \/ Submit(o)
    \/ Foreground(o)
    \/ Worker(o)
    \/ Reader(o)
    \/ \E r \in {"fg", "wk"} : Kill(<<r, o>>)

Spec == Init /\ [][Next]_vars

\* A process that runs keeps running; nobody owes a submission, a
\* ListOperation or a kill.
FairSpec ==
  Spec /\ \A o \in Op : WF_vars(Foreground(o)) /\ WF_vars(Worker(o))

-----------------------------------------------------------------------------
(* Properties.                                                              *)

\* From its start until its business action ends a worker's record says so: no
\* save of the foreground or of ListOperation hides it from the administrator.
RunningIsVisible ==
  \A o \in Op : pc["wk", o] \in {"boot", "running", "action"} =>
    EffectiveResult(journal[o], o) = "In Progress"

\* The double-submit guard never lets a command through while a worker of the
\* same deployment has its action before it or is in it.
SecondIsHeldBack ==
  [][\A o, e \in Op :
       (pc["fg", o] = "idle" /\ pc'["fg", o] # "idle") =>
         pc["wk", e] \notin {"boot", "running", "action"}]_vars

\* ListOperation never calls an operation interrupted, and so never archives
\* the transcript, while its worker still runs.
InterruptedIsDead ==
  \A o \in Op :
    (shown[o] = "Interrupted" \/ pc["rd", o] = "interrupted_archive") =>
      ~WorkerAlive(o)

\* Neither the record nor ListOperation claims a success the action did not
\* reach.
SuccessIsReal ==
  \A o \in Op : (journal[o].result = "Succeeded" \/ shown[o] = "Succeeded") =>
    action[o] = "succeeded"

\* When the worker is gone and the foreground has returned, the record no
\* longer reads In Progress, so the deployment is not blocked for ever.
EndedIsUnblocked ==
  \A o \in Op :
    (pc["fg", o] \in {"done", "error", "killed"} /\ ~WorkerAlive(o)) =>
      EffectiveResult(journal[o], o) # "In Progress"

\* An accepted command comes to an end in the journal.
SubmissionEnds ==
  \A o \in Op : pc["fg", o] = "create" ~>
    EffectiveResult(journal[o], o) \in {"Succeeded", "Failed", "Interrupted"}

-----------------------------------------------------------------------------
(* What the code's own comments say and a run refutes.                      *)

\* _finalize_transcript: nothing "must ... turn a successful operation into a
\* false failure".
NoFalseFailure ==
  \A o \in Op : journal[o].result = "Failed" => action[o] # "succeeded"
=============================================================================
