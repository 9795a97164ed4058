---------------------------- MODULE JobRepository ----------------------------
(***************************************************************************)
(* BuildJobRepository (service/jobs/repository.py): a SQLite table and a   *)
(* directory tree that no common transaction covers.  Every system call    *)
(* that changes either store is a step of its own, so that the process may *)
(* die, or the call may raise, between any two of them.                    *)
(*                                                                         *)
(* The repository mutex serialises the calls of one process and the OS     *)
(* lock admits one process, so there is one program counter: pc names the  *)
(* next step of the call that holds the mutex, cur its job.  A call that   *)
(* is one SQLite transaction (claim, cancel, finish) is one action.        *)
(***************************************************************************)
EXTENDS JobContracts

CONSTANTS MaxCrashes,   \* bound: how often the process dies
          MaxFaults,    \* bound: how many steps raise instead of working
          FewJobs       \* bound: with more jobs it dies once and nothing raises

ASSUME BoundsAssumption == MaxCrashes \in Nat /\ MaxFaults \in Nat /\ FewJobs \in Nat

VARIABLES
  rows,         \* the jobs table, committed
  dir,          \* jobs/<id>: absent, its three input blobs, or with a result
  createStage,  \* the IDs with a .staging/create-<id> directory
  resultStage,  \* .staging/result-<id>: the staged verdict, or none
  tomb,         \* .staging/delete-<id>: what the renamed directory held
  createMark,   \* .staging/create-<id>.pending
  resultMark,   \* .staging/result-<id>.pending
  proc,         \* the owner: closed, recovering, open, or refused by open()
  pc, cur, par, verdict,   \* the call in progress and its arguments
  nextId,       \* id_factory: IDs never repeat
  crashes, faults,
  history       \* has a step raised since open() last succeeded?

table == <<rows>>
marks == <<createMark, resultMark>>
stages == <<createStage, resultStage, tomb>>
disk == <<dir, stages, marks>>
args == <<cur, par, verdict>>
bounds == <<crashes, faults, history>>
vars == <<rows, dir, createStage, resultStage, tomb, createMark, resultMark,
          proc, pc, cur, par, verdict, nextId, crashes, faults, history>>

\* The bounds, with n jobs created, c crashes and f raised steps.
Within(n, c, f) ==
  c <= MaxCrashes /\ f <= MaxFaults /\ (n > FewJobs => c <= 1 /\ f = 0)

DirContent == {"absent", "inputs"} \cup Verdict
MarkContent == {"absent", "torn", "valid"}

\* Where a raised exception takes a call: an except or finally branch, or out.
Handler ==
  [create_stage |-> "undo_stage",  create_mark |-> "undo_stage",
   create_seal |-> "undo_stage",   create_rename |-> "undo_stage",
   create_insert |-> "undo_tree",  create_unmark |-> "idle",
   undo_stage |-> "idle",          undo_tree |-> "idle",
   undo_mark |-> "idle",
   publish_stage |-> "idle",       publish_mark |-> "idle",
   publish_seal |-> "idle",        publish_replace |-> "abort_stage",
   publish_commit |-> "rollback_mark", publish_unmark |-> "idle",
   abort_stage |-> "idle",         abort_mark |-> "idle",
   rollback_mark |-> "idle",       rollback_result |-> "idle",
   delete_rename |-> "idle",       delete_commit |-> "delete_restore",
   delete_rmtree |-> "idle",       delete_restore |-> "idle"]

RecoveryStep == {"r_markers", "r_create", "r_create_stage", "r_create_unmark",
                 "r_result", "r_result_stage", "r_result_unmark", "r_staging"}

Step == {"idle"} \cup DOMAIN Handler \cup RecoveryStep

TypeOK ==
  /\ rows \in [JobId -> Row]
  /\ dir \in [JobId -> DirContent]
  /\ createStage \in SUBSET JobId
  /\ resultStage \in [JobId -> Verdict \cup {"none"}]
  /\ tomb \in [JobId -> DirContent]
  /\ createMark \in [JobId -> MarkContent]
  /\ resultMark \in [JobId -> MarkContent]
  /\ proc \in {"closed", "recovering", "open", "refused"}
  /\ pc \in Step
  /\ cur \in JobId
  /\ par \in JobId \cup {NoJob}
  /\ verdict \in Verdict
  /\ nextId \in 1 .. MaxJobs + 1
  /\ crashes \in 0 .. MaxCrashes
  /\ faults \in 0 .. MaxFaults
  /\ history \in {"calm", "raised"}

Init ==
  /\ rows = [j \in JobId |-> NoRow]
  /\ dir = [j \in JobId |-> "absent"]
  /\ createStage = {}
  /\ resultStage = [j \in JobId |-> "none"]
  /\ tomb = [j \in JobId |-> "absent"]
  /\ createMark = [j \in JobId |-> "absent"]
  /\ resultMark = [j \in JobId |-> "absent"]
  /\ proc = "closed" /\ pc = "idle"
  /\ cur = 1 /\ par = NoJob /\ verdict = "accepted"
  /\ nextId = 1 /\ crashes = 0 /\ faults = 0 /\ history = "calm"

\* What _validate_job_storage requires of a job's directory.
ExpectedContent(r) ==
  IF r.state = "succeeded" THEN "accepted"
  ELSE IF r.state = "quality_failed" THEN "rejected" ELSE "inputs"
StorageValid(j) == dir[j] = ExpectedContent(rows[j])

WithoutResult(c) == IF c \in Verdict THEN "inputs" ELSE c

Ready == proc = "open" /\ pc = "idle"
Goto(from, to) == proc = "open" /\ pc = from /\ pc' = to /\ UNCHANGED proc
\* What a call was given ends with it.
Pass(to) == IF to = "idle" THEN par' = NoJob /\ verdict' = "accepted" ELSE UNCHANGED <<par, verdict>>
InCall(from, to) == Goto(from, to) /\ Pass(to) /\ UNCHANGED <<cur, nextId, bounds>>
Committed == UNCHANGED <<disk, proc, pc, args, nextId, bounds>>

-----------------------------------------------------------------------------
(* Calls that are one transaction.                                         *)

ClaimNextQueued ==
  /\ Ready
  /\ \E j \in JobId : IsOldestQueued(rows, j) /\ rows' = Moved(rows, j, "running", "none")
  /\ Committed

RequestCancel ==
  /\ Ready
  /\ \E j \in InState(rows, {"queued", "running"}) :
        rows' = Moved(rows, j, CancelTarget(rows[j].state), CancelCode(rows[j].state))
  /\ Committed

Finish(s, c) ==
  /\ Ready
  /\ \E j \in JobId : CanMove(rows, j, s) /\ rows' = Moved(rows, j, s, c)
  /\ Committed
FinishFailed == Finish("failed", "build_failed")
FinishCancelled == Finish("cancelled", "cancelled_by_request")

-----------------------------------------------------------------------------
(* create and create_retry: _publish_new_job.                              *)

StartNewJob(p) ==
  /\ Ready /\ nextId \in JobId /\ Within(nextId, crashes, faults)
  /\ cur' = nextId /\ par' = p /\ nextId' = nextId + 1
  /\ pc' = "create_stage"
  /\ UNCHANGED <<table, disk, proc, verdict, bounds>>

StartCreate == StartNewJob(NoJob)

\* Mutant: a job that has a retry may be retried again.
StartRetryAgain ==
  \E p \in InState(rows, RetryableStates) : StorageValid(p) /\ StartNewJob(p)

StartRetry ==
  \E p \in InState(rows, RetryableStates) :
     Children(rows, p) = {} /\ StorageValid(p) /\ StartNewJob(p)

CreateStage ==      \* mkdir, two blobs and the checked copy of the PDF
  /\ InCall("create_stage", "create_mark")
  /\ createStage' = createStage \cup {cur}
  /\ UNCHANGED <<table, dir, resultStage, tomb, marks>>

CreateMark ==       \* open(marker, "xb"): the file exists and is empty
  /\ InCall("create_mark", "create_seal")
  /\ createMark' = [createMark EXCEPT ![cur] = "torn"]
  /\ UNCHANGED <<table, dir, stages, resultMark>>

CreateSeal ==       \* write(b"1"), flush, fsync
  /\ InCall("create_seal", "create_rename")
  /\ createMark' = [createMark EXCEPT ![cur] = "valid"]
  /\ UNCHANGED <<table, dir, stages, resultMark>>

CreateRename ==
  /\ InCall("create_rename", "create_insert")
  /\ createStage' = createStage \ {cur}
  /\ dir' = [dir EXCEPT ![cur] = "inputs"]
  /\ UNCHANGED <<table, resultStage, tomb, marks>>

CreateInsert ==
  /\ InCall("create_insert", "create_unmark")
  /\ rows' = [rows EXCEPT ![cur] =
                InitialRow(par, IF par = NoJob THEN 1 ELSE rows[par].attempt + 1)]
  /\ UNCHANGED disk

CreateUnmark ==     \* the call returns the record: the job is acknowledged
  /\ InCall("create_unmark", "idle")
  /\ createMark' = [createMark EXCEPT ![cur] = "absent"]
  /\ UNCHANGED <<table, dir, stages, resultMark>>

UndoTree ==
  /\ InCall("undo_tree", "undo_mark")
  /\ dir' = [dir EXCEPT ![cur] = "absent"]
  /\ UNCHANGED <<table, stages, marks>>

UndoStage ==
  /\ InCall("undo_stage", "undo_mark")
  /\ createStage' = createStage \ {cur}
  /\ UNCHANGED <<table, dir, resultStage, tomb, marks>>

UndoMark ==
  /\ InCall("undo_mark", "idle")
  /\ createMark' = [createMark EXCEPT ![cur] = "absent"]
  /\ UNCHANGED <<table, dir, stages, resultMark>>

-----------------------------------------------------------------------------
(* publish_result.  The stage and the marker are written before the try    *)
(* block: an exception there leaves them behind.                           *)

StartPublish ==
  /\ Ready
  /\ cur' \in Present(rows) /\ verdict' \in Verdict
  /\ pc' = "publish_stage"
  /\ UNCHANGED <<table, disk, proc, par, nextId, bounds>>

PublishStage ==
  /\ InCall("publish_stage", "publish_mark")
  /\ resultStage[cur] = "none"
  /\ resultStage' = [resultStage EXCEPT ![cur] = verdict]
  /\ UNCHANGED <<table, dir, createStage, tomb, marks>>

PublishMark ==
  /\ InCall("publish_mark", "publish_seal")
  /\ resultMark[cur] = "absent"
  /\ resultMark' = [resultMark EXCEPT ![cur] = "torn"]
  /\ UNCHANGED <<table, dir, stages, createMark>>

\* open("xb") finds the file an earlier, failed call left behind.
PublishBlocked ==
  /\ \/ InCall("publish_stage", Handler["publish_stage"]) /\ resultStage[cur] # "none"
     \/ InCall("publish_mark", Handler["publish_mark"]) /\ resultMark[cur] # "absent"
  /\ UNCHANGED <<table, disk>>

PublishSeal ==
  /\ InCall("publish_seal", "publish_replace")
  /\ resultMark' = [resultMark EXCEPT ![cur] = "valid"]
  /\ UNCHANGED <<table, dir, stages, createMark>>

\* Mutant: publishes whatever the state of the job.
PublishReplaceUnchecked ==
  /\ InCall("publish_replace", "publish_commit")
  /\ rows[cur].state \in JobState /\ dir[cur] = "inputs"
  /\ dir' = [dir EXCEPT ![cur] = resultStage[cur]]
  /\ resultStage' = [resultStage EXCEPT ![cur] = "none"]
  /\ UNCHANGED <<table, createStage, tomb, marks>>

PublishReplace ==   \* inside the transaction: checks, then os.replace
  /\ InCall("publish_replace", "publish_commit")
  /\ rows[cur].state = "running" /\ dir[cur] = "inputs"
  /\ dir' = [dir EXCEPT ![cur] = resultStage[cur]]
  /\ resultStage' = [resultStage EXCEPT ![cur] = "none"]
  /\ UNCHANGED <<table, createStage, tomb, marks>>

\* Not running, a result already there, or a result of another document.
PublishRefused ==
  /\ InCall("publish_replace", "abort_stage")
  /\ UNCHANGED <<table, disk>>

PublishCommit ==
  /\ InCall("publish_commit", "publish_unmark")
  /\ rows' = Moved(rows, cur, TargetState(verdict), "none")
  /\ UNCHANGED disk

PublishUnmark ==
  /\ InCall("publish_unmark", "idle")
  /\ resultMark' = [resultMark EXCEPT ![cur] = "absent"]
  /\ UNCHANGED <<table, dir, stages, createMark>>

AbortStage ==
  /\ InCall("abort_stage", "abort_mark")
  /\ resultStage' = [resultStage EXCEPT ![cur] = "none"]
  /\ UNCHANGED <<table, dir, createStage, tomb, marks>>

\* Undoing a publication whose commit failed: the marker goes first, and only
\* then the result it vouches for.
DropResultMark(from, to) ==
  /\ InCall(from, to)
  /\ resultMark' = [resultMark EXCEPT ![cur] = "absent"]
  /\ UNCHANGED <<table, dir, stages, createMark>>
AbortMark == DropResultMark("abort_mark", "idle")
RollbackMark == DropResultMark("rollback_mark", "rollback_result")

RollbackResult ==
  /\ InCall("rollback_result", "idle")
  /\ dir' = [dir EXCEPT ![cur] = IF rows[cur].state \in ResultStates
                                   THEN @ ELSE WithoutResult(@)]
  /\ UNCHANGED <<table, stages, marks>>

-----------------------------------------------------------------------------
(* delete_terminal                                                         *)

StartDelete ==
  /\ Ready
  /\ \E j \in InState(rows, TerminalStates) :
        /\ StorageValid(j) /\ Children(rows, j) = {} /\ tomb[j] = "absent"
        /\ cur' = j
  /\ pc' = "delete_rename"
  /\ UNCHANGED <<table, disk, proc, par, verdict, nextId, bounds>>

DeleteRename ==
  /\ InCall("delete_rename", "delete_commit")
  /\ tomb' = [tomb EXCEPT ![cur] = dir[cur]]
  /\ dir' = [dir EXCEPT ![cur] = "absent"]
  /\ UNCHANGED <<table, createStage, resultStage, marks>>

DeleteCommit ==
  /\ InCall("delete_commit", "delete_rmtree")
  /\ rows' = [rows EXCEPT ![cur] = NoRow]
  /\ UNCHANGED disk

DeleteRmtree ==
  /\ InCall("delete_rmtree", "idle")
  /\ tomb' = [tomb EXCEPT ![cur] = "absent"]
  /\ UNCHANGED <<table, dir, createStage, resultStage, marks>>

DeleteRestore ==
  /\ InCall("delete_restore", "idle")
  /\ dir' = [dir EXCEPT ![cur] = tomb[cur]]
  /\ tomb' = [tomb EXCEPT ![cur] = "absent"]
  /\ UNCHANGED <<table, createStage, resultStage, marks>>

-----------------------------------------------------------------------------
(* The environment: a step raises, the process dies, the owner closes.     *)

StepRaises ==
  /\ faults' = faults + 1 /\ Within(nextId - 1, crashes, faults') /\ history' = "raised"
  /\ proc = "open" /\ pc \in DOMAIN Handler /\ pc' = Handler[pc] /\ Pass(Handler[pc])
  /\ UNCHANGED <<table, disk, proc, cur, nextId, crashes>>

Crash ==
  /\ crashes' = crashes + 1 /\ Within(nextId - 1, crashes', faults)
  /\ proc \in {"open", "recovering"}
  /\ proc' = "closed" /\ pc' = "idle" /\ Pass("idle")
  /\ UNCHANGED <<table, disk, cur, nextId, faults, history>>

Close ==
  /\ Ready /\ proc' = "closed"
  /\ UNCHANGED <<table, disk, pc, args, nextId, bounds>>

-----------------------------------------------------------------------------
(* open(): _recover_owned_storage, one directory entry at a time.          *)

Open ==
  /\ proc \in {"closed", "refused"}
  /\ proc' = "recovering" /\ pc' = "r_markers"
  /\ UNCHANGED <<table, disk, args, nextId, bounds>>

Recovering(from, to) ==
  /\ proc = "recovering" /\ pc = from /\ pc' = to
  /\ UNCHANGED <<table, proc, par, verdict, nextId, bounds>>

\* staging.iterdir() has no order: any valid marker may come next.
NextMarker ==
  /\ \/ cur' \in {j \in JobId : createMark[j] = "valid"} /\ Recovering("r_markers", "r_create")
     \/ cur' \in {j \in JobId : resultMark[j] = "valid"} /\ Recovering("r_markers", "r_result")
     \/ (\A j \in JobId : createMark[j] = "absent" /\ resultMark[j] = "absent")
        /\ Recovering("r_markers", "r_staging") /\ UNCHANGED cur
  /\ UNCHANGED disk

\* Mutant: the marker alone condemns the directory.
RecoverCreateBlind ==
  /\ Recovering("r_create", "r_create_stage") /\ UNCHANGED cur
  /\ dir' = [dir EXCEPT ![cur] = "absent"]
  /\ UNCHANGED <<stages, marks>>

RecoverCreate ==    \* no row: the directory was never committed
  /\ Recovering("r_create", "r_create_stage") /\ UNCHANGED cur
  /\ \/ rows[cur].state = "none" /\ dir' = [dir EXCEPT ![cur] = "absent"]
     \/ rows[cur].state # "none" /\ dir[cur] # "absent" /\ UNCHANGED dir
  /\ UNCHANGED <<stages, marks>>

RecoverCreateStage ==
  /\ Recovering("r_create_stage", "r_create_unmark") /\ UNCHANGED cur
  /\ createStage' = createStage \ {cur}
  /\ UNCHANGED <<dir, resultStage, tomb, marks>>

RecoverCreateUnmark ==
  /\ Recovering("r_create_unmark", "r_markers") /\ UNCHANGED cur
  /\ createMark' = [createMark EXCEPT ![cur] = "absent"]
  /\ UNCHANGED <<dir, stages, resultMark>>

\* The row is committed: finish a rename that did not happen.  With a staged
\* result and a placed one recovery is ambiguous; with a staged result and no
\* job directory os.replace fails.
ResultCommitted == rows[cur].state \in ResultStates
ResultAmbiguous == resultStage[cur] # "none" /\ dir[cur] # "inputs"

\* Mutant: an uncommitted result stays in the job directory.
RecoverResultKeeps ==
  /\ UNCHANGED <<createStage, tomb, marks, cur, dir, resultStage>>
  /\ ~ResultAmbiguous
  /\ Recovering("r_result", IF ResultCommitted THEN "r_result_unmark" ELSE "r_result_stage")

RecoverResult ==
  /\ UNCHANGED <<createStage, tomb, marks, cur>>
  /\ \/ /\ ResultCommitted /\ ~ResultAmbiguous
        /\ Recovering("r_result", "r_result_unmark")
        /\ dir' = [dir EXCEPT ![cur] = IF resultStage[cur] = "none" THEN @ ELSE resultStage[cur]]
        /\ resultStage' = [resultStage EXCEPT ![cur] = "none"]
     \/ /\ ~ResultCommitted
        /\ Recovering("r_result", "r_result_stage")
        /\ dir' = [dir EXCEPT ![cur] = WithoutResult(@)]
        /\ UNCHANGED resultStage

RecoverResultStage ==
  /\ Recovering("r_result_stage", "r_result_unmark") /\ UNCHANGED cur
  /\ resultStage' = [resultStage EXCEPT ![cur] = "none"]
  /\ UNCHANGED <<dir, createStage, tomb, marks>>

RecoverResultUnmark ==
  /\ Recovering("r_result_unmark", "r_markers") /\ UNCHANGED cur
  /\ resultMark' = [resultMark EXCEPT ![cur] = "absent"]
  /\ UNCHANGED <<dir, stages, createMark>>

\* Mutant: a swept entry is still there when the loop looks again.
SweepStageKeeps ==
  /\ Recovering("r_staging", "r_staging") /\ UNCHANGED <<cur, dir, tomb, marks>>
  /\ createStage # {} /\ UNCHANGED <<createStage, resultStage>>

\* The second loop over .staging: what no marker vouched for.
SweepStage ==
  /\ Recovering("r_staging", "r_staging") /\ UNCHANGED <<cur, dir, tomb, marks>>
  /\ \/ \E j \in createStage : createStage' = createStage \ {j} /\ UNCHANGED resultStage
     \/ \E j \in JobId : /\ resultStage[j] # "none"
                         /\ resultStage' = [resultStage EXCEPT ![j] = "none"]
                         /\ UNCHANGED createStage

SweepTombstone ==
  /\ Recovering("r_staging", "r_staging")
  /\ \E j \in JobId :
        /\ tomb[j] # "absent"
        /\ tomb' = [tomb EXCEPT ![j] = "absent"]
        /\ IF rows[j].state = "none" THEN UNCHANGED dir
           ELSE dir[j] = "absent" /\ dir' = [dir EXCEPT ![j] = tomb[j]]
  /\ UNCHANGED <<cur, createStage, resultStage, marks>>

StagingEmpty ==
  /\ createStage = {}
  /\ \A j \in JobId : resultStage[j] = "none" /\ tomb[j] = "absent"
LayoutValid ==
  \A j \in JobId : IF rows[j].state = "none" THEN dir[j] = "absent" ELSE StorageValid(j)

RecoverCommit ==
  /\ proc = "recovering" /\ pc = "r_staging" /\ StagingEmpty /\ LayoutValid
  /\ rows' = Interrupted(rows)
  /\ proc' = "open" /\ pc' = "idle" /\ history' = "calm"
  /\ UNCHANGED <<disk, args, nextId, crashes, faults>>

\* Every way recovery raises instead of repairing.
Untrusted ==
  \/ pc = "r_markers" /\ \E j \in JobId : createMark[j] = "torn" \/ resultMark[j] = "torn"
  \/ pc = "r_markers" /\ ~RetryGraphValid(rows)
  \/ pc = "r_create" /\ rows[cur].state # "none" /\ dir[cur] = "absent"
  \/ pc = "r_result" /\ ResultCommitted /\ ResultAmbiguous
  \/ pc = "r_staging" /\ \E j \in JobId :
       tomb[j] # "absent" /\ rows[j].state # "none" /\ dir[j] # "absent"
  \/ pc = "r_staging" /\ StagingEmpty /\ ~LayoutValid

OpenRefused ==
  /\ proc = "recovering" /\ Untrusted
  /\ proc' = "refused" /\ pc' = "idle"
  /\ UNCHANGED <<table, disk, args, nextId, bounds>>

-----------------------------------------------------------------------------
SingleTransaction == ClaimNextQueued \/ RequestCancel \/ FinishFailed \/ FinishCancelled

CreateNext ==
  \/ StartCreate \/ StartRetry \/ CreateStage \/ CreateMark \/ CreateSeal
  \/ CreateRename \/ CreateInsert \/ CreateUnmark \/ UndoTree \/ UndoStage \/ UndoMark

PublishNext ==
  \/ StartPublish \/ PublishStage \/ PublishMark \/ PublishBlocked \/ PublishSeal
  \/ PublishReplace \/ PublishRefused \/ PublishCommit \/ PublishUnmark
  \/ AbortStage \/ AbortMark \/ RollbackMark \/ RollbackResult

DeleteNext ==
  StartDelete \/ DeleteRename \/ DeleteCommit \/ DeleteRmtree \/ DeleteRestore

RecoveryNext ==
  \/ NextMarker \/ RecoverCreate \/ RecoverCreateStage \/ RecoverCreateUnmark
  \/ RecoverResult \/ RecoverResultStage \/ RecoverResultUnmark
  \/ SweepStage \/ SweepTombstone \/ RecoverCommit \/ OpenRefused

Next ==
  \/ SingleTransaction \/ CreateNext \/ PublishNext \/ DeleteNext
  \/ StepRaises \/ Crash \/ Close \/ Open \/ RecoveryNext

Spec == Init /\ [][Next]_vars

\* open() runs to its end unless the process dies: nothing in it waits.
FairSpec == Spec /\ WF_vars(RecoveryNext)

-----------------------------------------------------------------------------
(* Properties.                                                             *)

\* The content a job has, wherever a deletion in progress has put it.
Held(j) == IF tomb[j] # "absent" THEN tomb[j] ELSE dir[j]

AdvertisedResults ==
  [j \in JobId |-> IF rows[j].state \in ResultStates THEN Held(j) ELSE "none"]

Ledger == INSTANCE JobLedger WITH results <- AdvertisedResults

\* Whatever crashed or raised, the store is the ledger its callers were
\* promised: each call is one atomic change of rows and advertised results
\* (repository.py, all of create, publish_result, delete_terminal, open).
ImplementsLedger == Ledger!LedgerSpec

\* Rows always pass the validators that every load and every open run: a
\* retry's parent is there, eligible and one attempt behind, and has no other
\* child, although it may be deleted and retried by concurrent calls
\* (create_retry and delete_terminal check for children; both may crash).
RetryChainsSound == Ledger!RowsLoad /\ Ledger!OneRetryChild

\* An acknowledged job is available after close and reopen: a committed row
\* has its three blobs, in place or in the tombstone recovery restores, and a
\* result state has exactly the result that decided it (_publish_new_job,
\* publish_result, delete_terminal and _recover_owned_storage together).
RowsBacked ==
  \A j \in Present(rows) :
     /\ WithoutResult(Held(j)) = "inputs"
     /\ rows[j].state \in ResultStates => Held(j) = ExpectedContent(rows[j])

StrayResult(j) == dir[j] \in Verdict /\ rows[j].state \notin ResultStates

\* A root that opened is as good as new, whatever crashed or raised before: as long
\* as no step has raised since, a result file on a job that is not in a result
\* state is vouched for by its pending marker, so that recovery may remove it
\* (publish_result 302-324), and between calls nothing is staged, no marker is
\* pending and every directory is what its row expects, so that get() never finds
\* storage invalid and a close here reopens (open 116-145, get 200-212).  A
\* publication whose commit raises breaks this: its rollback drops the marker
\* first (325-340).
QuietStoreClean ==
  history = "calm" =>
     /\ \A j \in JobId : StrayResult(j) => resultMark[j] = "valid"
     /\ Ready => /\ StagingEmpty /\ LayoutValid
                 /\ \A j \in JobId : createMark[j] = "absent" /\ resultMark[j] = "absent"

\* The only damage that makes open() refuse a root for good: a marker caught
\* between its creation and its first byte, a result that lost its marker, a
\* create marker nobody removed on a job caught halfway through deletion, or a
\* second publication of a published job caught before its conflict check
\* (_recover_pending_markers 579-613, 524-527).
TornMark == \E j \in JobId : createMark[j] = "torn" \/ resultMark[j] = "torn"
UnmarkedResult == \E j \in JobId : StrayResult(j) /\ resultMark[j] # "valid"
MarkedTombstone ==
  \E j \in Present(rows) : createMark[j] = "valid" /\ dir[j] = "absent"
SecondResult ==
  \E j \in JobId : /\ resultMark[j] = "valid" /\ resultStage[j] # "none"
                  /\ rows[j].state \in ResultStates
RefusalExplained ==
  proc = "refused" => TornMark \/ UnmarkedResult \/ MarkedTombstone \/ SecondResult

\* Whatever is interrupted or raises, the two stores never disagree but in one of
\* the ways recovery repairs or is named above (open 116-145, 579-613).
OnlyNamedDamage == QuietStoreClean /\ RefusalExplained

\* The documentation's promise, with no exception: uncommitted entries are
\* removed and the store opens (service-job-storage-v1.md 71-75).
OpenNeverRefused == proc # "refused"

\* Recovery always ends, whatever it finds: each entry of .staging is handled
\* once and never comes back (_recover_owned_storage 488-528).
RecoveryTerminates == proc = "recovering" ~> proc # "recovering"
=============================================================================
