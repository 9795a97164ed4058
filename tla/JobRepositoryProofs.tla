------------------------- MODULE JobRepositoryProofs -------------------------
(***************************************************************************)
(* For every number of jobs, crashes and failing steps: the repository's   *)
(* variables keep their types, every committed row is backed by its files, *)
(* and the repository implements the ledger of JobLedger.                  *)
(*                                                                         *)
(* RowsBacked alone is not inductive: it has to know what a call between   *)
(* two of its steps relies on.  StoreInv adds just that: an ID not yet     *)
(* allocated has left no trace, a tombstone and a job directory never      *)
(* exist together, and each call's own facts about its job, which nothing  *)
(* disturbs because one call holds the mutex.  DamageInv says in addition  *)
(* that a directory without a row has its marker until recovery is past    *)
(* it, and QuietInv what each crash leaves of a job as long as no step has *)
(* raised.                                                                 *)
(***************************************************************************)
EXTENDS JobRepository, TLAPS

\* Nothing was ever renamed to a tombstone, or committed, under a future ID.
FreshIds ==
  \A j \in JobId : j >= nextId => rows[j].state = "none" /\ tomb[j] = "absent"

TombstoneReplacesDir ==
  \A j \in Present(rows) : tomb[j] # "absent" => dir[j] = "absent"

\* Before its commit a create owns the youngest ID and a parent it may retry.
CreateStep == {"create_stage", "create_mark", "create_seal", "create_rename",
               "create_insert", "undo_tree"}
Eligible(p) == rows[p].state \in RetryableStates /\ Children(rows, p) = {}
CreateInv ==
  pc \in CreateStep =>
    /\ rows[cur].state = "none" /\ tomb[cur] = "absent" /\ cur < nextId
    /\ \A k \in Present(rows) : k < cur
    /\ par # NoJob => Eligible(par)
    /\ pc = "create_insert" => dir[cur] = "inputs"

\* The staged result is the one the call was given, and then the placed one.
PublishInv ==
  /\ pc \in {"publish_mark", "publish_seal", "publish_replace"} => resultStage[cur] = verdict
  /\ pc = "publish_commit" =>
       rows[cur].state = "running" /\ dir[cur] = verdict /\ tomb[cur] = "absent"

\* A deletion works on a terminal row without children, and its directory is
\* either in place or in the tombstone.
Deletable(j) == rows[j].state \in TerminalStates /\ Children(rows, j) = {}
DeleteInv ==
  /\ pc = "delete_rename" =>
       Deletable(cur) /\ tomb[cur] = "absent" /\ dir[cur] = ExpectedContent(rows[cur])
  /\ pc \in {"delete_commit", "delete_restore"} =>
       Deletable(cur) /\ dir[cur] = "absent" /\ tomb[cur] = ExpectedContent(rows[cur])
  /\ pc = "delete_rmtree" => rows[cur].state = "none"

CallInv == CreateInv /\ PublishInv /\ DeleteInv
StoreInv == TypeOK /\ FreshIds /\ TombstoneReplacesDir /\ RowsBacked /\ CallInv

-----------------------------------------------------------------------------
(* Types.                                                                  *)

LEMMA StepValues ==
  /\ DOMAIN Handler =
       {"create_stage", "create_mark", "create_seal", "create_rename", "create_insert",
        "create_unmark", "undo_stage", "undo_tree", "undo_mark", "publish_stage",
        "publish_mark", "publish_seal", "publish_replace", "publish_commit",
        "publish_unmark", "abort_stage", "abort_mark", "rollback_mark",
        "rollback_result", "delete_rename", "delete_commit", "delete_rmtree",
        "delete_restore"}
  /\ "idle" \in Step /\ DOMAIN Handler \subseteq Step /\ RecoveryStep \subseteq Step
BY DEF Handler, Step

\* An exception leads out of the call or into its own cleanup.
LEMMA HandlerTargets ==
  \A s \in DOMAIN Handler :
    /\ Handler[s] \in {"idle", "undo_stage", "undo_tree", "abort_stage",
                       "rollback_mark", "delete_restore"}
    /\ Handler[s] = "undo_stage" =>
         s \in {"create_stage", "create_mark", "create_seal", "create_rename"}
    /\ Handler[s] = "undo_tree" => s = "create_insert"
    /\ Handler[s] = "delete_restore" => s = "delete_commit"
BY DEF Handler

LEMMA MovedType ==
  ASSUME NEW r \in [JobId -> Row], NEW j \in JobId,
         NEW s \in JobState, NEW c \in DiagnosticCode
  PROVE  Moved(r, j, s, c) \in [JobId -> Row]
BY DEF Moved, Row

LEMMA InterruptedType ==
  ASSUME NEW r \in [JobId -> Row]
  PROVE  Interrupted(r) \in [JobId -> Row]
<1> SUFFICES ASSUME NEW j \in JobId PROVE Interrupted(r)[j] \in Row
  BY DEF Interrupted
<1>1. r[j] \in Row
  OBVIOUS
<1>2. [[r[j] EXCEPT !.state = "failed"] EXCEPT !.code = "worker_interrupted"] \in Row
  BY <1>1 DEF Row, JobState, DiagnosticCode
<1>3. [[r[j] EXCEPT !.state = "cancelled"] EXCEPT !.code = "cancelled_by_request"] \in Row
  BY <1>1 DEF Row, JobState, DiagnosticCode
<1> QED
  BY <1>1, <1>2, <1>3 DEF Interrupted

LEMMA InitTypeOK == Init => TypeOK
BY MaxJobsAssumption, BoundsAssumption, StepValues
   DEF Init, TypeOK, NoRow, Row, NoJob, JobId, DiagnosticCode, DirContent, MarkContent, Verdict

\* The staged result has to be the call's for its rename to keep dir's type.
LEMMA NextTypeOK == TypeOK /\ PublishInv /\ [Next]_vars => TypeOK'
<1> SUFFICES ASSUME TypeOK, PublishInv, [Next]_vars PROVE TypeOK'
  OBVIOUS
<1> USE DEF TypeOK, table, disk, marks, stages, args, bounds, Committed, Goto, Pass, InCall, Ready, Within
<1>1. CASE SingleTransaction
  <2> USE DEF JobState, DiagnosticCode
  <2>1. CASE ClaimNextQueued
    BY <2>1, MovedType DEF ClaimNextQueued
  <2>2. CASE RequestCancel
    BY <2>2, MovedType DEF RequestCancel, InState, CancelTarget, CancelCode
  <2>3. CASE FinishFailed
    BY <2>3, MovedType DEF FinishFailed, Finish
  <2>4. CASE FinishCancelled
    BY <2>4, MovedType DEF FinishCancelled, Finish
  <2> QED
    BY <1>1, <2>1, <2>2, <2>3, <2>4 DEF SingleTransaction
<1>2. CASE CreateNext
  <2>1. ASSUME NEW p \in JobId \cup {NoJob}, StartNewJob(p) PROVE TypeOK'
    <3>1. nextId \in JobId /\ nextId + 1 \in 1 .. MaxJobs + 1
      BY <2>1, MaxJobsAssumption DEF StartNewJob, JobId
    <3> QED
      BY <2>1, <3>1, StepValues DEF StartNewJob
  <2>2. CASE CreateInsert
    <3>1. /\ "queued" \in JobState \cup {"none"} /\ "none" \in DiagnosticCode
          /\ (IF par = NoJob THEN 1 ELSE rows[par].attempt + 1) \in Nat
      BY DEF JobState, DiagnosticCode, Row
    <3>2. InitialRow(par, IF par = NoJob THEN 1 ELSE rows[par].attempt + 1) \in Row
      BY <3>1 DEF InitialRow, Row
    <3> QED
      BY <2>2, <3>2, StepValues DEF CreateInsert
  <2>3. CASE CreateStage
    BY <2>3, StepValues DEF CreateStage
  <2>4. CASE CreateMark \/ CreateSeal
    BY <2>4, StepValues DEF CreateMark, CreateSeal, MarkContent
  <2>6. CASE CreateUnmark
    BY <2>6, StepValues DEF CreateUnmark, MarkContent, Verdict
  <2>7. CASE UndoMark
    BY <2>7, StepValues DEF UndoMark, MarkContent, Verdict
  <2>5. CASE CreateRename \/ UndoTree \/ UndoStage
    BY <2>5, StepValues DEF CreateRename, UndoTree, UndoStage, DirContent
  <2> QED
    BY <1>2, <2>1, <2>2, <2>3, <2>4, <2>5, <2>6, <2>7 DEF CreateNext, StartCreate, StartRetry, InState
<1>3. CASE PublishNext
  <2> USE DEF Verdict, DirContent, MarkContent
  <2>1. CASE StartPublish
    BY <2>1, StepValues DEF StartPublish, Present
  <2>2. CASE PublishStage \/ AbortStage
    BY <2>2, StepValues DEF PublishStage, AbortStage
  <2>3. CASE PublishMark \/ PublishSeal \/ PublishUnmark \/ AbortMark \/ RollbackMark
    BY <2>3, StepValues DEF PublishMark, PublishSeal, PublishUnmark, AbortMark, RollbackMark, DropResultMark
  <2>4. CASE PublishBlocked
    BY <2>4, StepValues DEF PublishBlocked, Handler
  <2>5. CASE PublishReplace
    BY <2>5, StepValues DEF PublishReplace, PublishInv
  <2>6. CASE PublishRefused
    BY <2>6, StepValues DEF PublishRefused
  <2>7. CASE PublishCommit
    <3>1. TargetState(verdict) \in JobState /\ "none" \in DiagnosticCode
      BY DEF TargetState, JobState, DiagnosticCode
    <3> QED
      BY <2>7, <3>1, MovedType, StepValues DEF PublishCommit
  <2>8. CASE RollbackResult
    BY <2>8, StepValues DEF RollbackResult, WithoutResult
  <2> QED
    BY <1>3, <2>1, <2>2, <2>3, <2>4, <2>5, <2>6, <2>7, <2>8 DEF PublishNext
<1>4. CASE DeleteNext
  <2>1. CASE StartDelete
    BY <2>1, StepValues DEF StartDelete, InState
  <2>2. CASE DeleteCommit
    BY <2>2, StepValues DEF DeleteCommit, NoRow, NoJob, Row, DiagnosticCode
  <2>3. CASE DeleteRename
    BY <2>3, StepValues DEF DeleteRename, DirContent
  <2>4. CASE DeleteRmtree
    BY <2>4, StepValues DEF DeleteRmtree, DirContent, Verdict
  <2>5. CASE DeleteRestore
    BY <2>5, StepValues DEF DeleteRestore, DirContent, Verdict
  <2> QED
    BY <1>4, <2>1, <2>2, <2>3, <2>4, <2>5 DEF DeleteNext
<1>5. CASE StepRaises
  <2>1. Handler[pc] \in Step
    BY <1>5, HandlerTargets, StepValues DEF StepRaises
  <2>2. par' \in JobId \cup {NoJob} /\ verdict' \in Verdict
    BY <1>5 DEF StepRaises, Verdict
  <2>3. faults' \in 0 .. MaxFaults /\ history' \in {"calm", "raised"}
    BY <1>5, BoundsAssumption DEF StepRaises
  <2> QED
    BY <1>5, <2>1, <2>2, <2>3 DEF StepRaises
<1>6. CASE Crash
  <2>1. par' \in JobId \cup {NoJob} /\ verdict' \in Verdict
    BY <1>6 DEF Crash, Verdict
  <2>2. crashes' \in 0 .. MaxCrashes
    BY <1>6, BoundsAssumption DEF Crash
  <2> QED
    BY <1>6, <2>1, <2>2, StepValues DEF Crash
<1>8. CASE Close \/ Open
  BY <1>8, StepValues DEF Close, Open, RecoveryStep
<1>7. CASE RecoveryNext
  <2> USE StepValues DEF Recovering, RecoveryStep
  <2>1. CASE NextMarker
    BY <2>1 DEF NextMarker
  <2>2. CASE RecoverCreate \/ RecoverCreateStage
    BY <2>2 DEF RecoverCreate, RecoverCreateStage, DirContent
  <2>3. CASE RecoverCreateUnmark \/ RecoverResultUnmark
    BY <2>3 DEF RecoverCreateUnmark, RecoverResultUnmark, MarkContent
  <2>4. CASE RecoverResult
    BY <2>4 DEF RecoverResult, DirContent, Verdict, WithoutResult
  <2>5. CASE RecoverResultStage \/ SweepStage
    BY <2>5 DEF RecoverResultStage, SweepStage
  <2>6. CASE SweepTombstone
    BY <2>6 DEF SweepTombstone, DirContent
  <2>7. CASE RecoverCommit
    BY <2>7, InterruptedType DEF RecoverCommit
  <2>8. CASE OpenRefused
    BY <2>8 DEF OpenRefused
  <2> QED
    BY <1>7, <2>1, <2>2, <2>3, <2>4, <2>5, <2>6, <2>7, <2>8 DEF RecoveryNext
<1>9. CASE UNCHANGED vars
  BY <1>9 DEF vars
<1> QED
  BY <1>1, <1>2, <1>3, <1>4, <1>5, <1>6, <1>7, <1>8, <1>9 DEF Next

-----------------------------------------------------------------------------
(* Files behind rows.                                                      *)

StorageInv == FreshIds /\ TombstoneReplacesDir /\ RowsBacked

\* Moving one row between states that advertise no result needs no files.
LEMMA MoveKeepsStorage ==
  ASSUME TypeOK, StorageInv, NEW j \in Present(rows),
         NEW s \in JobState \ ResultStates, NEW c \in DiagnosticCode,
         rows' = Moved(rows, j, s, c), UNCHANGED <<dir, tomb, nextId>>
  PROVE  StorageInv'
<1>1. /\ j \in JobId /\ rows'[j].state = s
      /\ \A k \in JobId : k # j => rows'[k] = rows[k]
  BY DEF TypeOK, Present, Moved, Row
<1>2. Present(rows') = Present(rows)
  BY <1>1 DEF Present, JobState
<1> QED
  BY <1>1, <1>2 DEF StorageInv, FreshIds, TombstoneReplacesDir, RowsBacked, Held, Present, JobState

LEMMA TransactionKeepsStorage ==
  TypeOK /\ StorageInv /\ SingleTransaction => StorageInv'
<1> SUFFICES ASSUME TypeOK, StorageInv, SingleTransaction PROVE StorageInv'
  OBVIOUS
<1> USE DEF Committed, disk, stages, JobState, ResultStates, DiagnosticCode, Present
<1>1. CASE ClaimNextQueued
  BY <1>1, MoveKeepsStorage DEF ClaimNextQueued, IsOldestQueued
<1>2. CASE RequestCancel
  BY <1>2, MoveKeepsStorage DEF RequestCancel, InState, CancelTarget, CancelCode
<1>3. CASE FinishFailed
  BY <1>3, MoveKeepsStorage DEF FinishFailed, Finish, CanMove, LegalTransitions
<1>4. CASE FinishCancelled
  BY <1>4, MoveKeepsStorage DEF FinishCancelled, Finish, CanMove, LegalTransitions
<1> QED
  BY <1>1, <1>2, <1>3, <1>4 DEF SingleTransaction

LEMMA CreateKeepsStorage ==
  TypeOK /\ StorageInv /\ CreateInv /\ CreateNext => StorageInv'
<1> SUFFICES ASSUME TypeOK, StorageInv, CreateInv, CreateNext PROVE StorageInv'
  OBVIOUS
<1> USE DEF TypeOK, StorageInv, FreshIds, TombstoneReplacesDir, RowsBacked, Held,
            table, disk, stages, marks, args, InCall, Goto
<1>1. CASE CreateInsert
  <2>1. /\ rows'[cur].state = "queued"
        /\ \A k \in JobId : k # cur => rows'[k] = rows[k]
    BY <1>1 DEF CreateInsert, InitialRow
  <2>2. Held(cur) = "inputs" /\ tomb[cur] = "absent" /\ cur < nextId
    BY <1>1 DEF CreateInsert, CreateInv, CreateStep
  <2>3. Present(rows') = Present(rows) \cup {cur} /\ UNCHANGED <<dir, tomb, nextId>>
    BY <1>1, <2>1 DEF Present, CreateInsert
  <2>4. FreshIds'
    BY <2>1, <2>2, <2>3, MaxJobsAssumption DEF JobId
  <2>5. TombstoneReplacesDir'
    BY <2>1, <2>2, <2>3
  <2>6. RowsBacked'
    <3>1. WithoutResult("inputs") = "inputs" /\ rows'[cur].state \notin ResultStates
      BY <2>1 DEF WithoutResult, Verdict, ResultStates
    <3>2. \A k \in Present(rows) : k # cur /\ k \in JobId
      BY <1>1 DEF CreateInsert, CreateInv, CreateStep, Present
    <3> QED
      BY <2>1, <2>2, <2>3, <3>1, <3>2
  <2> QED
    BY <2>4, <2>5, <2>6
<1>2. CASE CreateRename \/ UndoTree
  <2>1. rows[cur].state = "none" /\ \A k \in JobId : k # cur => dir'[k] = dir[k]
    BY <1>2 DEF CreateRename, UndoTree, CreateInv, CreateStep
  <2> QED
    BY <1>2, <2>1 DEF CreateRename, UndoTree, Present
<1>3. ASSUME NEW p \in JobId \cup {NoJob}, StartNewJob(p) PROVE StorageInv'
  BY <1>3, MaxJobsAssumption DEF StartNewJob, JobId
<1>4. CASE CreateStage \/ CreateMark \/ CreateSeal \/ CreateUnmark \/ UndoStage \/ UndoMark
  BY <1>4 DEF CreateStage, CreateMark, CreateSeal, CreateUnmark, UndoStage, UndoMark
<1> QED
  BY <1>1, <1>2, <1>3, <1>4 DEF CreateNext, StartCreate, StartRetry, InState

LEMMA PublishKeepsStorage ==
  TypeOK /\ StorageInv /\ PublishInv /\ PublishNext => StorageInv'
<1> SUFFICES ASSUME TypeOK, StorageInv, PublishInv, PublishNext PROVE StorageInv'
  OBVIOUS
<1> USE DEF TypeOK, StorageInv, FreshIds, TombstoneReplacesDir, RowsBacked, Held,
            table, disk, stages, marks, args, InCall, Goto
<1>1. CASE PublishReplace
  <2>1. /\ rows[cur].state = "running" /\ dir[cur] = "inputs" /\ tomb[cur] = "absent"
        /\ dir'[cur] \in Verdict /\ \A k \in JobId : k # cur => dir'[k] = dir[k]
    BY <1>1 DEF PublishReplace, PublishInv, Present
  <2> QED
    BY <1>1, <2>1 DEF PublishReplace, Present, WithoutResult, ResultStates
<1>2. CASE PublishCommit
  <2>1. /\ rows'[cur].state = TargetState(verdict)
        /\ \A k \in JobId : k # cur => rows'[k] = rows[k]
        /\ rows[cur].state = "running" /\ dir[cur] = verdict /\ tomb[cur] = "absent"
    BY <1>2 DEF PublishCommit, PublishInv, Moved, Row
  <2>2. Present(rows') = Present(rows) /\ UNCHANGED <<dir, tomb, nextId>>
    BY <1>2, <2>1 DEF Present, PublishCommit, TargetState
  <2>3. WithoutResult(verdict) = "inputs" /\ ExpectedContent(rows'[cur]) = verdict
    BY <2>1 DEF WithoutResult, ExpectedContent, TargetState, Verdict
  <2> QED
    BY <2>1, <2>2, <2>3 DEF Present
<1>3. CASE RollbackResult
  <2>1. /\ rows[cur].state \in ResultStates => dir'[cur] = dir[cur]
        /\ rows[cur].state \notin ResultStates => dir'[cur] = WithoutResult(dir[cur])
        /\ \A k \in JobId : k # cur => dir'[k] = dir[k]
    BY <1>3 DEF RollbackResult
  <2>2. WithoutResult(WithoutResult(dir[cur])) = WithoutResult(dir[cur])
        /\ (dir[cur] = "absent" => WithoutResult(dir[cur]) = "absent")
    BY DEF WithoutResult, Verdict
  <2> QED
    BY <1>3, <2>1, <2>2 DEF RollbackResult, Present
<1>4. CASE StartPublish
  BY <1>4 DEF StartPublish
<1>5. CASE PublishStage \/ PublishMark \/ PublishBlocked \/ PublishSeal \/ PublishRefused
  BY <1>5 DEF PublishStage, PublishMark, PublishBlocked, PublishSeal, PublishRefused
<1>6. CASE PublishUnmark \/ AbortStage \/ AbortMark \/ RollbackMark
  BY <1>6 DEF PublishUnmark, AbortStage, AbortMark, RollbackMark, DropResultMark
<1> QED
  BY <1>1, <1>2, <1>3, <1>4, <1>5, <1>6 DEF PublishNext

LEMMA DeleteKeepsStorage ==
  TypeOK /\ StorageInv /\ DeleteInv /\ DeleteNext => StorageInv'
<1> SUFFICES ASSUME TypeOK, StorageInv, DeleteInv, DeleteNext PROVE StorageInv'
  OBVIOUS
<1> USE DEF TypeOK, StorageInv, FreshIds, TombstoneReplacesDir, RowsBacked, Held,
            table, disk, stages, marks, args, InCall, Goto
<1>1. CASE StartDelete
  BY <1>1 DEF StartDelete
<1>2. CASE DeleteRename
  <2>1. /\ tomb[cur] = "absent" /\ dir'[cur] = "absent" /\ tomb'[cur] = dir[cur]
        /\ rows[cur].state # "none"
        /\ \A k \in JobId : k # cur => dir'[k] = dir[k] /\ tomb'[k] = tomb[k]
    BY <1>2 DEF DeleteRename, DeleteInv, Deletable, TerminalStates
  <2> QED
    BY <1>2, <2>1 DEF DeleteRename, Present
<1>3. CASE DeleteCommit
  <2>1. rows'[cur].state = "none" /\ \A k \in JobId : k # cur => rows'[k] = rows[k]
    BY <1>3 DEF DeleteCommit, NoRow
  <2>2. rows[cur].state # "none" /\ UNCHANGED <<dir, tomb, nextId>>
    BY <1>3 DEF DeleteCommit, DeleteInv, Deletable, TerminalStates
  <2> QED
    BY <2>1, <2>2 DEF Present
<1>4. CASE DeleteRmtree
  <2>1. rows[cur].state = "none" /\ tomb'[cur] = "absent"
        /\ \A k \in JobId : k # cur => tomb'[k] = tomb[k]
    BY <1>4 DEF DeleteRmtree, DeleteInv
  <2> QED
    BY <1>4, <2>1 DEF DeleteRmtree, Present
<1>5. CASE DeleteRestore
  <2>1. /\ tomb[cur] # "absent" /\ dir'[cur] = tomb[cur] /\ tomb'[cur] = "absent"
        /\ \A k \in JobId : k # cur => dir'[k] = dir[k] /\ tomb'[k] = tomb[k]
    BY <1>5 DEF DeleteRestore, DeleteInv, ExpectedContent
  <2> QED
    BY <1>5, <2>1 DEF DeleteRestore, Present
<1> QED
  BY <1>1, <1>2, <1>3, <1>4, <1>5 DEF DeleteNext

LEMMA RecoveryKeepsStorage ==
  TypeOK /\ StorageInv /\ RecoveryNext => StorageInv'
<1> SUFFICES ASSUME TypeOK, StorageInv, RecoveryNext PROVE StorageInv'
  OBVIOUS
<1> USE DEF TypeOK, StorageInv, FreshIds, TombstoneReplacesDir, RowsBacked, Held,
            table, disk, stages, marks, args, Recovering
<1>1. CASE RecoverCreate
  BY <1>1 DEF RecoverCreate, Present
<1>2. CASE RecoverResult
  <2>1. CASE ResultCommitted /\ ~ResultAmbiguous
    <3>1. rows[cur].state # "none" /\ ResultStates \subseteq JobState
      BY <2>1 DEF ResultCommitted, ResultStates, JobState
    <3>2. dir' = dir
      BY <1>2, <2>1, <3>1 DEF RecoverResult, ResultCommitted, ResultAmbiguous, ResultStates,
                              ExpectedContent, Present
    <3> QED
      BY <1>2, <3>2 DEF RecoverResult
  <2>2. CASE ~ResultCommitted
    <3>1. /\ dir'[cur] = WithoutResult(dir[cur])
          /\ \A k \in JobId : k # cur => dir'[k] = dir[k]
      BY <1>2, <2>2 DEF RecoverResult
    <3>2. WithoutResult(WithoutResult(dir[cur])) = WithoutResult(dir[cur])
          /\ (dir[cur] = "absent" => WithoutResult(dir[cur]) = "absent")
      BY DEF WithoutResult, Verdict
    <3> QED
      BY <1>2, <2>2, <3>1, <3>2 DEF RecoverResult, ResultCommitted, Present
  <2> QED
    BY <1>2, <2>1, <2>2 DEF RecoverResult
<1>3. CASE SweepTombstone
  <2> PICK j \in JobId :
        /\ tomb[j] # "absent"
        /\ tomb' = [tomb EXCEPT ![j] = "absent"]
        /\ IF rows[j].state = "none" THEN UNCHANGED dir
           ELSE dir[j] = "absent" /\ dir' = [dir EXCEPT ![j] = tomb[j]]
    BY <1>3 DEF SweepTombstone
  <2> QED
    BY <1>3 DEF SweepTombstone, Present
<1>4. CASE RecoverCommit
  <2>1. \A k \in JobId :
          IF rows[k].state \in {"running", "cancel_requested"}
            THEN rows'[k].state \in {"failed", "cancelled"}
            ELSE rows'[k] = rows[k]
    <3> SUFFICES ASSUME NEW k \in JobId
                 PROVE  IF rows[k].state \in {"running", "cancel_requested"}
                          THEN rows'[k].state \in {"failed", "cancelled"}
                          ELSE rows'[k] = rows[k]
      OBVIOUS
    <3>1. rows[k] \in Row
      OBVIOUS
    <3> QED
      BY <1>4, <3>1 DEF RecoverCommit, Interrupted, Row
  <2>2. Present(rows') = Present(rows) /\ UNCHANGED <<dir, tomb, nextId>>
    BY <1>4, <2>1 DEF RecoverCommit, Present
  <2> QED
    BY <2>1, <2>2 DEF ResultStates, Present
<1>5. CASE NextMarker \/ RecoverCreateStage \/ RecoverCreateUnmark
  BY <1>5 DEF NextMarker, RecoverCreateStage, RecoverCreateUnmark
<1>6. CASE RecoverResultStage \/ RecoverResultUnmark \/ SweepStage \/ OpenRefused
  BY <1>6 DEF RecoverResultStage, RecoverResultUnmark, SweepStage, OpenRefused
<1> QED
  BY <1>1, <1>2, <1>3, <1>4, <1>5, <1>6 DEF RecoveryNext

LEMMA NextStorageInv ==
  TypeOK /\ StorageInv /\ CallInv /\ [Next]_vars => StorageInv'
<1> SUFFICES ASSUME TypeOK, StorageInv, CallInv, [Next]_vars PROVE StorageInv'
  OBVIOUS
<1>1. CASE StepRaises \/ Crash \/ Close \/ Open
  BY <1>1 DEF StepRaises, Crash, Close, Open, StorageInv, FreshIds, TombstoneReplacesDir,
              RowsBacked, Held, table, disk, stages, args
<1>2. CASE UNCHANGED vars
  BY <1>2 DEF vars, StorageInv, FreshIds, TombstoneReplacesDir, RowsBacked, Held
<1> QED
  BY <1>1, <1>2, TransactionKeepsStorage, CreateKeepsStorage, PublishKeepsStorage,
     DeleteKeepsStorage, RecoveryKeepsStorage DEF CallInv, Next

-----------------------------------------------------------------------------
(* What a call knows of its job.                                           *)

\* The steps a call takes with nothing to remember: CallInv says nothing there.
FreeStep == {"idle", "create_unmark", "undo_stage", "undo_mark", "publish_stage",
             "publish_unmark", "abort_stage", "abort_mark", "rollback_mark",
             "rollback_result"} \cup RecoveryStep

LEMMA FreeStepHasCallInv == ASSUME pc' \in FreeStep PROVE CallInv'
BY DEF FreeStep, RecoveryStep, CallInv, CreateInv, CreateStep, PublishInv, DeleteInv

LEMMA CreateKeepsCallInv ==
  TypeOK /\ StorageInv /\ CallInv /\ CreateNext => CallInv'
<1> SUFFICES ASSUME TypeOK, StorageInv, CallInv, CreateNext PROVE CallInv'
  OBVIOUS
<1> USE DEF table, disk, stages, marks, args, InCall, Goto
<1>1. CASE StartCreate \/ StartRetry
  <2>1. /\ pc' = "create_stage" /\ cur' = nextId /\ nextId' = nextId + 1
        /\ nextId \in JobId /\ UNCHANGED <<rows, dir, tomb>>
        /\ par' # NoJob => Eligible(par')
    BY <1>1 DEF StartCreate, StartRetry, StartNewJob, Eligible, InState
  <2>2. rows[nextId].state = "none" /\ tomb[nextId] = "absent"
    BY <2>1 DEF StorageInv, FreshIds, JobId
  <2>3. nextId < nextId + 1 /\ \A k \in Present(rows) : k < nextId
    BY <2>1 DEF StorageInv, FreshIds, JobId, Present
  <2> QED
    BY <2>1, <2>2, <2>3 DEF CallInv, CreateInv, CreateStep, PublishInv, DeleteInv, Eligible, Present, Children
<1>2. CASE CreateStage \/ CreateMark \/ CreateSeal \/ CreateRename
  <2>1. /\ pc \in CreateStep /\ pc' \in CreateStep \ {"create_stage", "undo_tree"}
        /\ UNCHANGED <<rows, tomb, cur, par, nextId>>
        /\ pc' = "create_insert" => dir'[cur] = "inputs"
    BY <1>2 DEF Pass, CreateStage, CreateMark, CreateSeal, CreateRename, CreateStep, TypeOK
  <2> QED
    BY <2>1 DEF CallInv, CreateInv, CreateStep, PublishInv, DeleteInv, Eligible, Present, Children
<1>3. CASE CreateInsert \/ CreateUnmark \/ UndoTree \/ UndoStage \/ UndoMark
  BY <1>3, FreeStepHasCallInv DEF CreateInsert, CreateUnmark, UndoTree, UndoStage, UndoMark, FreeStep
<1> QED
  BY <1>1, <1>2, <1>3 DEF CreateNext

LEMMA PublishKeepsCallInv ==
  TypeOK /\ StorageInv /\ CallInv /\ PublishNext => CallInv'
<1> SUFFICES ASSUME TypeOK, StorageInv, CallInv, PublishNext PROVE CallInv'
  OBVIOUS
<1> USE DEF table, disk, stages, marks, args, InCall, Goto
<1>1. CASE StartPublish
  BY <1>1, FreeStepHasCallInv DEF StartPublish, FreeStep
<1>2. CASE PublishStage \/ PublishMark \/ PublishSeal
  <2>1. /\ pc' \in {"publish_mark", "publish_seal", "publish_replace"}
        /\ resultStage'[cur'] = verdict'
    BY <1>2 DEF Pass, PublishStage, PublishMark, PublishSeal, CallInv, PublishInv, TypeOK
  <2> QED
    BY <2>1 DEF CallInv, CreateInv, CreateStep, PublishInv, DeleteInv
<1>3. CASE PublishReplace
  <2>1. /\ pc' = "publish_commit" /\ UNCHANGED <<rows, tomb, cur, verdict>>
        /\ rows[cur].state = "running" /\ dir[cur] = "inputs" /\ dir'[cur] = verdict
    BY <1>3 DEF Pass, PublishReplace, CallInv, PublishInv, TypeOK
  <2>2. tomb[cur] = "absent"
    BY <2>1 DEF StorageInv, TombstoneReplacesDir, Present, TypeOK
  <2> QED
    BY <2>1, <2>2 DEF CallInv, CreateInv, CreateStep, PublishInv, DeleteInv
<1>4. CASE PublishBlocked \/ PublishRefused \/ PublishCommit \/ PublishUnmark
  BY <1>4, FreeStepHasCallInv
     DEF PublishBlocked, PublishRefused, PublishCommit, PublishUnmark, FreeStep, Handler
<1>5. CASE AbortStage \/ AbortMark \/ RollbackMark \/ RollbackResult
  BY <1>5, FreeStepHasCallInv
     DEF AbortStage, AbortMark, RollbackMark, RollbackResult, DropResultMark, FreeStep
<1> QED
  BY <1>1, <1>2, <1>3, <1>4, <1>5 DEF PublishNext

LEMMA DeleteKeepsCallInv ==
  TypeOK /\ StorageInv /\ CallInv /\ DeleteNext => CallInv'
<1> SUFFICES ASSUME TypeOK, StorageInv, CallInv, DeleteNext PROVE CallInv'
  OBVIOUS
<1> USE DEF table, disk, stages, marks, args, InCall, Goto
<1>1. CASE StartDelete
  <2>1. /\ pc' = "delete_rename" /\ UNCHANGED <<rows, dir, tomb>>
        /\ Deletable(cur') /\ tomb[cur'] = "absent"
        /\ dir[cur'] = ExpectedContent(rows[cur'])
    BY <1>1 DEF StartDelete, InState, Deletable, StorageValid
  <2> QED
    BY <2>1 DEF CallInv, CreateInv, CreateStep, PublishInv, DeleteInv, Deletable, Children, Present
<1>2. CASE DeleteRename
  <2>1. /\ pc' = "delete_commit" /\ UNCHANGED <<rows, cur>>
        /\ Deletable(cur) /\ dir'[cur] = "absent"
        /\ tomb'[cur] = ExpectedContent(rows[cur])
    BY <1>2 DEF DeleteRename, CallInv, DeleteInv, TypeOK
  <2> QED
    BY <2>1 DEF CallInv, CreateInv, CreateStep, PublishInv, DeleteInv, Deletable, Children, Present
<1>3. CASE DeleteCommit
  <2>1. pc' = "delete_rmtree" /\ rows'[cur'].state = "none"
    BY <1>3 DEF DeleteCommit, NoRow, TypeOK
  <2> QED
    BY <2>1 DEF CallInv, CreateInv, CreateStep, PublishInv, DeleteInv
<1>4. CASE DeleteRmtree \/ DeleteRestore
  BY <1>4, FreeStepHasCallInv DEF DeleteRmtree, DeleteRestore, FreeStep
<1> QED
  BY <1>1, <1>2, <1>3, <1>4 DEF DeleteNext

LEMMA NextCallInv ==
  TypeOK /\ StorageInv /\ CallInv /\ [Next]_vars => CallInv'
<1> SUFFICES ASSUME TypeOK, StorageInv, CallInv, [Next]_vars PROVE CallInv'
  OBVIOUS
<1>1. CASE SingleTransaction \/ Crash \/ Close \/ Open
  <2>1. pc' \in {"idle", "r_markers"}
    BY <1>1 DEF SingleTransaction, ClaimNextQueued, RequestCancel, FinishFailed, FinishCancelled,
                Finish, Committed, Ready, Crash, Close, Open
  <2> QED
    BY <2>1, FreeStepHasCallInv DEF FreeStep, RecoveryStep
<1>2. CASE StepRaises
  <2>1. /\ pc \in DOMAIN Handler /\ pc' = Handler[pc]
        /\ UNCHANGED <<rows, dir, tomb, cur, nextId>>
        /\ pc' # "idle" => UNCHANGED par
    BY <1>2 DEF Pass, StepRaises, table, disk, stages, args
  <2>2. CASE pc' = "undo_tree"
    <3>1. pc = "create_insert"
      BY <2>1, <2>2, HandlerTargets
    <3> QED
      BY <2>1, <2>2, <3>1 DEF CallInv, CreateInv, CreateStep, PublishInv, DeleteInv, Eligible, Children, Present
  <2>3. CASE pc' = "delete_restore"
    <3>1. pc = "delete_commit"
      BY <2>1, <2>3, HandlerTargets
    <3> QED
      BY <2>1, <2>3, <3>1 DEF CallInv, CreateInv, CreateStep, PublishInv, DeleteInv, Deletable, Children, Present
  <2>4. CASE pc' \notin {"undo_tree", "delete_restore"}
    <3>1. pc' \in FreeStep
      BY <2>1, <2>4, HandlerTargets DEF FreeStep
    <3> QED
      BY <3>1, FreeStepHasCallInv
  <2> QED
    BY <2>2, <2>3, <2>4
<1>3. CASE RecoveryNext
  <2>1. pc' \in RecoveryStep \cup {"idle"}
    BY <1>3 DEF RecoveryNext, NextMarker, RecoverCreate, RecoverCreateStage, RecoverCreateUnmark,
                RecoverResult, RecoverResultStage, RecoverResultUnmark, SweepStage, SweepTombstone,
                RecoverCommit, OpenRefused, Recovering, RecoveryStep
  <2> QED
    BY <2>1, FreeStepHasCallInv DEF FreeStep
<1>4. CASE UNCHANGED vars
  BY <1>4 DEF vars, CallInv, CreateInv, PublishInv, DeleteInv, Eligible, Deletable, Children, Present
<1> QED
  BY <1>1, <1>2, <1>3, <1>4, CreateKeepsCallInv, PublishKeepsCallInv, DeleteKeepsCallInv DEF Next

-----------------------------------------------------------------------------
LEMMA InitStoreInv == Init => StoreInv
<1> SUFFICES ASSUME Init PROVE StoreInv
  OBVIOUS
<1>1. Present(rows) = {}
  BY DEF Init, Present, NoRow
<1>2. FreshIds /\ TombstoneReplacesDir /\ RowsBacked
  BY <1>1 DEF Init, FreshIds, TombstoneReplacesDir, RowsBacked, NoRow
<1>3. CallInv
  BY DEF Init, CallInv, CreateInv, CreateStep, PublishInv, DeleteInv
<1> QED
  BY <1>2, <1>3, InitTypeOK DEF StoreInv

LEMMA NextStoreInv == StoreInv /\ [Next]_vars => StoreInv'
BY NextTypeOK, NextStorageInv, NextCallInv DEF StoreInv, StorageInv, CallInv

\* The invariant behind the theorems below.
THEOREM StoreInvariant == Spec => []StoreInv
BY InitStoreInv, NextStoreInv, PTL DEF Spec

\* An acknowledged job is never lost: however many jobs there are and however
\* often calls raise or the process dies, a committed row has its blobs, in
\* place or in a tombstone recovery restores, and a result state its result.
THEOREM AcknowledgedJobsSurvive == Spec => []RowsBacked
BY StoreInvariant, PTL DEF StoreInv

-----------------------------------------------------------------------------
(* The repository implements the ledger: only the commit of a transaction   *)
(* changes what the callers can see, and everything around it, the renames, *)
(* the markers, the cleanup, a crash and recovery itself up to its commit,  *)
(* is a stuttering step.  What the ledger guarantees then holds of the      *)
(* store.                                                                   *)


\* JobLedger takes its contracts from a copy of JobContracts.
LEMMA SameContracts ==
  /\ Ledger!JobId = JobId /\ Ledger!NoJob = NoJob /\ Ledger!NoRow = NoRow
  /\ Ledger!TerminalStates = TerminalStates /\ Ledger!RetryableStates = RetryableStates
  /\ Ledger!Verdict = Verdict
  /\ \A r : Ledger!Present(r) = Present(r) /\ Ledger!Interrupted(r) = Interrupted(r)
  /\ \A r, p : Ledger!Children(r, p) = Children(r, p)
  /\ \A r, j : Ledger!IsOldestQueued(r, j) <=> IsOldestQueued(r, j)
  /\ \A r, j, s : Ledger!CanMove(r, j, s) <=> CanMove(r, j, s)
  /\ \A r, j, s, c : Ledger!Moved(r, j, s, c) = Moved(r, j, s, c)
  /\ \A p, a : Ledger!InitialRow(p, a) = InitialRow(p, a)
  /\ \A s : Ledger!CancelTarget(s) = CancelTarget(s) /\ Ledger!CancelCode(s) = CancelCode(s)
  /\ \A v : Ledger!TargetState(v) = TargetState(v)
BY DEF Ledger!JobId, JobId, Ledger!NoJob, NoJob, Ledger!NoRow, NoRow,
       Ledger!TerminalStates, TerminalStates, Ledger!RetryableStates, RetryableStates,
       Ledger!Verdict, Verdict, Ledger!Present, Present, Ledger!Interrupted, Interrupted,
       Ledger!Children, Children, Ledger!IsOldestQueued, IsOldestQueued, Ledger!InState, InState,
       Ledger!CanMove, CanMove, Ledger!LegalTransitions, LegalTransitions, Ledger!Moved, Moved,
       Ledger!InitialRow, InitialRow, Ledger!CancelTarget, CancelTarget,
       Ledger!CancelCode, CancelCode, Ledger!TargetState, TargetState

\* A step that commits nothing and leaves every advertised result where a
\* caller finds it is invisible.
LEMMA Invisible ==
  ASSUME UNCHANGED rows,
         \A j \in JobId : rows[j].state \in ResultStates => Held(j)' = Held(j)
  PROVE  UNCHANGED Ledger!ledgerVars
BY DEF Ledger!ledgerVars, AdvertisedResults

LEMMA SameFilesInvisible ==
  ASSUME UNCHANGED <<rows, dir, tomb>>
  PROVE  UNCHANGED Ledger!ledgerVars
BY DEF Ledger!ledgerVars, AdvertisedResults, Held

\* Moving a row between states without a result changes no advertised result.
LEMMA MoveAdvertisesNothing ==
  ASSUME TypeOK, NEW j \in JobId, NEW s \in JobState \ ResultStates, NEW c \in DiagnosticCode,
         rows[j].state \notin ResultStates,
         rows' = Moved(rows, j, s, c), UNCHANGED <<dir, tomb>>
  PROVE  AdvertisedResults' = AdvertisedResults
<1>1. /\ rows'[j].state = s
      /\ \A k \in JobId : k # j => rows'[k] = rows[k]
  BY DEF TypeOK, Moved, Row
<1> QED
  BY <1>1 DEF AdvertisedResults, Held

LEMMA TransactionRefines ==
  ASSUME StoreInv, SingleTransaction
  PROVE  Ledger!LedgerNext
<1> USE DEF Committed, disk, stages, StoreInv
<1>1. CASE ClaimNextQueued
  <2> PICK j \in JobId : IsOldestQueued(rows, j) /\ rows' = Moved(rows, j, "running", "none")
    BY <1>1 DEF ClaimNextQueued
  <2>1. UNCHANGED AdvertisedResults
    BY <1>1, MoveAdvertisesNothing
       DEF ClaimNextQueued, IsOldestQueued, JobState, ResultStates, DiagnosticCode
  <2>2. Ledger!Claim(j)
    BY <2>1, SameContracts DEF Ledger!Claim
  <2> QED
    BY <2>2, SameContracts DEF Ledger!LedgerNext
<1>2. CASE RequestCancel
  <2> PICK j \in InState(rows, {"queued", "running"}) :
        rows' = Moved(rows, j, CancelTarget(rows[j].state), CancelCode(rows[j].state))
    BY <1>2 DEF RequestCancel
  <2>1. j \in JobId /\ rows[j].state \in {"queued", "running"}
    BY DEF InState
  <2>2. UNCHANGED AdvertisedResults
    BY <1>2, <2>1, MoveAdvertisesNothing
       DEF RequestCancel, CancelTarget, CancelCode, JobState, ResultStates, DiagnosticCode
  <2>3. Ledger!Cancel(j)
    BY <2>1, <2>2, SameContracts DEF Ledger!Cancel
  <2> QED
    BY <2>1, <2>3, SameContracts DEF Ledger!LedgerNext
<1>3. CASE FinishFailed
  <2> PICK j \in JobId : CanMove(rows, j, "failed") /\ rows' = Moved(rows, j, "failed", "build_failed")
    BY <1>3 DEF FinishFailed, Finish
  <2>1. UNCHANGED AdvertisedResults
    BY <1>3, MoveAdvertisesNothing
       DEF FinishFailed, Finish, CanMove, LegalTransitions, JobState, ResultStates, DiagnosticCode
  <2>2. Ledger!FinishFailed(j)
    BY <2>1, SameContracts DEF Ledger!FinishFailed
  <2> QED
    BY <2>2, SameContracts DEF Ledger!LedgerNext
<1>4. CASE FinishCancelled
  <2> PICK j \in JobId :
        CanMove(rows, j, "cancelled") /\ rows' = Moved(rows, j, "cancelled", "cancelled_by_request")
    BY <1>4 DEF FinishCancelled, Finish
  <2>1. UNCHANGED AdvertisedResults
    BY <1>4, MoveAdvertisesNothing
       DEF FinishCancelled, Finish, CanMove, LegalTransitions, JobState, ResultStates, DiagnosticCode
  <2>2. Ledger!FinishCancelled(j)
    BY <2>1, SameContracts DEF Ledger!FinishCancelled
  <2> QED
    BY <2>2, SameContracts DEF Ledger!LedgerNext
<1> QED
  BY <1>1, <1>2, <1>3, <1>4 DEF SingleTransaction

LEMMA CreateRefines ==
  ASSUME StoreInv, CreateNext
  PROVE  Ledger!LedgerNext \/ UNCHANGED Ledger!ledgerVars
<1> USE DEF StoreInv, TypeOK, table, disk, stages, marks, args, InCall, Goto
<1>1. CASE CreateInsert
  <2> DEFINE a == IF par = NoJob THEN 1 ELSE rows[par].attempt + 1
  <2>1. /\ rows' = [rows EXCEPT ![cur] = InitialRow(par, a)] /\ UNCHANGED <<dir, tomb>>
        /\ rows[cur].state = "none" /\ \A k \in Present(rows) : k < cur
        /\ par # NoJob => par \in JobId /\ Eligible(par)
    BY <1>1 DEF CreateInsert, CallInv, CreateInv, CreateStep
  <2>2. UNCHANGED AdvertisedResults
    BY <2>1 DEF AdvertisedResults, Held, InitialRow, ResultStates
  <2>3. Ledger!IsNew(cur)
    BY <2>1, SameContracts DEF Ledger!IsNew
  <2>4. CASE par = NoJob
    <3>1. rows' = [rows EXCEPT ![cur] = Ledger!InitialRow(Ledger!NoJob, 1)]
      BY <2>1, <2>4, SameContracts
    <3>2. Ledger!Create(cur)
      BY <2>2, <2>3, <3>1 DEF Ledger!Create
    <3> QED
      BY <3>2, SameContracts DEF Ledger!LedgerNext
  <2>5. CASE par # NoJob
    <3>1. rows' = [rows EXCEPT ![cur] = Ledger!InitialRow(par, rows[par].attempt + 1)]
      BY <2>1, <2>5, SameContracts
    <3>2. Ledger!Retry(cur, par)
      BY <2>1, <2>2, <2>3, <2>5, <3>1, SameContracts DEF Ledger!Retry, Eligible
    <3> QED
      BY <2>1, <2>5, <3>2, SameContracts DEF Ledger!LedgerNext
  <2> QED
    BY <2>4, <2>5
<1>2. CASE CreateRename \/ UndoTree
  <2>1. rows[cur].state = "none" /\ \A k \in JobId : k # cur => dir'[k] = dir[k]
    BY <1>2 DEF CreateRename, UndoTree, CallInv, CreateInv, CreateStep
  <2> QED
    BY <1>2, <2>1, Invisible DEF CreateRename, UndoTree, Held, ResultStates
<1>3. CASE StartCreate \/ StartRetry
  BY <1>3, SameFilesInvisible DEF StartCreate, StartRetry, StartNewJob
<1>4. CASE CreateStage \/ CreateMark \/ CreateSeal \/ CreateUnmark \/ UndoStage \/ UndoMark
  BY <1>4, SameFilesInvisible DEF CreateStage, CreateMark, CreateSeal, CreateUnmark, UndoStage, UndoMark
<1> QED
  BY <1>1, <1>2, <1>3, <1>4 DEF CreateNext

LEMMA PublishRefines ==
  ASSUME StoreInv, PublishNext
  PROVE  Ledger!LedgerNext \/ UNCHANGED Ledger!ledgerVars
<1> USE DEF StoreInv, TypeOK, table, disk, stages, marks, args, InCall, Goto
<1>1. CASE PublishCommit
  <2>1. /\ rows' = Moved(rows, cur, TargetState(verdict), "none") /\ UNCHANGED <<dir, tomb>>
        /\ rows[cur].state = "running" /\ dir[cur] = verdict /\ tomb[cur] = "absent"
    BY <1>1 DEF PublishCommit, CallInv, PublishInv
  <2>2. /\ rows'[cur].state = TargetState(verdict)
        /\ \A k \in JobId : k # cur => rows'[k] = rows[k]
    BY <2>1 DEF Moved, Row
  <2>3. AdvertisedResults' = [AdvertisedResults EXCEPT ![cur] = verdict]
    BY <2>1, <2>2 DEF AdvertisedResults, Held, TargetState, ResultStates
  <2>4. Ledger!Publish(cur, verdict)
    BY <2>1, <2>3, SameContracts DEF Ledger!Publish
  <2> QED
    BY <2>4, SameContracts DEF Ledger!LedgerNext
<1>2. CASE PublishReplace
  <2>1. rows[cur].state = "running" /\ \A k \in JobId : k # cur => dir'[k] = dir[k]
    BY <1>2 DEF PublishReplace
  <2> QED
    BY <1>2, <2>1, Invisible DEF PublishReplace, Held, ResultStates
<1>3. CASE RollbackResult
  <2>1. /\ rows[cur].state \in ResultStates => dir'[cur] = dir[cur]
        /\ \A k \in JobId : k # cur => dir'[k] = dir[k]
    BY <1>3 DEF RollbackResult
  <2> QED
    BY <1>3, <2>1, Invisible DEF RollbackResult, Held
<1>4. CASE StartPublish
  BY <1>4, SameFilesInvisible DEF StartPublish
<1>5. CASE PublishStage \/ PublishMark \/ PublishBlocked \/ PublishSeal \/ PublishRefused
  BY <1>5, SameFilesInvisible DEF PublishStage, PublishMark, PublishBlocked, PublishSeal, PublishRefused
<1>6. CASE PublishUnmark \/ AbortStage \/ AbortMark \/ RollbackMark
  BY <1>6, SameFilesInvisible DEF PublishUnmark, AbortStage, AbortMark, RollbackMark, DropResultMark
<1> QED
  BY <1>1, <1>2, <1>3, <1>4, <1>5, <1>6 DEF PublishNext

LEMMA DeleteRefines ==
  ASSUME StoreInv, DeleteNext
  PROVE  Ledger!LedgerNext \/ UNCHANGED Ledger!ledgerVars
<1> USE DEF StoreInv, TypeOK, table, disk, stages, marks, args, InCall, Goto
<1>1. CASE DeleteCommit
  <2>1. /\ rows' = [rows EXCEPT ![cur] = NoRow] /\ UNCHANGED <<dir, tomb>> /\ Deletable(cur)
    BY <1>1 DEF DeleteCommit, CallInv, DeleteInv
  <2>2. AdvertisedResults' = [AdvertisedResults EXCEPT ![cur] = "none"]
    BY <2>1 DEF AdvertisedResults, Held, NoRow, ResultStates
  <2>3. Ledger!Delete(cur)
    BY <2>1, <2>2, SameContracts DEF Ledger!Delete, Deletable
  <2> QED
    BY <2>3, SameContracts DEF Ledger!LedgerNext
<1>2. CASE DeleteRename \/ DeleteRestore
  <2>1. /\ UNCHANGED rows
        /\ (IF tomb'[cur] # "absent" THEN tomb'[cur] ELSE dir'[cur]) = Held(cur)
        /\ \A k \in JobId : k # cur => dir'[k] = dir[k] /\ tomb'[k] = tomb[k]
    BY <1>2 DEF DeleteRename, DeleteRestore, CallInv, DeleteInv, Held, ExpectedContent
  <2>2. \A k \in JobId : Held(k)' = Held(k)
    BY <2>1 DEF Held
  <2> QED
    BY <2>1, <2>2, Invisible
<1>3. CASE DeleteRmtree
  <2>1. rows[cur].state = "none" /\ \A k \in JobId : k # cur => tomb'[k] = tomb[k]
    BY <1>3 DEF DeleteRmtree, CallInv, DeleteInv
  <2> QED
    BY <1>3, <2>1, Invisible DEF DeleteRmtree, Held, ResultStates
<1>4. CASE StartDelete
  BY <1>4, SameFilesInvisible DEF StartDelete
<1> QED
  BY <1>1, <1>2, <1>3, <1>4 DEF DeleteNext

LEMMA RecoveryRefines ==
  ASSUME StoreInv, RecoveryNext
  PROVE  Ledger!LedgerNext \/ UNCHANGED Ledger!ledgerVars
<1> USE DEF StoreInv, TypeOK, table, disk, stages, marks, args, Recovering
<1>1. CASE RecoverCommit
  <2>1. rows' = Interrupted(rows) /\ UNCHANGED <<dir, tomb>>
    BY <1>1 DEF RecoverCommit
  <2>2. \A k \in JobId :
          IF rows[k].state \in {"running", "cancel_requested"}
            THEN rows'[k].state \in {"failed", "cancelled"}
            ELSE rows'[k] = rows[k]
    <3> SUFFICES ASSUME NEW k \in JobId
                 PROVE  IF rows[k].state \in {"running", "cancel_requested"}
                          THEN rows'[k].state \in {"failed", "cancelled"}
                          ELSE rows'[k] = rows[k]
      OBVIOUS
    <3>1. rows[k] \in Row
      OBVIOUS
    <3> QED
      BY <2>1, <3>1 DEF Interrupted, Row
  <2>3. UNCHANGED AdvertisedResults
    BY <2>1, <2>2 DEF AdvertisedResults, Held, ResultStates
  <2> QED
    BY <2>1, <2>3, SameContracts DEF Ledger!LedgerNext, Ledger!Interrupt
<1>2. CASE RecoverCreate
  <2>1. \A k \in JobId : rows[k].state \in ResultStates => dir'[k] = dir[k]
    BY <1>2 DEF RecoverCreate, ResultStates
  <2> QED
    BY <1>2, <2>1, Invisible DEF RecoverCreate, Held
<1>3. CASE RecoverResult
  <2>1. CASE ResultCommitted /\ ~ResultAmbiguous
    <3>1. dir' = dir
      BY <1>3, <2>1 DEF RecoverResult, ResultCommitted, ResultAmbiguous, ResultStates,
                        ExpectedContent, Present, RowsBacked, TombstoneReplacesDir, Held
    <3> QED
      BY <1>3, <3>1, SameFilesInvisible DEF RecoverResult
  <2>2. CASE ~ResultCommitted
    <3>1. \A k \in JobId : rows[k].state \in ResultStates => dir'[k] = dir[k]
      BY <1>3, <2>2 DEF RecoverResult, ResultCommitted
    <3> QED
      BY <1>3, <2>2, <3>1, Invisible DEF RecoverResult, Held
  <2> QED
    BY <1>3, <2>1, <2>2 DEF RecoverResult
<1>4. CASE SweepTombstone
  <2>1. \A k \in JobId : rows[k].state \in ResultStates => Held(k)' = Held(k)
    BY <1>4 DEF SweepTombstone, Held, ResultStates
  <2> QED
    BY <1>4, <2>1, Invisible DEF SweepTombstone
<1>5. CASE NextMarker \/ RecoverCreateStage \/ RecoverCreateUnmark
  BY <1>5, SameFilesInvisible DEF NextMarker, RecoverCreateStage, RecoverCreateUnmark
<1>6. CASE RecoverResultStage \/ RecoverResultUnmark \/ SweepStage \/ OpenRefused
  BY <1>6, SameFilesInvisible DEF RecoverResultStage, RecoverResultUnmark, SweepStage, OpenRefused
<1> QED
  BY <1>1, <1>2, <1>3, <1>4, <1>5, <1>6 DEF RecoveryNext

LEMMA InitRefines == Init => Ledger!LedgerInit
BY SameContracts DEF Init, Ledger!LedgerInit, AdvertisedResults, NoRow, ResultStates

LEMMA NextRefines == StoreInv /\ [Next]_vars => [Ledger!LedgerNext]_(Ledger!ledgerVars)
<1> SUFFICES ASSUME StoreInv, [Next]_vars
             PROVE  Ledger!LedgerNext \/ UNCHANGED Ledger!ledgerVars
  OBVIOUS
<1>1. CASE StepRaises \/ Crash \/ Close \/ Open \/ UNCHANGED vars
  BY <1>1, SameFilesInvisible DEF StepRaises, Crash, Close, Open, vars, table, disk, stages
<1> QED
  BY <1>1, TransactionRefines, CreateRefines, PublishRefines, DeleteRefines, RecoveryRefines DEF Next

\* The store its callers see is the ledger they were promised: every call is
\* one atomic change of rows and advertised results, whatever raises and
\* whenever the process dies (all of repository.py).
THEOREM RepositoryImplementsLedger == Spec => ImplementsLedger
<1>1. Init => Ledger!LedgerInit
  BY InitRefines
<1>2. StoreInv /\ [Next]_vars => [Ledger!LedgerNext]_(Ledger!ledgerVars)
  BY NextRefines
<1> QED
  BY <1>1, <1>2, StoreInvariant, PTL DEF Spec, ImplementsLedger, Ledger!LedgerSpec

-----------------------------------------------------------------------------
LedgerP == INSTANCE JobLedgerProofs WITH results <- AdvertisedResults

LEMMA SameLedger ==
  /\ Ledger!LedgerInit <=> LedgerP!LedgerInit
  /\ [Ledger!LedgerNext]_(Ledger!ledgerVars) <=> [LedgerP!LedgerNext]_(LedgerP!ledgerVars)
BY
   DEF Ledger!JobId, LedgerP!JobId, Ledger!NoJob, LedgerP!NoJob, Ledger!NoRow, LedgerP!NoRow,
       Ledger!JobState, LedgerP!JobState, Ledger!ResultStates, LedgerP!ResultStates,
       Ledger!TerminalStates, LedgerP!TerminalStates, Ledger!RetryableStates,
       LedgerP!RetryableStates, Ledger!Verdict, LedgerP!Verdict, Ledger!Present,
       LedgerP!Present, Ledger!Interrupted, LedgerP!Interrupted, Ledger!Children,
       LedgerP!Children, Ledger!IsOldestQueued, LedgerP!IsOldestQueued, Ledger!InState,
       LedgerP!InState, Ledger!CanMove, LedgerP!CanMove, Ledger!LegalTransitions,
       LedgerP!LegalTransitions, Ledger!Moved, LedgerP!Moved, Ledger!InitialRow,
       LedgerP!InitialRow, Ledger!CancelTarget, LedgerP!CancelTarget, Ledger!CancelCode,
       LedgerP!CancelCode, Ledger!TargetState, LedgerP!TargetState, Ledger!LedgerInit,
       LedgerP!LedgerInit, Ledger!ledgerVars, LedgerP!ledgerVars, Ledger!LedgerNext,
       LedgerP!LedgerNext, Ledger!IsNew, LedgerP!IsNew, Ledger!Create, LedgerP!Create,
       Ledger!Retry, LedgerP!Retry, Ledger!Claim, LedgerP!Claim, Ledger!Cancel,
       LedgerP!Cancel, Ledger!FinishFailed, LedgerP!FinishFailed, Ledger!FinishCancelled,
       LedgerP!FinishCancelled, Ledger!Publish, LedgerP!Publish, Ledger!Delete,
       LedgerP!Delete, Ledger!Interrupt, LedgerP!Interrupt

\* What the ledger proves of itself holds of the store: a retry's parent is
\* there, eligible and one attempt behind, and has no other child (create_retry
\* 355-383, delete_terminal 385-416, _validate_retry_relationships 909-924).
THEOREM RetryChainsStaySound == Spec => []RetryChainsSound
<1>1. LedgerP!LedgerInv => RetryChainsSound
  BY DEF LedgerP!LedgerInv, RetryChainsSound, LedgerP!RowsLoad, Ledger!RowsLoad,
         LedgerP!OneRetryChild, Ledger!OneRetryChild, LedgerP!RowConsistent, Ledger!RowConsistent,
         LedgerP!RetryGraphValid, Ledger!RetryGraphValid, LedgerP!Present, Ledger!Present,
         LedgerP!JobId, Ledger!JobId, LedgerP!NoJob, Ledger!NoJob,
         LedgerP!RetryableStates, Ledger!RetryableStates
<1>2. LedgerP!LedgerInit => LedgerP!LedgerInv
  BY LedgerP!LedgerInitInv, MaxJobsAssumption
<1>3. LedgerP!LedgerInv /\ [LedgerP!LedgerNext]_(LedgerP!ledgerVars) => LedgerP!LedgerInv'
  BY LedgerP!LedgerNextInv, MaxJobsAssumption
<1> QED
  BY <1>1, <1>2, <1>3, SameLedger, InitRefines, NextRefines, StoreInvariant, PTL DEF Spec

-----------------------------------------------------------------------------
(* Damage.  Whatever raises and whenever the process dies, a directory      *)
(* without a row is vouched for by its create marker, and recovery knows    *)
(* the marker it is working on and has none left when it sweeps .staging.   *)

FreshDirs == \A j \in JobId : j >= nextId => dir[j] = "absent"

OrphansMarked ==
  \A j \in JobId : rows[j].state = "none" /\ dir[j] # "absent" => createMark[j] = "valid"

CallMarks ==
  /\ pc \in {"create_stage", "create_mark", "create_seal", "create_rename", "undo_stage",
             "undo_mark"} => rows[cur].state = "none" /\ dir[cur] = "absent"
  /\ pc \in {"create_rename", "create_insert"} => createMark[cur] = "valid"
  /\ pc = "create_unmark" => rows[cur].state # "none"

RecoveryMarks ==
  proc = "recovering" =>
    /\ pc \in RecoveryStep
    /\ pc = "r_create" => createMark[cur] = "valid"
    /\ pc \in {"r_create_stage", "r_create_unmark"} /\ rows[cur].state = "none" =>
         dir[cur] = "absent"
    /\ pc = "r_result" => resultMark[cur] = "valid"
    /\ pc = "r_staging" =>
         \A j \in JobId : createMark[j] = "absent" /\ resultMark[j] = "absent"

DamageInv == FreshDirs /\ OrphansMarked /\ CallMarks /\ RecoveryMarks

LEMMA InitDamageInv == Init => DamageInv
BY DEF Init, DamageInv, FreshDirs, OrphansMarked, CallMarks, RecoveryMarks

\* A step that leaves the rows, the directories and the create markers alone,
\* and goes to a step that has to know nothing of them.
LEMMA ElsewhereKeepsDamage ==
  ASSUME TypeOK, DamageInv, UNCHANGED <<dir, createMark>>, nextId' = nextId,
         \A j \in JobId : rows'[j].state = "none" <=> rows[j].state = "none",
         pc' \notin {"create_stage", "create_mark", "create_seal", "create_rename", "undo_stage",
                     "undo_mark", "create_insert", "create_unmark"},
         proc' # "recovering"
  PROVE  DamageInv'
BY DEF DamageInv, FreshDirs, OrphansMarked, CallMarks, RecoveryMarks, TypeOK

LEMMA CreateKeepsDamage ==
  TypeOK /\ FreshIds /\ CreateInv /\ DamageInv /\ CreateNext => DamageInv'
<1> SUFFICES ASSUME TypeOK, FreshIds, CreateInv, DamageInv, CreateNext PROVE DamageInv'
  OBVIOUS
<1> USE DEF TypeOK, table, disk, marks, stages, args, bounds, InCall, Goto, DamageInv, FreshDirs,
            OrphansMarked, CallMarks, RecoveryMarks
<1>1. ASSUME NEW p \in JobId \cup {NoJob}, StartNewJob(p) PROVE DamageInv'
  BY <1>1, MaxJobsAssumption DEF StartNewJob, Ready, FreshIds, JobId
<1>2. CASE CreateStage
  BY <1>2 DEF CreateStage
<1>3. CASE CreateMark \/ CreateSeal
  BY <1>3 DEF CreateMark, CreateSeal
<1>4. CASE CreateRename
  <2>1. cur < nextId
    BY <1>4 DEF CreateRename, CreateInv, CreateStep
  <2> QED
    BY <1>4, <2>1, MaxJobsAssumption DEF CreateRename, JobId
<1>5. CASE CreateInsert
  <2>1. rows'[cur].state # "none" /\ \A k \in JobId : k # cur => rows'[k] = rows[k]
    BY <1>5 DEF CreateInsert, InitialRow
  <2> QED
    BY <1>5, <2>1 DEF CreateInsert
<1>6. CASE CreateUnmark
  BY <1>6 DEF CreateUnmark
<1>7. CASE UndoTree
  BY <1>7 DEF UndoTree, CreateInv, CreateStep
<1>8. CASE UndoStage
  BY <1>8 DEF UndoStage
<1>9. CASE UndoMark
  BY <1>9 DEF UndoMark
<1> QED
  BY <1>1, <1>2, <1>3, <1>4, <1>5, <1>6, <1>7, <1>8, <1>9
     DEF CreateNext, StartCreate, StartRetry, InState

LEMMA PublishKeepsDamage ==
  TypeOK /\ FreshIds /\ PublishInv /\ DamageInv /\ PublishNext => DamageInv'
<1> SUFFICES ASSUME TypeOK, FreshIds, PublishInv, DamageInv, PublishNext PROVE DamageInv'
  OBVIOUS
<1> USE DEF table, disk, marks, stages, args, bounds, InCall, Goto
<1>1. CASE PublishReplace \/ RollbackResult
  <2>1. CASE PublishReplace
    BY <2>1 DEF PublishReplace, DamageInv, FreshDirs, OrphansMarked, CallMarks, RecoveryMarks, TypeOK
  <2>2. CASE RollbackResult
    <3>1. /\ dir'[cur] \in {dir[cur], WithoutResult(dir[cur])}
          /\ \A k \in JobId : k # cur => dir'[k] = dir[k]
      BY <2>2 DEF RollbackResult, TypeOK
    <3>2. WithoutResult(dir[cur]) # "absent" => dir[cur] # "absent"
      BY DEF WithoutResult, Verdict
    <3> QED
      BY <2>2, <3>1, <3>2 DEF RollbackResult, DamageInv, FreshDirs, OrphansMarked, CallMarks,
                              RecoveryMarks, TypeOK
  <2> QED
    BY <1>1, <2>1, <2>2
<1>2. CASE PublishCommit
  <2>1. /\ rows'[cur].state # "none" /\ rows[cur].state # "none"
        /\ \A k \in JobId : k # cur => rows'[k] = rows[k]
    BY <1>2 DEF PublishCommit, PublishInv, TypeOK, Moved, Row, TargetState
  <2> QED
    BY <1>2, <2>1, ElsewhereKeepsDamage DEF PublishCommit
<1>3. CASE StartPublish
  BY <1>3, ElsewhereKeepsDamage DEF StartPublish, Ready
<1>4. CASE PublishStage \/ PublishMark \/ PublishSeal \/ PublishRefused
  BY <1>4, ElsewhereKeepsDamage DEF PublishStage, PublishMark, PublishSeal, PublishRefused
<1>5. CASE PublishBlocked
  BY <1>5, ElsewhereKeepsDamage, StepValues, HandlerTargets DEF PublishBlocked, Handler
<1>6. CASE PublishUnmark \/ AbortStage \/ AbortMark \/ RollbackMark
  BY <1>6, ElsewhereKeepsDamage DEF PublishUnmark, AbortStage, AbortMark, RollbackMark, DropResultMark
<1> QED
  BY <1>1, <1>2, <1>3, <1>4, <1>5, <1>6 DEF PublishNext

LEMMA DeleteKeepsDamage ==
  TypeOK /\ FreshIds /\ DeleteInv /\ DamageInv /\ DeleteNext => DamageInv'
<1> SUFFICES ASSUME TypeOK, FreshIds, DeleteInv, DamageInv, DeleteNext PROVE DamageInv'
  OBVIOUS
<1> USE DEF TypeOK, table, disk, marks, stages, args, bounds, InCall, Goto, DamageInv, FreshDirs,
            OrphansMarked, CallMarks, RecoveryMarks, DeleteInv, Deletable
<1>1. CASE StartDelete
  BY <1>1 DEF StartDelete, Ready
<1>2. CASE DeleteRename
  BY <1>2 DEF DeleteRename
<1>3. CASE DeleteCommit
  <2>1. rows'[cur].state = "none" /\ \A k \in JobId : k # cur => rows'[k] = rows[k]
    BY <1>3 DEF DeleteCommit, NoRow
  <2> QED
    BY <1>3, <2>1 DEF DeleteCommit
<1>4. CASE DeleteRmtree
  BY <1>4 DEF DeleteRmtree
<1>5. CASE DeleteRestore
  <2>1. rows[cur].state # "none"
    BY <1>5 DEF DeleteRestore, TerminalStates
  <2>2. ~(cur >= nextId)
    BY <2>1 DEF FreshIds
  <2> QED
    BY <1>5, <2>1, <2>2 DEF DeleteRestore
<1> QED
  BY <1>1, <1>2, <1>3, <1>4, <1>5 DEF DeleteNext

LEMMA InterruptedRows ==
  ASSUME TypeOK, rows' = Interrupted(rows)
  PROVE  \A k \in JobId :
           IF rows[k].state \in {"running", "cancel_requested"}
             THEN rows'[k].state \in {"failed", "cancelled"}
             ELSE rows'[k] = rows[k]
<1> SUFFICES ASSUME NEW k \in JobId
             PROVE  IF rows[k].state \in {"running", "cancel_requested"}
                      THEN rows'[k].state \in {"failed", "cancelled"}
                      ELSE rows'[k] = rows[k]
  OBVIOUS
<1>1. rows[k] \in Row
  BY DEF TypeOK
<1> QED
  BY <1>1 DEF Interrupted, Row

LEMMA RecoveryKeepsDamage ==
  TypeOK /\ StorageInv /\ DamageInv /\ RecoveryNext => DamageInv'
<1> SUFFICES ASSUME TypeOK, StorageInv, DamageInv, RecoveryNext PROVE DamageInv'
  OBVIOUS
<1> USE DEF TypeOK, table, disk, marks, stages, args, bounds, Recovering, DamageInv, FreshDirs,
            OrphansMarked, CallMarks, RecoveryMarks, RecoveryStep
<1>1. CASE NextMarker
  BY <1>1 DEF NextMarker
<1>2. CASE RecoverCreate
  BY <1>2 DEF RecoverCreate
<1>3. CASE RecoverCreateStage \/ RecoverResultStage
  BY <1>3 DEF RecoverCreateStage, RecoverResultStage
<1>4. CASE RecoverCreateUnmark \/ RecoverResultUnmark
  BY <1>4 DEF RecoverCreateUnmark, RecoverResultUnmark
<1>5. CASE RecoverResult
  <2>1. CASE ResultCommitted /\ ~ResultAmbiguous
    <3>1. rows[cur].state # "none" /\ ~(cur >= nextId)
      BY <2>1 DEF ResultCommitted, ResultStates, StorageInv, FreshIds
    <3>2. /\ UNCHANGED <<rows, createMark, cur, nextId>> /\ pc' = "r_result_unmark"
          /\ \A j \in JobId : j # cur => dir'[j] = dir[j]
      BY <1>5, <2>1 DEF RecoverResult
    <3> QED
      BY <3>1, <3>2
  <2>2. CASE ~ResultCommitted
    <3>1. /\ UNCHANGED <<rows, createMark, cur, nextId>> /\ pc' = "r_result_stage"
          /\ \A j \in JobId : dir'[j] # "absent" => dir[j] # "absent"
      <4>1. /\ dir'[cur] = WithoutResult(dir[cur])
            /\ \A k \in JobId : k # cur => dir'[k] = dir[k]
        BY <1>5, <2>2 DEF RecoverResult
      <4>2. WithoutResult(dir[cur]) # "absent" => dir[cur] # "absent"
        BY DEF WithoutResult, Verdict
      <4> QED
        BY <1>5, <2>2, <4>1, <4>2 DEF RecoverResult
    <3> QED
      BY <3>1
  <2> QED
    BY <1>5, <2>1, <2>2 DEF RecoverResult
<1>6. CASE SweepStage
  BY <1>6 DEF SweepStage
<1>7. CASE SweepTombstone
  <2> PICK j \in JobId :
        /\ tomb[j] # "absent"
        /\ tomb' = [tomb EXCEPT ![j] = "absent"]
        /\ IF rows[j].state = "none" THEN UNCHANGED dir
           ELSE dir[j] = "absent" /\ dir' = [dir EXCEPT ![j] = tomb[j]]
    BY <1>7 DEF SweepTombstone
  <2>1. rows[j].state # "none" => ~(j >= nextId)
    BY DEF StorageInv, FreshIds
  <2> QED
    BY <1>7, <2>1 DEF SweepTombstone
<1>8. CASE RecoverCommit
  <2>1. \A j \in JobId : rows'[j].state = "none" <=> rows[j].state = "none"
    BY <1>8, InterruptedRows DEF RecoverCommit
  <2> QED
    BY <1>8, <2>1, ElsewhereKeepsDamage DEF RecoverCommit
<1>9. CASE OpenRefused
  BY <1>9 DEF OpenRefused
<1> QED
  BY <1>1, <1>2, <1>3, <1>4, <1>5, <1>6, <1>7, <1>8, <1>9 DEF RecoveryNext

LEMMA TransactionMoves ==
  ASSUME TypeOK, SingleTransaction
  PROVE  /\ Ready /\ Committed
         /\ \E j \in JobId, s \in JobState \ ResultStates, c \in DiagnosticCode :
              /\ rows' = Moved(rows, j, s, c)
              /\ rows[j].state \in {"queued", "running", "cancel_requested"}
<1> USE DEF JobState, ResultStates, DiagnosticCode
<1>1. CASE ClaimNextQueued
  BY <1>1 DEF ClaimNextQueued, IsOldestQueued
<1>2. CASE RequestCancel
  BY <1>2 DEF RequestCancel, InState, CancelTarget, CancelCode
<1>3. CASE FinishFailed
  BY <1>3 DEF FinishFailed, Finish, CanMove, LegalTransitions
<1>4. CASE FinishCancelled
  BY <1>4 DEF FinishCancelled, Finish, CanMove, LegalTransitions
<1> QED
  BY <1>1, <1>2, <1>3, <1>4 DEF SingleTransaction

LEMMA NextDamageInv == StoreInv /\ DamageInv /\ [Next]_vars => DamageInv'
<1> SUFFICES ASSUME StoreInv, DamageInv, [Next]_vars PROVE DamageInv'
  OBVIOUS
<1>0. TypeOK /\ StorageInv /\ FreshIds /\ CreateInv /\ PublishInv /\ DeleteInv
  BY DEF StoreInv, StorageInv, CallInv
<1>1. CASE SingleTransaction
  <2>1. PICK j \in JobId, s \in JobState \ ResultStates, c \in DiagnosticCode :
          /\ rows' = Moved(rows, j, s, c)
          /\ rows[j].state \in {"queued", "running", "cancel_requested"}
    BY <1>0, <1>1, TransactionMoves
  <2>2. /\ rows'[j].state # "none"
        /\ \A k \in JobId : k # j => rows'[k] = rows[k]
    BY <1>0, <2>1 DEF TypeOK, Moved, Row, JobState
  <2>3. /\ pc' = "idle" /\ proc' = "open" /\ UNCHANGED <<dir, createMark, nextId>>
    BY <1>0, <1>1, TransactionMoves DEF Ready, Committed, disk, marks
  <2> QED
    BY <1>0, <2>1, <2>2, <2>3, ElsewhereKeepsDamage
<1>2. CASE StepRaises
  <2>1. /\ pc \in DOMAIN Handler /\ pc' = Handler[pc] /\ proc' = "open"
        /\ UNCHANGED <<rows, dir, createMark, cur, nextId>>
    BY <1>2 DEF StepRaises, table, disk, marks, args
  <2>2. CASE pc' = "undo_stage"
    <3>1. pc \in {"create_stage", "create_mark", "create_seal", "create_rename"}
      BY <2>1, <2>2, HandlerTargets
    <3> QED
      BY <2>1, <2>2, <3>1 DEF DamageInv, FreshDirs, OrphansMarked, CallMarks, RecoveryMarks
  <2>3. CASE pc' # "undo_stage"
    <3>1. pc' \in {"idle", "undo_tree", "abort_stage", "rollback_mark", "delete_restore"}
      BY <2>1, <2>3, HandlerTargets
    <3> QED
      BY <1>0, <2>1, <3>1, ElsewhereKeepsDamage
  <2> QED
    BY <2>2, <2>3
<1>3. CASE Crash \/ Close
  BY <1>0, <1>3, ElsewhereKeepsDamage DEF Crash, Close, Ready, table, disk, marks
<1>4. CASE Open
  BY <1>4 DEF Open, table, disk, marks, args, RecoveryStep, DamageInv, FreshDirs, OrphansMarked,
              CallMarks, RecoveryMarks
<1>5. CASE UNCHANGED vars
  BY <1>5 DEF vars, DamageInv, FreshDirs, OrphansMarked, CallMarks, RecoveryMarks
<1> QED
  BY <1>0, <1>1, <1>2, <1>3, <1>4, <1>5, CreateKeepsDamage, PublishKeepsDamage,
     DeleteKeepsDamage, RecoveryKeepsDamage DEF Next

-----------------------------------------------------------------------------
(* A store nothing has raised in.  Between calls it is clean; during a call *)
(* only the files of its own job are not what they will be, and a crash     *)
(* leaves at most those.                                                    *)

Untouched(j) ==
  /\ j \notin createStage /\ resultStage[j] = "none" /\ tomb[j] = "absent"
  /\ createMark[j] = "absent" /\ resultMark[j] = "absent"
ValidAt(j) == IF rows[j].state = "none" THEN dir[j] = "absent" ELSE StorageValid(j)

\* What a crash may leave of a job: a result that is not committed is marked,
\* and what a tombstone holds is what the row expects back.
QuietJob(j) ==
  /\ StrayResult(j) => resultMark[j] = "valid"
  /\ rows[j].state # "none" /\ tomb[j] # "absent" =>
       tomb[j] = ExpectedContent(rows[j]) /\ rows[j].state \in TerminalStates

\* What the call in progress has made of its job's files so far.
CreateCall == {"create_mark", "create_seal", "create_rename", "create_insert", "create_unmark"}
PublishCall == {"publish_stage", "publish_mark", "publish_seal", "publish_replace",
                "publish_commit", "publish_unmark", "abort_stage", "abort_mark"}
DeleteCall == {"delete_rename", "delete_commit", "delete_rmtree"}
QuietCall ==
  /\ pc \in {"idle", "create_stage"} \cup CreateCall \cup PublishCall \cup DeleteCall
  /\ pc \in {"idle", "create_stage"} => Untouched(cur) /\ ValidAt(cur)
  /\ pc \in CreateCall =>
       /\ resultStage[cur] = "none" /\ tomb[cur] = "absent" /\ resultMark[cur] = "absent"
       /\ pc \in {"create_insert", "create_unmark"} => cur \notin createStage
       /\ pc = "create_unmark" => ValidAt(cur)
  /\ pc \in PublishCall =>
       /\ rows[cur].state # "none"
       /\ cur \notin createStage /\ tomb[cur] = "absent" /\ createMark[cur] = "absent"
       /\ pc # "publish_commit" => ValidAt(cur)
       /\ pc \in {"publish_stage", "publish_commit", "publish_unmark", "abort_mark"} =>
            resultStage[cur] = "none"
       /\ pc \in {"publish_stage", "publish_mark"} => resultMark[cur] = "absent"
       /\ pc \in {"publish_replace", "publish_commit"} => resultMark[cur] = "valid"
       /\ pc = "publish_unmark" => rows[cur].state \in ResultStates
  /\ pc \in DeleteCall =>
       /\ cur \notin createStage /\ resultStage[cur] = "none"
       /\ createMark[cur] = "absent" /\ resultMark[cur] = "absent"
       /\ pc = "delete_rename" => ValidAt(cur)
       /\ pc = "delete_rmtree" => dir[cur] = "absent"

QuietInv ==
  history = "calm" =>
    /\ \A j \in JobId : QuietJob(j)
    /\ proc = "open" => QuietCall /\ \A j \in JobId \ {cur} : Untouched(j) /\ ValidAt(j)
    /\ proc = "recovering" /\ pc \in {"r_result_stage", "r_result_unmark"} => ~StrayResult(cur)

LEMMA InitQuietInv == Init => QuietInv
BY DEF Init, QuietInv, QuietJob, StrayResult, Verdict, NoRow

\* Between calls nothing is on its way anywhere.
LEMMA ReadyIsQuiet ==
  ASSUME QuietInv, history = "calm", Ready
  PROVE  \A j \in JobId : Untouched(j) /\ ValidAt(j)
BY DEF QuietInv, QuietCall, Ready, CreateCall, PublishCall, DeleteCall

\* A step of a call touches its own job only.
LEMMA OwnJobOnly ==
  ASSUME TypeOK, QuietInv, history' = history, proc = "open", proc' = "open", cur' = cur,
         \A j \in JobId \ {cur} :
            /\ rows'[j] = rows[j] /\ dir'[j] = dir[j] /\ resultStage'[j] = resultStage[j]
            /\ tomb'[j] = tomb[j] /\ createMark'[j] = createMark[j]
            /\ resultMark'[j] = resultMark[j] /\ (j \in createStage' <=> j \in createStage),
         history = "calm" => QuietJob(cur)' /\ QuietCall'
  PROVE  QuietInv'
BY DEF QuietInv, QuietJob, StrayResult, Untouched, ValidAt, StorageValid

\* A call starts from a store in which everything is in its place.
LEMMA CallStarts ==
  ASSUME TypeOK, QuietInv, history' = history, Ready, proc' = "open", cur' \in JobId,
         UNCHANGED <<rows, dir, createStage, resultStage, tomb, createMark, resultMark>>,
         \/ pc' = "create_stage"
         \/ pc' \in {"publish_stage", "delete_rename"} /\ rows[cur'].state # "none"
  PROVE  QuietInv'
<1> SUFFICES ASSUME history = "calm" PROVE QuietInv'
  BY DEF QuietInv
<1>1. \A j \in JobId : Untouched(j) /\ ValidAt(j)
  BY ReadyIsQuiet
<1>2. \A j \in JobId : Untouched(j)' /\ ValidAt(j)' /\ QuietJob(j)'
  BY <1>1 DEF Untouched, ValidAt, StorageValid, QuietInv, QuietJob, StrayResult
<1> QED
  BY <1>2 DEF QuietInv, QuietCall, CreateCall, PublishCall, DeleteCall, Untouched

LEMMA CreateKeepsQuiet ==
  TypeOK /\ CreateInv /\ DamageInv /\ QuietInv /\ CreateNext => QuietInv'
<1> SUFFICES ASSUME TypeOK, CreateInv, DamageInv, QuietInv, CreateNext PROVE QuietInv'
  OBVIOUS
<1> USE DEF table, disk, marks, stages, args, bounds, InCall, Goto
<1>1. ASSUME NEW p \in JobId \cup {NoJob}, StartNewJob(p) PROVE QuietInv'
  BY <1>1, CallStarts DEF StartNewJob, Ready
<1>2. ASSUME UNCHANGED <<cur, history, proc>>, proc = "open", UNCHANGED <<resultStage, tomb, resultMark>>,
             \A j \in JobId \ {cur} :
                /\ rows'[j] = rows[j] /\ dir'[j] = dir[j] /\ createMark'[j] = createMark[j]
                /\ (j \in createStage' <=> j \in createStage),
             history = "calm" => QuietJob(cur)' /\ QuietCall'
      PROVE  QuietInv'
  BY <1>2, OwnJobOnly
<1> USE DEF TypeOK, QuietInv, QuietCall, QuietJob, CreateCall, PublishCall, DeleteCall, Untouched
<1>3. CASE CreateStage
  BY <1>2, <1>3 DEF CreateStage, StrayResult
<1>4. CASE CreateMark \/ CreateSeal
  BY <1>2, <1>4 DEF CreateMark, CreateSeal, StrayResult
<1>5. CASE CreateRename
  BY <1>2, <1>5 DEF CreateRename, StrayResult, Verdict
<1>6. CASE CreateInsert
  <2>1. /\ rows'[cur].state = "queued" /\ \A k \in JobId : k # cur => rows'[k] = rows[k]
        /\ dir[cur] = "inputs" /\ dir' = dir /\ cur' = cur
    BY <1>6 DEF CreateInsert, InitialRow, CreateInv, CreateStep
  <2>2. ValidAt(cur)' /\ ~StrayResult(cur)'
    BY <2>1 DEF ValidAt, StorageValid, ExpectedContent, StrayResult, Verdict
  <2> QED
    BY <1>2, <1>6, <2>1, <2>2 DEF CreateInsert
<1>7. CASE CreateUnmark
  BY <1>2, <1>7 DEF CreateUnmark, StrayResult, ValidAt, StorageValid
<1>8. CASE UndoTree \/ UndoStage \/ UndoMark
  BY <1>2, <1>8 DEF UndoTree, UndoStage, UndoMark
<1> QED
  BY <1>1, <1>3, <1>4, <1>5, <1>6, <1>7, <1>8
     DEF CreateNext, StartCreate, StartRetry, InState

LEMMA PublishKeepsQuiet ==
  TypeOK /\ PublishInv /\ QuietInv /\ PublishNext => QuietInv'
<1> SUFFICES ASSUME TypeOK, PublishInv, QuietInv, PublishNext PROVE QuietInv'
  OBVIOUS
<1> USE DEF table, disk, marks, stages, args, bounds, InCall, Goto
<1>1. CASE StartPublish
  BY <1>1, CallStarts DEF StartPublish, Ready, Present
<1>2. ASSUME UNCHANGED <<cur, history, proc>>, proc = "open", UNCHANGED <<createStage, tomb, createMark>>,
             \A j \in JobId \ {cur} :
                /\ rows'[j] = rows[j] /\ dir'[j] = dir[j]
                /\ resultStage'[j] = resultStage[j] /\ resultMark'[j] = resultMark[j],
             history = "calm" => QuietJob(cur)' /\ QuietCall'
      PROVE  QuietInv'
  BY <1>2, OwnJobOnly
<1>3. ASSUME ValidAt(cur), rows[cur].state # "none" PROVE ~StrayResult(cur)
  BY <1>3 DEF ValidAt, StorageValid, ExpectedContent, StrayResult, ResultStates, Verdict
<1> USE DEF TypeOK, QuietInv, QuietCall, QuietJob, CreateCall, PublishCall, DeleteCall, Untouched
<1>4. CASE PublishStage
  BY <1>2, <1>4 DEF PublishStage, StrayResult, ValidAt, StorageValid
<1>5. CASE PublishMark
  BY <1>2, <1>3, <1>5 DEF PublishMark, StrayResult, ValidAt, StorageValid
<1>6. CASE PublishBlocked
  BY <1>2, <1>6 DEF PublishBlocked
<1>7. CASE PublishSeal
  BY <1>2, <1>7 DEF PublishSeal, StrayResult, ValidAt, StorageValid
<1>8. CASE PublishReplace
  BY <1>2, <1>8 DEF PublishReplace, StrayResult
<1>9. CASE PublishRefused
  BY <1>2, <1>9 DEF PublishRefused, StrayResult, ValidAt, StorageValid
<1>10. CASE PublishCommit
  <2>1. /\ rows'[cur].state = TargetState(verdict)
        /\ \A k \in JobId : k # cur => rows'[k] = rows[k]
        /\ dir[cur] = verdict /\ dir' = dir /\ cur' = cur
    BY <1>10 DEF PublishCommit, PublishInv, Moved, Row
  <2>2. ValidAt(cur)' /\ ~StrayResult(cur)' /\ rows'[cur].state \in ResultStates
    BY <2>1 DEF ValidAt, StorageValid, ExpectedContent, StrayResult, Verdict, TargetState,
                ResultStates
  <2>3. rows'[cur].state # "none"
    BY <2>2 DEF ResultStates
  <2> QED
    BY <1>2, <1>10, <2>1, <2>2, <2>3 DEF PublishCommit
<1>11. CASE PublishUnmark
  BY <1>2, <1>3, <1>11 DEF PublishUnmark, StrayResult, ValidAt, StorageValid
<1>12. CASE AbortStage
  BY <1>2, <1>12 DEF AbortStage, StrayResult, ValidAt, StorageValid
<1>13. CASE AbortMark
  BY <1>2, <1>3, <1>13 DEF AbortMark, DropResultMark, StrayResult, ValidAt, StorageValid
<1>14. CASE RollbackMark \/ RollbackResult
  <2>1. history # "calm" /\ history' = history
    BY <1>14 DEF RollbackMark, RollbackResult, DropResultMark
  <2> QED
    BY <2>1
<1> QED
  BY <1>1, <1>4, <1>5, <1>6, <1>7, <1>8, <1>9, <1>10, <1>11, <1>12, <1>13, <1>14 DEF PublishNext

LEMMA DeleteKeepsQuiet ==
  TypeOK /\ DeleteInv /\ QuietInv /\ DeleteNext => QuietInv'
<1> SUFFICES ASSUME TypeOK, DeleteInv, QuietInv, DeleteNext PROVE QuietInv'
  OBVIOUS
<1> USE DEF table, disk, marks, stages, args, bounds, InCall, Goto
<1>1. CASE StartDelete
  BY <1>1, CallStarts DEF StartDelete, Ready, InState, TerminalStates
<1>2. ASSUME UNCHANGED <<cur, history, proc>>, proc = "open",
             UNCHANGED <<createStage, resultStage, createMark, resultMark>>,
             \A j \in JobId \ {cur} :
                /\ rows'[j] = rows[j] /\ dir'[j] = dir[j] /\ tomb'[j] = tomb[j],
             history = "calm" => QuietJob(cur)' /\ QuietCall'
      PROVE  QuietInv'
  BY <1>2, OwnJobOnly
<1> USE DEF TypeOK, QuietInv, QuietCall, QuietJob, CreateCall, PublishCall, DeleteCall, Untouched
<1>3. CASE DeleteRename
  BY <1>2, <1>3 DEF DeleteRename, DeleteInv, Deletable, StrayResult, Verdict, ExpectedContent
<1>4. CASE DeleteCommit
  <2>1. rows'[cur].state = "none" /\ (\A k \in JobId : k # cur => rows'[k] = rows[k])
        /\ dir[cur] = "absent" /\ dir' = dir /\ cur' = cur
    BY <1>4 DEF DeleteCommit, NoRow, DeleteInv
  <2>2. ~StrayResult(cur)'
    BY <2>1 DEF StrayResult, Verdict
  <2> QED
    BY <1>2, <1>4, <2>1, <2>2 DEF DeleteCommit
<1>5. CASE DeleteRmtree
  BY <1>2, <1>5 DEF DeleteRmtree, DeleteInv, StrayResult, Verdict, ValidAt
<1>6. CASE DeleteRestore
  BY <1>6 DEF DeleteRestore
<1> QED
  BY <1>1, <1>3, <1>4, <1>5, <1>6 DEF DeleteNext

\* Once open() succeeds the store is as if nothing had ever been wrong with it.
LEMMA OpenedIsQuiet ==
  ASSUME TypeOK, DamageInv, RecoverCommit
  PROVE  QuietInv'
<1> USE DEF table, disk, marks, stages, args, bounds, TypeOK
<1>1. /\ StagingEmpty /\ LayoutValid /\ pc = "r_staging" /\ proc = "recovering"
      /\ UNCHANGED <<dir, createStage, resultStage, tomb, createMark, resultMark, cur>>
      /\ proc' = "open" /\ pc' = "idle"
  BY DEF RecoverCommit
<1>2. \A k \in JobId :
        IF rows[k].state \in {"running", "cancel_requested"}
          THEN rows'[k].state \in {"failed", "cancelled"}
          ELSE rows'[k] = rows[k]
  BY InterruptedRows DEF RecoverCommit
<1>3. \A k \in JobId : Untouched(k)'
  BY <1>1 DEF StagingEmpty, DamageInv, RecoveryMarks, Untouched
<1>4. \A k \in JobId : ValidAt(k)'
  BY <1>1, <1>2 DEF LayoutValid, ValidAt, StorageValid, ExpectedContent
<1>5. \A k \in JobId : QuietJob(k)'
  BY <1>3, <1>4 DEF Untouched, ValidAt, QuietJob, StrayResult, StorageValid, ExpectedContent,
                    ResultStates, Verdict
<1> QED
  BY <1>1, <1>3, <1>4, <1>5 DEF QuietInv, QuietCall, CreateCall, PublishCall, DeleteCall

LEMMA RecoveryKeepsQuiet ==
  TypeOK /\ DamageInv /\ QuietInv /\ RecoveryNext => QuietInv'
<1> SUFFICES ASSUME TypeOK, DamageInv, QuietInv, RecoveryNext PROVE QuietInv'
  OBVIOUS
<1>0. CASE RecoverCommit
  BY <1>0, OpenedIsQuiet
<1> SUFFICES ASSUME ~RecoverCommit, history = "calm" PROVE QuietInv'
  <2>1. RecoveryNext /\ ~RecoverCommit => history' = history
    BY DEF RecoveryNext, NextMarker, RecoverCreate, RecoverCreateStage, RecoverCreateUnmark,
           RecoverResult, RecoverResultStage, RecoverResultUnmark, SweepStage, SweepTombstone,
           OpenRefused, Recovering, bounds
  <2> QED
    BY <1>0, <2>1 DEF QuietInv
<1> USE DEF table, disk, marks, stages, args, bounds, Recovering, TypeOK
\* Recovery under way: only what a crash may leave matters.
<1>1. ASSUME proc' # "open", \A j \in JobId : QuietJob(j)',
             pc' \in {"r_result_stage", "r_result_unmark"} => ~StrayResult(cur)'
      PROVE  QuietInv'
  BY <1>1 DEF QuietInv
<1>2. ASSUME UNCHANGED <<rows, dir, tomb, resultMark>> PROVE \A j \in JobId : QuietJob(j)'
  BY <1>2 DEF QuietInv, QuietJob, StrayResult
<1>3. CASE NextMarker
  BY <1>1, <1>2, <1>3 DEF NextMarker
<1>4. CASE RecoverCreate
  <2>1. \A j \in JobId : StrayResult(j)' => StrayResult(j)
    BY <1>4 DEF RecoverCreate, StrayResult, Verdict
  <2> QED
    BY <1>1, <1>4, <2>1 DEF RecoverCreate, QuietInv, QuietJob
<1>5. CASE RecoverCreateStage \/ RecoverCreateUnmark
  BY <1>1, <1>2, <1>5 DEF RecoverCreateStage, RecoverCreateUnmark
<1>6. CASE RecoverResult
  <2>1. /\ UNCHANGED <<rows, tomb, resultMark, cur, proc>> /\ proc = "recovering"
        /\ \A j \in JobId : j # cur => dir'[j] = dir[j]
        /\ rows[cur].state \notin ResultStates => dir'[cur] = WithoutResult(dir[cur])
    BY <1>6 DEF RecoverResult, ResultCommitted
  <2>2. ~StrayResult(cur)'
    BY <2>1 DEF StrayResult, WithoutResult, Verdict
  <2>3. \A j \in JobId : QuietJob(j)'
    BY <2>1, <2>2 DEF QuietInv, QuietJob, StrayResult
  <2> QED
    BY <1>1, <2>1, <2>2, <2>3
<1>7. CASE RecoverResultStage
  BY <1>1, <1>2, <1>7 DEF RecoverResultStage, QuietInv, StrayResult
<1>8. CASE RecoverResultUnmark
  <2>1. ~StrayResult(cur) /\ UNCHANGED <<rows, dir, tomb>>
        /\ \A j \in JobId : j # cur => resultMark'[j] = resultMark[j]
    BY <1>8 DEF RecoverResultUnmark, QuietInv
  <2> QED
    BY <1>1, <1>8, <2>1 DEF RecoverResultUnmark, QuietInv, QuietJob, StrayResult
<1>9. CASE SweepStage
  BY <1>1, <1>2, <1>9 DEF SweepStage
<1>10. CASE SweepTombstone
  <2> PICK j \in JobId :
        /\ tomb[j] # "absent"
        /\ tomb' = [tomb EXCEPT ![j] = "absent"]
        /\ IF rows[j].state = "none" THEN UNCHANGED dir
           ELSE dir[j] = "absent" /\ dir' = [dir EXCEPT ![j] = tomb[j]]
    BY <1>10 DEF SweepTombstone
  <2>1. UNCHANGED <<rows, resultMark>> /\ \A k \in JobId : k # j => dir'[k] = dir[k] /\ tomb'[k] = tomb[k]
    BY <1>10 DEF SweepTombstone
  <2>2. tomb'[j] = "absent"
    OBVIOUS
  <2>3. StrayResult(j)' => StrayResult(j)
    <3>1. CASE rows[j].state = "none"
      BY <2>1, <3>1 DEF StrayResult
    <3>2. CASE rows[j].state # "none"
      <4>1. dir'[j] = ExpectedContent(rows[j])
        BY <3>2 DEF QuietInv, QuietJob
      <4> QED
        BY <2>1, <4>1 DEF StrayResult, ExpectedContent, ResultStates, Verdict
    <3> QED
      BY <3>1, <3>2
  <2>4. \A k \in JobId : QuietJob(k)'
    BY <2>1, <2>2, <2>3 DEF QuietInv, QuietJob, StrayResult
  <2> QED
    BY <1>1, <1>10, <2>4 DEF SweepTombstone
<1>11. CASE OpenRefused
  BY <1>1, <1>2, <1>11 DEF OpenRefused
<1> QED
  BY <1>3, <1>4, <1>5, <1>6, <1>7, <1>8, <1>9, <1>10, <1>11 DEF RecoveryNext

LEMMA NextQuietInv == StoreInv /\ DamageInv /\ QuietInv /\ [Next]_vars => QuietInv'
<1> SUFFICES ASSUME StoreInv, DamageInv, QuietInv, [Next]_vars PROVE QuietInv'
  OBVIOUS
<1>0. TypeOK /\ CreateInv /\ PublishInv /\ DeleteInv
  BY DEF StoreInv, CallInv
<1>1. CASE SingleTransaction
  <2> SUFFICES ASSUME history = "calm" PROVE QuietInv'
    BY <1>0, <1>1, TransactionMoves DEF QuietInv, Committed, bounds
  <2>1. PICK j \in JobId, s \in JobState \ ResultStates, c \in DiagnosticCode :
          /\ rows' = Moved(rows, j, s, c)
          /\ rows[j].state \in {"queued", "running", "cancel_requested"}
    BY <1>0, <1>1, TransactionMoves
  <2>2. /\ rows'[j].state = s
        /\ \A k \in JobId : k # j => rows'[k] = rows[k]
    BY <1>0, <2>1 DEF TypeOK, Moved, Row, JobState
  <2>3. /\ Ready /\ pc' = "idle" /\ proc' = "open" /\ cur' = cur
        /\ UNCHANGED <<dir, createStage, resultStage, tomb, createMark, resultMark>>
    BY <1>0, <1>1, TransactionMoves DEF Ready, Committed, disk, marks, stages, args
  <2>4. \A k \in JobId : Untouched(k)' /\ ValidAt(k)
    BY <2>3, ReadyIsQuiet DEF Untouched
  <2>5. \A k \in JobId : ValidAt(k)'
    <3>1. dir[j] = "inputs" /\ ExpectedContent(rows'[j]) = "inputs" /\ rows'[j].state # "none"
      BY <2>1, <2>2, <2>4
         DEF ValidAt, StorageValid, ExpectedContent, JobState, ResultStates
    <3> QED
      BY <2>2, <2>3, <2>4, <3>1 DEF ValidAt, StorageValid
  <2>6. \A k \in JobId : QuietJob(k)'
    BY <2>4, <2>5 DEF Untouched, ValidAt, QuietJob, StrayResult, StorageValid, ExpectedContent,
                      ResultStates, Verdict
  <2> QED
    BY <1>0, <2>3, <2>4, <2>5, <2>6
       DEF QuietInv, QuietCall, CreateCall, PublishCall, DeleteCall, TypeOK
<1>2. CASE StepRaises
  <2>1. history' # "calm"
    BY <1>0, <1>2, BoundsAssumption DEF StepRaises, TypeOK
  <2> QED
    BY <2>1 DEF QuietInv
<1>3. CASE Crash \/ Close \/ Open
  <2>1. /\ proc' # "open" /\ pc' \notin {"r_result_stage", "r_result_unmark"} /\ history' = history
        /\ UNCHANGED <<rows, dir, tomb, resultMark>>
    BY <1>3 DEF Crash, Close, Open, Ready, table, disk, marks, stages, bounds
  <2> QED
    BY <2>1 DEF QuietInv, QuietJob, StrayResult
<1>4. CASE UNCHANGED vars
  BY <1>4 DEF vars, QuietInv, QuietCall, QuietJob, StrayResult, Untouched, ValidAt, StorageValid
<1> QED
  BY <1>0, <1>1, <1>2, <1>3, <1>4, CreateKeepsQuiet, PublishKeepsQuiet, DeleteKeepsQuiet,
     RecoveryKeepsQuiet DEF Next

\* Why open() refuses, if it does.
LEMMA RefusalStep ==
  StoreInv /\ DamageInv /\ RetryGraphValid(rows) /\ OpenRefused =>
    TornMark \/ UnmarkedResult \/ MarkedTombstone \/ SecondResult
<1> SUFFICES ASSUME StoreInv, DamageInv, RetryGraphValid(rows), OpenRefused,
                    ~TornMark, ~MarkedTombstone, ~SecondResult
             PROVE  UnmarkedResult
  OBVIOUS
<1> USE DEF StoreInv, TypeOK
<1>1. proc = "recovering" /\ Untrusted
  BY DEF OpenRefused
<1>2. ~(pc = "r_create" /\ rows[cur].state # "none" /\ dir[cur] = "absent")
  BY <1>1 DEF MarkedTombstone, Present, DamageInv, RecoveryMarks
<1>3. ~(pc = "r_result" /\ ResultCommitted /\ ResultAmbiguous)
  BY <1>1 DEF SecondResult, ResultCommitted, ResultAmbiguous, DamageInv, RecoveryMarks
<1>4. ~\E j \in JobId : tomb[j] # "absent" /\ rows[j].state # "none" /\ dir[j] # "absent"
  BY DEF TombstoneReplacesDir, Present
<1>5. pc = "r_staging" /\ StagingEmpty /\ ~LayoutValid
  BY <1>1, <1>2, <1>3, <1>4 DEF Untrusted, TornMark
<1>6. PICK j \in JobId : ~(IF rows[j].state = "none" THEN dir[j] = "absent" ELSE StorageValid(j))
  BY <1>5 DEF LayoutValid
<1>7. resultMark[j] = "absent" /\ createMark[j] = "absent" /\ tomb[j] = "absent"
  BY <1>1, <1>5 DEF DamageInv, RecoveryMarks, StagingEmpty
<1>8. rows[j].state # "none" /\ dir[j] # ExpectedContent(rows[j])
  BY <1>6, <1>7 DEF StorageValid, DamageInv, OrphansMarked
<1>9. WithoutResult(dir[j]) = "inputs" /\ rows[j].state \notin ResultStates
  BY <1>7, <1>8 DEF RowsBacked, Held, Present
<1>10. StrayResult(j)
  BY <1>8, <1>9 DEF StrayResult, WithoutResult, ExpectedContent, ResultStates
<1> QED
  BY <1>7, <1>10 DEF UnmarkedResult

LEMMA NextRefusalExplained ==
  StoreInv /\ DamageInv /\ RetryGraphValid(rows) /\ RefusalExplained /\ [Next]_vars
    => RefusalExplained'
<1> SUFFICES ASSUME StoreInv, DamageInv, RetryGraphValid(rows), RefusalExplained, [Next]_vars,
                    proc' = "refused"
             PROVE  (TornMark \/ UnmarkedResult \/ MarkedTombstone \/ SecondResult)'
  BY DEF RefusalExplained
<1>1. OpenRefused \/ UNCHANGED vars
  <2>1. ~SingleTransaction
    BY TransactionMoves DEF StoreInv, Ready, Committed
  <2>2. ~CreateNext /\ ~DeleteNext
    BY DEF CreateNext, StartCreate, StartRetry, StartNewJob, CreateStage, CreateMark, CreateSeal,
           CreateRename, CreateInsert, CreateUnmark, UndoTree, UndoStage, UndoMark, InCall, Goto,
           Ready, DeleteNext, StartDelete, DeleteRename, DeleteCommit, DeleteRmtree, DeleteRestore
  <2>3. ~PublishNext
    BY DEF PublishNext, StartPublish, PublishStage, PublishMark, PublishBlocked, PublishSeal,
           PublishReplace, PublishRefused, PublishCommit, PublishUnmark, AbortStage, AbortMark,
           RollbackMark, RollbackResult, DropResultMark, InCall, Goto, Ready
  <2>4. ~(StepRaises \/ Crash \/ Close \/ Open)
    BY DEF StepRaises, Crash, Close, Open, Ready
  <2> QED
    BY <2>1, <2>2, <2>3, <2>4
       DEF Next, RecoveryNext, NextMarker, RecoverCreate, RecoverCreateStage, RecoverCreateUnmark,
           RecoverResult, RecoverResultStage, RecoverResultUnmark, SweepStage, SweepTombstone,
           RecoverCommit, Recovering
<1>2. /\ TornMark \/ UnmarkedResult \/ MarkedTombstone \/ SecondResult
      /\ UNCHANGED <<rows, dir, createMark, resultMark, resultStage>>
  BY <1>1, RefusalStep DEF RefusalExplained, OpenRefused, vars, table, disk, marks, stages
<1> QED
  BY <1>2 DEF TornMark, UnmarkedResult, MarkedTombstone, SecondResult, StrayResult, Present

\* The rows and the files never disagree but in a way recovery repairs or one
\* of four named ways: with nothing raised the store is clean between calls and
\* a stray result is always marked, and a refusal to open has one of the four
\* causes, for any number of jobs, crashes and failing steps.
THEOREM DamageIsNamed == Spec => []OnlyNamedDamage
<1>1. StoreInv /\ QuietInv => QuietStoreClean
  <2>1. ASSUME StoreInv, QuietInv, history = "calm", Ready PROVE StagingEmpty /\ LayoutValid
    <3>1. createStage \subseteq JobId
      BY <2>1 DEF StoreInv, TypeOK
    <3> QED
      BY <2>1, <3>1, ReadyIsQuiet DEF StagingEmpty, LayoutValid, Untouched, ValidAt
  <2> QED
    BY <2>1, ReadyIsQuiet DEF QuietInv, QuietJob, QuietStoreClean, Untouched
<1>2. RetryChainsSound => RetryGraphValid(rows)
  BY DEF RetryChainsSound, Ledger!RowsLoad, Ledger!RetryGraphValid, RetryGraphValid,
         Ledger!Present, Present, Ledger!JobId, JobId, Ledger!NoJob, NoJob,
         Ledger!RetryableStates, RetryableStates
<1>3. Init => RefusalExplained
  BY DEF Init, RefusalExplained
<1> QED
  BY <1>1, <1>2, <1>3, StoreInvariant, InitDamageInv, NextDamageInv, InitQuietInv, NextQuietInv,
     NextRefusalExplained, RetryChainsStaySound, PTL DEF Spec, OnlyNamedDamage
=============================================================================
