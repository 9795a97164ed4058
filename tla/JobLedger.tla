----------------------------- MODULE JobLedger -----------------------------
(***************************************************************************)
(* What the durable job store promises its callers: a table of rows and    *)
(* the result each finished job advertises, changed by one atomic step per *)
(* repository call.  There is no file system here, no marker and no crash: *)
(* a restart of the owner is visible only as Interrupt.                    *)
(* JobRepository implements this; JobWorker is a client of it.             *)
(***************************************************************************)
EXTENDS JobContracts

VARIABLES rows,     \* [JobId -> Row]: the committed rows
          results   \* [JobId -> Verdict \cup {"none"}]: advertised results

ledgerVars == <<rows, results>>

LedgerTypeOK ==
  /\ rows \in [JobId -> Row]
  /\ results \in [JobId -> Verdict \cup {"none"}]

LedgerInit ==
  /\ rows = [j \in JobId |-> NoRow]
  /\ results = [j \in JobId |-> "none"]

\* IDs are allocated in increasing order, so a new row is the youngest.
IsNew(j) == \A k \in Present(rows) : k < j

Create(j) ==
  /\ IsNew(j)
  /\ rows' = [rows EXCEPT ![j] = InitialRow(NoJob, 1)]
  /\ UNCHANGED results

Retry(j, p) ==
  /\ IsNew(j)
  /\ rows[p].state \in RetryableStates
  /\ Children(rows, p) = {}
  /\ rows' = [rows EXCEPT ![j] = InitialRow(p, rows[p].attempt + 1)]
  /\ UNCHANGED results

Claim(j) ==
  /\ IsOldestQueued(rows, j)
  /\ rows' = Moved(rows, j, "running", "none")
  /\ UNCHANGED results

Cancel(j) ==
  /\ rows[j].state \in {"queued", "running"}
  /\ rows' = Moved(rows, j, CancelTarget(rows[j].state), CancelCode(rows[j].state))
  /\ UNCHANGED results

FinishFailed(j) ==
  /\ CanMove(rows, j, "failed")
  /\ rows' = Moved(rows, j, "failed", "build_failed")
  /\ UNCHANGED results

FinishCancelled(j) ==
  /\ CanMove(rows, j, "cancelled")
  /\ rows' = Moved(rows, j, "cancelled", "cancelled_by_request")
  /\ UNCHANGED results

\* The result and the state that advertises it appear in the same step.
Publish(j, v) ==
  /\ rows[j].state = "running"
  /\ rows' = Moved(rows, j, TargetState(v), "none")
  /\ results' = [results EXCEPT ![j] = v]

Delete(j) ==
  /\ rows[j].state \in TerminalStates
  /\ Children(rows, j) = {}
  /\ rows' = [rows EXCEPT ![j] = NoRow]
  /\ results' = [results EXCEPT ![j] = "none"]

Interrupt == rows' = Interrupted(rows) /\ UNCHANGED results

LedgerNext ==
  \/ \E j \in JobId :
        \/ Create(j) \/ Claim(j) \/ Cancel(j) \/ FinishFailed(j)
        \/ FinishCancelled(j) \/ Delete(j)
        \/ \E p \in JobId : Retry(j, p)
        \/ \E v \in Verdict : Publish(j, v)
  \/ Interrupt

LedgerSpec == LedgerInit /\ [][LedgerNext]_ledgerVars

-----------------------------------------------------------------------------
\* Every row passes BuildJobRecord's validator, and the retry graph the one
\* every open runs (repository.py _load_record_row, _validate_retry_relationships).
RowsLoad ==
  /\ \A j \in Present(rows) : RowConsistent(j, rows[j])
  /\ RetryGraphValid(rows)

\* A parent has at most one retry child: the UNIQUE constraint on
\* parent_job_id is never what stops a create.
OneRetryChild ==
  \A j, k \in Present(rows) :
     rows[j].parent = rows[k].parent /\ rows[j].parent # NoJob => j = k

\* A result is advertised exactly by a job in the result state of its verdict.
ResultMatchesState ==
  \A j \in JobId :
     IF results[j] = "none" THEN rows[j].state \notin ResultStates
                            ELSE rows[j].state = TargetState(results[j])
=============================================================================
