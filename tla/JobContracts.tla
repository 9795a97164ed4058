---------------------------- MODULE JobContracts ----------------------------
(***************************************************************************)
(* The v1 contract of a durable build job (service/jobs/contracts.py): its *)
(* states, the legal transitions between them, and the diagnostic that     *)
(* each terminal state carries.  A job row is a record; the row of an ID   *)
(* that has no row in the database is NoRow.                               *)
(*                                                                         *)
(* What is left out: timestamps and the phase (a function of the state),   *)
(* the blob names (constants) and the result_available flag, which the     *)
(* validator ties to the state.                                            *)
(***************************************************************************)
EXTENDS Naturals

CONSTANT MaxJobs        \* bound: how many job IDs are ever allocated

ASSUME MaxJobsAssumption == MaxJobs \in Nat \ {0}

JobId == 1 .. MaxJobs   \* in allocation order, which is created_at order
NoJob == 0

JobState == {"queued", "running", "cancel_requested", "succeeded",
             "quality_failed", "failed", "cancelled"}
TerminalStates == {"succeeded", "quality_failed", "failed", "cancelled"}
ResultStates   == {"succeeded", "quality_failed"}
RetryableStates == {"failed", "cancelled"}

DiagnosticCode == {"none", "worker_interrupted", "build_failed",
                   "cancelled_by_request"}

LegalTransitions ==
  ({"queued"} \X {"running", "cancelled"})
  \cup ({"running"} \X {"cancel_requested", "succeeded", "quality_failed",
                        "failed", "cancelled"})
  \cup {<<"cancel_requested", "cancelled">>}

\* A validated BuildResponse is either accepted for indexing or not; the
\* verdict decides which of the two result states the job ends in.
Verdict == {"accepted", "rejected"}
TargetState(v) == IF v = "accepted" THEN "succeeded" ELSE "quality_failed"

Row == [state : JobState \cup {"none"}, parent : JobId \cup {NoJob},
        attempt : Nat, code : DiagnosticCode]
NoRow == [state |-> "none", parent |-> NoJob, attempt |-> 0, code |-> "none"]

InitialRow(p, a) ==
  [state |-> "queued", parent |-> p, attempt |-> a, code |-> "none"]

\* The cross-field rules BuildJobRecord checks each time a row is loaded.
RowConsistent(j, r) ==
  /\ r.attempt >= 1
  /\ (r.attempt = 1) <=> (r.parent = NoJob)
  /\ r.parent # j
  /\ r.state = "failed" <=> r.code \in {"build_failed", "worker_interrupted"}
  /\ r.state = "cancelled" <=> r.code = "cancelled_by_request"

-----------------------------------------------------------------------------
(* Operations on a table of rows, rows \in [JobId -> Row].                 *)

Present(rows) == {j \in JobId : rows[j].state # "none"}
InState(rows, S) == {j \in JobId : rows[j].state \in S}
Children(rows, p) == {j \in Present(rows) : rows[j].parent = p}

\* BuildJobRepository._transition and _update_record: the guard is CanMove.
CanMove(rows, j, s) ==
  <<rows[j].state, s>> \in LegalTransitions
Moved(rows, j, s, c) ==
  [rows EXCEPT ![j] = [@ EXCEPT !.state = s, !.code = c]]

\* SELECT ... WHERE state = 'queued' ORDER BY created_at, job_id LIMIT 1
IsOldestQueued(rows, j) ==
  /\ rows[j].state = "queued"
  /\ \A k \in InState(rows, {"queued"}) : j <= k

\* Mutant: a running job is cancelled at once.
CancelTargetAtOnce(s) == "cancelled"

\* The target of request_cancel, and the code that goes with it.
CancelTarget(s) == IF s = "queued" THEN "cancelled" ELSE "cancel_requested"
CancelCode(s) == IF s = "queued" THEN "cancelled_by_request" ELSE "none"

\* What recovery makes of the rows a stopped owner left active.
Interrupted(rows) ==
  [j \in JobId |->
     IF rows[j].state = "running"
       THEN [rows[j] EXCEPT !.state = "failed", !.code = "worker_interrupted"]
     ELSE IF rows[j].state = "cancel_requested"
       THEN [rows[j] EXCEPT !.state = "cancelled", !.code = "cancelled_by_request"]
     ELSE rows[j]]

\* _validate_retry_relationships: every parent is there, was eligible, and is
\* exactly one attempt behind.  (The walk up the chain visits every edge, so
\* checking every edge is the same; attempts that fall by one cannot cycle.)
RetryGraphValid(rows) ==
  \A j \in Present(rows) : rows[j].parent # NoJob =>
     /\ rows[rows[j].parent].state \in RetryableStates
     /\ rows[j].attempt = rows[rows[j].parent].attempt + 1
=============================================================================
