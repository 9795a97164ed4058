--------------------------- MODULE JobLedgerProofs ---------------------------
(***************************************************************************)
(* The ledger keeps its rows loadable, its retry chains sound and its      *)
(* results attached to the states that advertise them, for every number of *)
(* jobs.  LedgerInv is inductive as it stands: a row's state leaves the    *)
(* retryable ones only by deletion, and deletion asks for no children.     *)
(***************************************************************************)
EXTENDS JobLedger, TLAPS

\* RowsLoad and OneRetryChild of a table r.
RowsSound(r) ==
  /\ \A k \in Present(r) : RowConsistent(k, r[k])
  /\ RetryGraphValid(r)
  /\ \A k, l \in Present(r) : r[k].parent = r[l].parent /\ r[k].parent # NoJob => k = l

LedgerInv == LedgerTypeOK /\ RowsLoad /\ OneRetryChild /\ ResultMatchesState

-----------------------------------------------------------------------------
\* What moving one row does: the row keeps its parent and attempt, takes the
\* new state and code, and no other row changes (_transition).
LEMMA MovedRow ==
  ASSUME NEW r \in [JobId -> Row], NEW j \in JobId,
         NEW s \in JobState, NEW c \in DiagnosticCode
  PROVE  /\ Moved(r, j, s, c) \in [JobId -> Row]
         /\ Moved(r, j, s, c)[j].state = s
         /\ Moved(r, j, s, c)[j].code = c
         /\ Moved(r, j, s, c)[j].parent = r[j].parent
         /\ Moved(r, j, s, c)[j].attempt = r[j].attempt
         /\ \A k \in JobId : k # j => Moved(r, j, s, c)[k] = r[k]
BY DEF Moved, Row

\* Every transition the ledger makes on a row leaves an active state, so that
\* the row it moves is nobody's parent (create_retry admits only terminal ones).
LEMMA MoveKeepsRows ==
  ASSUME NEW r \in [JobId -> Row], NEW j \in JobId,
         NEW s \in JobState, NEW c \in DiagnosticCode,
         RowsSound(r),
         r[j].state \in {"queued", "running", "cancel_requested"},
         s = "failed" <=> c \in {"build_failed", "worker_interrupted"},
         s = "cancelled" <=> c = "cancelled_by_request"
  PROVE  RowsSound(Moved(r, j, s, c))
<1> DEFINE n == Moved(r, j, s, c)
<1> USE DEF RowsSound
<1>1. /\ n \in [JobId -> Row]
      /\ n[j].state = s /\ n[j].code = c
      /\ n[j].parent = r[j].parent /\ n[j].attempt = r[j].attempt
      /\ \A k \in JobId : k # j => n[k] = r[k]
  BY MovedRow
<1> HIDE DEF n
<1>2. Present(n) = Present(r)
  BY <1>1 DEF Present, JobState
<1>3. \A k \in Present(n) : n[k].parent = r[k].parent /\ n[k].attempt = r[k].attempt
  BY <1>1 DEF Present
<1>4. \A k \in Present(n) : RowConsistent(k, n[k])
  BY <1>1, <1>2, <1>3 DEF RowConsistent, Present
<1>5. RetryGraphValid(n)
  <2> SUFFICES ASSUME NEW k \in Present(n), n[k].parent # NoJob
               PROVE  /\ n[n[k].parent].state \in RetryableStates
                      /\ n[k].attempt = n[n[k].parent].attempt + 1
    BY DEF RetryGraphValid
  <2> DEFINE p == r[k].parent
  <2>1. /\ k \in JobId /\ p \in JobId
        /\ r[p].state \in RetryableStates /\ r[k].attempt = r[p].attempt + 1
    BY <1>2, <1>3 DEF RetryGraphValid, Present, Row
  <2>2. p # j
    BY <2>1 DEF RetryableStates
  <2> QED
    BY <1>1, <1>3, <2>1, <2>2
<1>6. \A k, l \in Present(n) : n[k].parent = n[l].parent /\ n[k].parent # NoJob => k = l
  BY <1>2, <1>3
<1> QED
  BY <1>4, <1>5, <1>6 DEF n

\* A new row becomes the youngest: nobody's parent, and the only child of its
\* own (create, create_retry).
LEMMA NewRowKeepsRows ==
  ASSUME NEW r \in [JobId -> Row], NEW j \in JobId, NEW p \in JobId \cup {NoJob}, NEW a \in Nat,
         RowsSound(r),
         \A k \in Present(r) : k < j,
         IF p = NoJob THEN a = 1
         ELSE r[p].state \in RetryableStates /\ Children(r, p) = {} /\ a = r[p].attempt + 1,
         NEW n, n = [r EXCEPT ![j] = InitialRow(p, a)]
  PROVE  n \in [JobId -> Row] /\ RowsSound(n)
<1> USE DEF RowsSound
<1>1. /\ n \in [JobId -> Row]
      /\ n[j].state = "queued" /\ n[j].code = "none" /\ n[j].parent = p /\ n[j].attempt = a
      /\ \A k \in JobId : k # j => n[k] = r[k]
  BY DEF InitialRow, Row, JobState, DiagnosticCode
<1>2. j \notin Present(r) /\ j # p
  BY DEF Present, JobId, RetryableStates, NoJob
<1>3. Present(n) = Present(r) \cup {j}
  BY <1>1 DEF Present
<1>4. \A k \in Present(r) : k \in JobId /\ r[k].parent # j /\ n[k] = r[k]
  <2> SUFFICES ASSUME NEW k \in Present(r) PROVE k \in JobId /\ r[k].parent # j /\ n[k] = r[k]
    OBVIOUS
  <2>1. k \in JobId /\ k # j
    BY <1>2 DEF Present
  <2>2. r[k].parent = j => r[j].state \in RetryableStates
    BY DEF RetryGraphValid, NoJob, JobId
  <2> QED
    BY <1>1, <1>2, <2>1, <2>2 DEF RetryableStates, Present
<1>5. p # NoJob => p \in Present(r) /\ n[p] = r[p] /\ r[p].attempt \in Nat /\ r[p].attempt >= 1
  BY <1>1, <1>2 DEF Present, RetryableStates, Row, RowConsistent
<1>6. \A k \in Present(n) : RowConsistent(k, n[k])
  <2>1. RowConsistent(j, n[j])
    BY <1>1, <1>2, <1>5 DEF RowConsistent
  <2> QED
    BY <1>3, <1>4, <2>1
<1>7. RetryGraphValid(n)
  <2> SUFFICES ASSUME NEW k \in Present(n), n[k].parent # NoJob
               PROVE  /\ n[n[k].parent].state \in RetryableStates
                      /\ n[k].attempt = n[n[k].parent].attempt + 1
    BY DEF RetryGraphValid
  <2>1. CASE k = j
    BY <1>1, <1>5, <2>1
  <2>2. CASE k \in Present(r)
    <3>1. n[k] = r[k] /\ r[k].parent \in JobId /\ r[k].parent # j
      BY <1>4, <2>2 DEF Row
    <3> QED
      BY <1>1, <2>2, <3>1 DEF RetryGraphValid
  <2> QED
    BY <1>3, <2>1, <2>2
<1>8. \A k, l \in Present(n) : n[k].parent = n[l].parent /\ n[k].parent # NoJob => k = l
  <2>1. \A k \in Present(r) : n[k].parent = n[j].parent => p = NoJob
    BY <1>1, <1>4 DEF Children
  <2> QED
    BY <1>1, <1>3, <1>4, <2>1
<1> QED
  BY <1>1, <1>6, <1>7, <1>8

-----------------------------------------------------------------------------
LEMMA LedgerInitInv == LedgerInit => LedgerInv
BY DEF LedgerInit, LedgerInv, LedgerTypeOK, RowsLoad, OneRetryChild, ResultMatchesState,
       NoRow, NoJob, Row, DiagnosticCode, Present, RetryGraphValid, ResultStates

\* A step that moves one active row keeps the invariant, as long as the results
\* change with the result states.
LEMMA MoveKeepsLedger ==
  ASSUME LedgerInv, NEW j \in JobId, NEW s \in JobState, NEW c \in DiagnosticCode,
         rows' = Moved(rows, j, s, c),
         rows[j].state \in {"queued", "running", "cancel_requested"},
         s = "failed" <=> c \in {"build_failed", "worker_interrupted"},
         s = "cancelled" <=> c = "cancelled_by_request",
         \/ s \notin ResultStates /\ results' = results
         \/ \E v \in Verdict : s = TargetState(v) /\ results' = [results EXCEPT ![j] = v]
  PROVE  LedgerInv'
<1>1. /\ rows' \in [JobId -> Row]
      /\ rows'[j].state = s
      /\ \A k \in JobId : k # j => rows'[k] = rows[k]
  BY MovedRow DEF LedgerInv, LedgerTypeOK
<1>2. results' \in [JobId -> Verdict \cup {"none"}]
  BY DEF LedgerInv, LedgerTypeOK
<1>3. (RowsLoad /\ OneRetryChild)'
  <2>1. rows \in [JobId -> Row] /\ RowsSound(rows)
    BY DEF LedgerInv, LedgerTypeOK, RowsSound, RowsLoad, OneRetryChild
  <2>2. RowsSound(rows')
    BY <2>1, MoveKeepsRows
  <2> QED
    BY <2>2 DEF RowsSound, RowsLoad, OneRetryChild
<1>4. results[j] = "none"
  BY DEF LedgerInv, ResultMatchesState, TargetState, LedgerTypeOK
<1>5. ResultMatchesState'
  BY <1>1, <1>4 DEF LedgerInv, LedgerTypeOK, ResultMatchesState, Verdict, TargetState, ResultStates
<1> QED
  BY <1>1, <1>2, <1>3, <1>5 DEF LedgerInv, LedgerTypeOK

\* A step that adds the youngest row keeps the invariant.
LEMMA NewRowKeepsLedger ==
  ASSUME LedgerInv, NEW j \in JobId, NEW p \in JobId \cup {NoJob}, NEW a \in Nat,
         IsNew(j), rows' = [rows EXCEPT ![j] = InitialRow(p, a)], results' = results,
         IF p = NoJob THEN a = 1
         ELSE rows[p].state \in RetryableStates /\ Children(rows, p) = {}
              /\ a = rows[p].attempt + 1
  PROVE  LedgerInv'
<1>1. rows' \in [JobId -> Row] /\ (RowsLoad /\ OneRetryChild)'
  <2>1. rows \in [JobId -> Row] /\ RowsSound(rows) /\ \A k \in Present(rows) : k < j
    BY DEF LedgerInv, LedgerTypeOK, RowsSound, RowsLoad, OneRetryChild, IsNew
  <2>2. rows' \in [JobId -> Row] /\ RowsSound(rows')
    BY <2>1, NewRowKeepsRows
  <2> QED
    BY <2>2 DEF RowsSound, RowsLoad, OneRetryChild
<1>2. results[j] = "none"
  <2>1. rows[j].state = "none"
    BY DEF IsNew, Present, JobId
  <2> QED
    BY <2>1 DEF LedgerInv, ResultMatchesState, TargetState, LedgerTypeOK
<1>3. /\ rows'[j].state = "queued"
      /\ \A k \in JobId : k # j => rows'[k] = rows[k]
  BY DEF InitialRow, LedgerInv, LedgerTypeOK
<1>4. ResultMatchesState'
  BY <1>2, <1>3 DEF LedgerInv, LedgerTypeOK, ResultMatchesState, ResultStates, TargetState
<1> QED
  BY <1>1, <1>4 DEF LedgerInv, LedgerTypeOK

\* Deleting a row without children orphans nobody.
LEMMA DeleteKeepsLedger ==
  ASSUME LedgerInv, NEW j \in JobId, Delete(j)
  PROVE  LedgerInv'
<1>1. /\ rows' \in [JobId -> Row]
      /\ rows'[j] = NoRow
      /\ \A k \in JobId : k # j => rows'[k] = rows[k]
      /\ Present(rows') = Present(rows) \ {j}
  BY DEF Delete, LedgerInv, LedgerTypeOK, NoRow, Row, NoJob, DiagnosticCode, Present
<1>2. \A k \in Present(rows') : k \in JobId /\ rows[k].parent # j /\ rows'[k] = rows[k]
  BY <1>1 DEF Delete, Children, Present
<1>3. RetryGraphValid(rows')
  <2> SUFFICES ASSUME NEW k \in Present(rows'), rows'[k].parent # NoJob
               PROVE  /\ rows'[rows'[k].parent].state \in RetryableStates
                      /\ rows'[k].attempt = rows'[rows'[k].parent].attempt + 1
    BY DEF RetryGraphValid
  <2>1. rows[k].parent \in JobId /\ rows[k].parent # j /\ rows'[k] = rows[k]
    BY <1>2 DEF LedgerInv, LedgerTypeOK, Row
  <2> QED
    BY <1>1, <2>1 DEF LedgerInv, RowsLoad, RetryGraphValid
<1>4. (RowsLoad /\ OneRetryChild)'
  BY <1>1, <1>2, <1>3 DEF LedgerInv, RowsLoad, OneRetryChild
<1>5. LedgerTypeOK' /\ ResultMatchesState'
  BY <1>1 DEF Delete, LedgerInv, LedgerTypeOK, ResultMatchesState, NoRow, ResultStates
<1> QED
  BY <1>4, <1>5 DEF LedgerInv

\* Recovery turns every active row into a terminal one without touching a
\* parent, an attempt or a result.
LEMMA InterruptKeepsLedger ==
  ASSUME LedgerInv, Interrupt
  PROVE  LedgerInv'
<1>1. /\ rows' \in [JobId -> Row] /\ Present(rows') = Present(rows)
      /\ \A k \in JobId :
            /\ rows'[k].parent = rows[k].parent /\ rows'[k].attempt = rows[k].attempt
            /\ IF rows[k].state = "running"
                 THEN rows'[k].state = "failed" /\ rows'[k].code = "worker_interrupted"
               ELSE IF rows[k].state = "cancel_requested"
                 THEN rows'[k].state = "cancelled" /\ rows'[k].code = "cancelled_by_request"
               ELSE rows'[k] = rows[k]
  BY DEF Interrupt, Interrupted, LedgerInv, LedgerTypeOK, Row, JobState, DiagnosticCode, Present
<1>2. \A k \in Present(rows') : RowConsistent(k, rows'[k])
  BY <1>1 DEF LedgerInv, RowsLoad, RowConsistent, Present
<1>3. RetryGraphValid(rows')
  <2> SUFFICES ASSUME NEW k \in Present(rows'), rows'[k].parent # NoJob
               PROVE  /\ rows'[rows'[k].parent].state \in RetryableStates
                      /\ rows'[k].attempt = rows'[rows'[k].parent].attempt + 1
    BY DEF RetryGraphValid
  <2>1. /\ rows[k].parent \in JobId /\ rows'[k].parent = rows[k].parent
        /\ rows'[k].attempt = rows[k].attempt
        /\ rows[rows[k].parent].state \in RetryableStates
        /\ rows[k].attempt = rows[rows[k].parent].attempt + 1
    BY <1>1 DEF LedgerInv, LedgerTypeOK, RowsLoad, RetryGraphValid, Row, Present
  <2> QED
    BY <1>1, <2>1 DEF RetryableStates
<1>4. OneRetryChild'
  BY <1>1 DEF LedgerInv, OneRetryChild, Present
<1>5. ResultMatchesState' /\ LedgerTypeOK'
  BY <1>1 DEF Interrupt, LedgerInv, LedgerTypeOK, ResultMatchesState, ResultStates, TargetState
<1> QED
  BY <1>2, <1>3, <1>4, <1>5 DEF LedgerInv, RowsLoad

LEMMA LedgerNextInv == LedgerInv /\ [LedgerNext]_ledgerVars => LedgerInv'
<1> SUFFICES ASSUME LedgerInv, [LedgerNext]_ledgerVars PROVE LedgerInv'
  OBVIOUS
<1> USE DEF JobState, DiagnosticCode, ResultStates
<1>1. ASSUME NEW j \in JobId, Create(j) PROVE LedgerInv'
  BY <1>1, NewRowKeepsLedger DEF Create, NoJob
<1>2. ASSUME NEW j \in JobId, NEW p \in JobId, Retry(j, p) PROVE LedgerInv'
  <2>1. rows[p].attempt + 1 \in Nat /\ p # NoJob
    BY DEF LedgerInv, LedgerTypeOK, Row, NoJob, JobId
  <2> QED
    BY <1>2, <2>1, NewRowKeepsLedger DEF Retry
<1>3. ASSUME NEW j \in JobId, Claim(j) PROVE LedgerInv'
  BY <1>3, MoveKeepsLedger DEF Claim, IsOldestQueued
<1>4. ASSUME NEW j \in JobId, Cancel(j) PROVE LedgerInv'
  BY <1>4, MoveKeepsLedger DEF Cancel, CancelTarget, CancelCode
<1>5. ASSUME NEW j \in JobId, FinishFailed(j) PROVE LedgerInv'
  BY <1>5, MoveKeepsLedger DEF FinishFailed, CanMove, LegalTransitions
<1>6. ASSUME NEW j \in JobId, FinishCancelled(j) PROVE LedgerInv'
  BY <1>6, MoveKeepsLedger DEF FinishCancelled, CanMove, LegalTransitions
<1>7. ASSUME NEW j \in JobId, NEW v \in Verdict, Publish(j, v) PROVE LedgerInv'
  BY <1>7, MoveKeepsLedger DEF Publish, TargetState
<1>8. ASSUME NEW j \in JobId, Delete(j) PROVE LedgerInv'
  BY <1>8, DeleteKeepsLedger
<1>9. CASE Interrupt
  BY <1>9, InterruptKeepsLedger
<1>10. CASE UNCHANGED ledgerVars
  BY <1>10 DEF ledgerVars, LedgerInv, LedgerTypeOK, RowsLoad, OneRetryChild, ResultMatchesState
<1> QED
  BY <1>1, <1>2, <1>3, <1>4, <1>5, <1>6, <1>7, <1>8, <1>9, <1>10 DEF LedgerNext

\* Whatever calls are made in whatever order, every row loads, no parent has
\* two retries or is deleted under one, and a result is advertised by exactly
\* the jobs that have it (contracts.py, repository.py 355-416, 909-924).
THEOREM LedgerSound == LedgerSpec => []LedgerInv
<1>1. LedgerInit => LedgerInv
  BY LedgerInitInv
<1>2. LedgerInv /\ [LedgerNext]_ledgerVars => LedgerInv'
  BY LedgerNextInv
<1> QED
  BY <1>1, <1>2, PTL DEF LedgerSpec
=============================================================================
