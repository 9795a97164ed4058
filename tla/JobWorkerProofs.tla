--------------------------- MODULE JobWorkerProofs ---------------------------
(***************************************************************************)
(* The worker and the routes, for any number of jobs, claim loops, starts  *)
(* and failing repository calls.  Every step is one of the ledger or       *)
(* leaves it alone, so that what the ledger promises holds here too.  What *)
(* the worker adds needs stop() to be called by one caller at a time, as   *)
(* the lifespan of the service does: WorkerDoubleStop.cfg shows what a     *)
(* second one can do.                                                      *)
(***************************************************************************)
EXTENDS JobWorker, JobLedgerProofs, FiniteSetTheorems

OneStopper == \A p, q \in Stopper : p = q

-----------------------------------------------------------------------------
(* Types.                                                                  *)

LoopTypeOK ==
  /\ repoOpen \in BOOLEAN /\ stopReq \in BOOLEAN /\ wake \in BOOLEAN
  /\ stopped \in BOOLEAN /\ tracked \in BOOLEAN
  /\ status \in WorkerStatus
  /\ pc \in [Slot -> SlotStep]
  /\ job \in [Slot -> JobId]
  /\ outcome \in [Slot -> Outcome]
  /\ stopPc \in [Stopper -> {"idle", "wait_tasks", "close", "finish", "unclosed",
                              "wait_owner"}]
  /\ orphans \subseteq [step : MutatingCall, job : JobId, outcome : Outcome]
  /\ toWake \subseteq JobId /\ silent \subseteq JobId
  /\ nextId \in 1 .. MaxJobs + 1
  /\ starts \in 0 .. MaxStarts /\ faults \in 0 .. MaxFaults
  /\ cause \in {"none", "storage", "closed", "conflict", "not_found"}

LEMMA InitLoopTypeOK == Init => LoopTypeOK
<1>1. 1 \in JobId /\ 1 \in 1 .. MaxJobs + 1 /\ 0 \in 0 .. MaxStarts /\ 0 \in 0 .. MaxFaults
  BY MaxJobsAssumption, WorkerAssumption DEF JobId
<1>2. "done" \in SlotStep /\ "error" \in Outcome /\ "stopped" \in WorkerStatus
  BY DEF SlotStep, Outcome, WorkerStatus
<1>3. ASSUME Init
      PROVE  /\ pc \in [Slot -> SlotStep] /\ job \in [Slot -> JobId]
             /\ outcome \in [Slot -> Outcome]
             /\ stopPc \in [Stopper -> {"idle", "wait_tasks", "close", "finish", "unclosed",
                                         "wait_owner"}]
  BY <1>1, <1>2, <1>3 DEF Init
<1>4. ASSUME Init
      PROVE  starts \in 0 .. MaxStarts /\ faults \in 0 .. MaxFaults /\ nextId \in 1 .. MaxJobs + 1
  BY <1>1, <1>4 DEF Init
<1> QED
  BY <1>2, <1>3, <1>4 DEF Init, LoopTypeOK

\* A slot's own step moves its pc, perhaps its job and outcome.
LEMMA GoesTypeOK ==
  ASSUME LoopTypeOK, NEW s \in Slot, NEW from, NEW to \in SlotStep, Goes(s, from, to),
         job' \in [Slot -> JobId], outcome' \in [Slot -> Outcome]
  PROVE  LoopTypeOK'
BY DEF LoopTypeOK, Goes, control, service

LEMMA KeepTypeOK ==
  ASSUME LoopTypeOK, NEW s \in Slot, Keep(s)
  PROVE  job' \in [Slot -> JobId] /\ outcome' \in [Slot -> Outcome]
BY DEF Keep, LoopTypeOK, Outcome

LEMMA LoopStepTypeOK ==
  ASSUME LoopTypeOK, NEW s \in Slot, LoopStep(s) \/ BuildEnds(s)
  PROVE  LoopTypeOK'
<1> USE DEF Answer, SlotStep, CallStep, JobStep
<1>0. /\ job \in [Slot -> JobId] /\ outcome \in [Slot -> Outcome]
      /\ Keep(s) => job' \in [Slot -> JobId] /\ outcome' \in [Slot -> Outcome]
  BY KeepTypeOK DEF LoopTypeOK
<1>1. CASE Top(s)
  BY <1>0, <1>1, GoesTypeOK DEF Top
<1>2. CASE ClaimSome(s)
  BY <1>0, <1>2, GoesTypeOK DEF ClaimSome
<1>3. CASE ClaimNone(s)
  BY <1>0, <1>3, GoesTypeOK DEF ClaimNone
<1>4. CASE None1(s)
  BY <1>0, <1>4 DEF None1, LoopTypeOK, control, service
<1>5. CASE None2(s)
  BY <1>0, <1>5, GoesTypeOK DEF None2
<1>6. CASE Check(s)
  BY <1>0, <1>6, GoesTypeOK DEF Check
<1>7. CASE Recheck(s)
  <2>1. (CASE State(s) = "cancel_requested" -> "cancel"
           [] State(s) = "running" -> "publish"
           [] OTHER -> "top") \in SlotStep
    OBVIOUS
  <2> QED
    BY <1>0, <1>7, <2>1, GoesTypeOK DEF Recheck
<1>8. CASE PublishOk(s) \/ PublishMismatch(s) \/ PublishConflict(s)
  BY <1>0, <1>8, GoesTypeOK DEF PublishOk, PublishMismatch, PublishConflict
<1>9. CASE Reconcile(s)
  BY <1>0, <1>9, GoesTypeOK DEF Reconcile
<1>10. CASE Settle(s)
  <2>1. (CASE State(s) = "cancel_requested" -> "cancel"
           [] State(s) = "running" -> "fail"
           [] OTHER -> "top") \in SlotStep
    OBVIOUS
  <2> QED
    BY <1>0, <1>10, <2>1, GoesTypeOK DEF Settle
<1>11. CASE FailOk(s) \/ CancelOk(s) \/ Tail(s)
  BY <1>0, <1>11, GoesTypeOK DEF FailOk, CancelOk, Tail
<1>12. ASSUME NEW why \in {"storage", "closed", "conflict", "not_found"}, Breaks(s, why),
              faults' \in 0 .. MaxFaults
       PROVE  LoopTypeOK'
  BY <1>0, <1>12 DEF Breaks, Woken, LoopTypeOK, WorkerStatus, service
<1>13. CASE FinishConflicts(s) \/ TailFindsNothing(s)
  BY <1>12, <1>13 DEF FinishConflicts, TailFindsNothing, LoopTypeOK
<1>14. CASE CallRaises(s)
  BY <1>12, <1>14, WorkerAssumption DEF CallRaises, LoopTypeOK
<1>15. CASE BuildEnds(s)
  <2>1. PICK o \in Outcome :
          /\ outcome' = [outcome EXCEPT ![s] = o]
          /\ Goes(s, "build", IF stopReq THEN "top"
                              ELSE IF o = "error" THEN "settle" ELSE "recheck")
    BY <1>15 DEF BuildEnds
  <2> QED
    BY <1>0, <1>15, <2>1, GoesTypeOK DEF BuildEnds
<1> QED
  BY <1>1, <1>2, <1>3, <1>4, <1>5, <1>6, <1>7, <1>8, <1>9, <1>10, <1>11, <1>13, <1>14, <1>15
     DEF LoopStep

LEMMA NextLoopTypeOK == LoopTypeOK /\ [Next]_vars => LoopTypeOK'
<1> SUFFICES ASSUME LoopTypeOK, [Next]_vars PROVE LoopTypeOK'
  OBVIOUS
<1> USE DEF LoopTypeOK, WorkerStatus, Lifecycle, control, service
<1>1. ASSUME NEW s \in Slot, LoopStep(s) \/ BuildEnds(s) PROVE LoopTypeOK'
  BY <1>1, LoopStepTypeOK
<1>2. CASE StartBegin
  <2>1. starts' \in 0 .. MaxStarts
    BY <1>2, WorkerAssumption DEF StartBegin
  <2> QED
    BY <1>2, <2>1 DEF StartBegin
<1>3. CASE StartOpens
  BY <1>3 DEF StartOpens, SlotStep
<1>4. CASE StartFails
  BY <1>4, WorkerAssumption DEF StartFails
<1>13. CASE StartCancelled
  BY <1>13 DEF StartCancelled
<1>14. ASSUME NEW p \in Stopper, StopCloseFails(p) PROVE LoopTypeOK'
  <2>1. stopPc' \in [Stopper -> {"idle", "wait_tasks", "close", "finish", "unclosed",
                                 "wait_owner"}]
    BY <1>14 DEF StopCloseFails
  <2>2. faults' \in 0 .. MaxFaults
    BY <1>14, WorkerAssumption DEF StopCloseFails
  <2> QED
    BY <1>14, <2>1, <2>2 DEF StopCloseFails
<1>15. CASE CreationRaises
  <2>1. toWake' \subseteq toWake /\ silent' \subseteq silent \cup toWake
    BY <1>15 DEF CreationRaises
  <2> QED
    BY <1>15, <2>1 DEF CreationRaises
<1>5. ASSUME NEW p \in Stopper, StopOwner(p) PROVE LoopTypeOK'
  BY <1>5 DEF StopOwner, Woken, SlotStep
<1>6. ASSUME NEW p \in Stopper, StopJoins(p) \/ TasksDone(p) \/ StopCloses(p) \/ StopFinishes(p)
      PROVE LoopTypeOK'
  <2>1. CASE StopJoins(p)
    BY <2>1 DEF StopJoins
  <2>2. CASE TasksDone(p)
    BY <2>2 DEF TasksDone
  <2>3. CASE StopCloses(p)
    BY <2>3 DEF StopCloses
  <2>4. CASE StopFinishes(p)
    BY <2>4 DEF StopFinishes
  <2> QED
    BY <1>6, <2>1, <2>2, <2>3, <2>4
<1>7. ASSUME NEW p \in Stopper, GraceExpires(p) PROVE LoopTypeOK'
  BY <1>7 DEF GraceExpires, SlotStep
<1>8. ASSUME NEW o \in orphans, OrphanCall(o) PROVE LoopTypeOK'
  BY <1>8 DEF OrphanCall
<1>9. CASE Crash
  BY <1>9 DEF Crash, SlotStep
<1>10. CASE Clients
  <2>1. CASE SubmitJob \/ RetryJob
    <3>1. /\ nextId \in JobId /\ nextId' = nextId + 1 /\ Route
          /\ toWake' = toWake \cup {nextId} /\ silent' = silent
      BY <2>1 DEF SubmitJob, RetryJob, NewJob
    <3>2. nextId' \in 1 .. MaxJobs + 1
      BY <3>1, MaxJobsAssumption DEF JobId
    <3> QED
      BY <3>1, <3>2 DEF Route
  <2>2. CASE CancelJob \/ DeleteJob
    BY <2>2 DEF CancelJob, DeleteJob, Route
  <2> QED
    BY <1>10, <2>1, <2>2 DEF Clients
<1>11. CASE Notify
  BY <1>11 DEF Notify, Woken, SlotStep
<1>12. CASE UNCHANGED vars
  BY <1>12 DEF vars
<1> QED
  BY <1>1, <1>2, <1>3, <1>4, <1>5, <1>6, <1>7, <1>8, <1>9, <1>10, <1>11, <1>12,
     <1>13, <1>14, <1>15 DEF Next, Start, StartEnds, StopStep, CreationReturns

\* What a step does to the ledger: the loops, the orphaned calls, the routes
\* and recovery each make one of its calls, and the rest leave it alone.
LEMMA StepIsLedgerStep ==
  LoopTypeOK /\ [Next]_vars => [LedgerNext]_ledgerVars
<1> SUFFICES ASSUME LoopTypeOK, [Next]_vars PROVE [LedgerNext]_ledgerVars
  OBVIOUS
<1> USE DEF Lifecycle, control, service
<1>1. ASSUME NEW s \in Slot, LoopStep(s) \/ BuildEnds(s) PROVE [LedgerNext]_ledgerVars
  <2>1. CASE ClaimSome(s)
    BY <2>1 DEF ClaimSome, LedgerNext
  <2>2. job[s] \in JobId
    BY DEF LoopTypeOK
  <2>3. CASE PublishOk(s) \/ FailOk(s) \/ CancelOk(s)
    BY <2>2, <2>3 DEF PublishOk, FailOk, CancelOk, LedgerNext
  <2>4. CASE \/ Top(s) \/ ClaimNone(s) \/ None1(s) \/ None2(s) \/ Check(s) \/ Recheck(s)
             \/ PublishMismatch(s) \/ PublishConflict(s) \/ Reconcile(s) \/ Settle(s)
             \/ Tail(s) \/ BuildEnds(s)
    BY <2>4 DEF Top, ClaimNone, None1, None2, Check, Recheck, PublishMismatch, PublishConflict,
                Reconcile, Settle, Tail, BuildEnds, Answer
  <2>5. CASE FinishConflicts(s) \/ TailFindsNothing(s) \/ CallRaises(s)
    BY <2>5 DEF FinishConflicts, TailFindsNothing, CallRaises, Breaks
  <2> QED
    BY <1>1, <2>1, <2>3, <2>4, <2>5 DEF LoopStep
<1>2. CASE StartBegin \/ StartFails
  BY <1>2 DEF StartBegin, StartFails
<1>3. CASE StartOpens \/ StartCancelled
  BY <1>3 DEF StartOpens, StartCancelled, LedgerNext
<1>4. ASSUME NEW p \in Stopper, StopOwner(p) \/ StopJoins(p) \/ StopStep(p)
      PROVE  [LedgerNext]_ledgerVars
  BY <1>4 DEF StopOwner, StopJoins, StopStep, TasksDone, GraceExpires, StopCloses,
              StopCloseFails, StopFinishes
<1>5. ASSUME NEW o \in orphans, OrphanCall(o) PROVE [LedgerNext]_ledgerVars
  <2>1. o.job \in JobId
    BY DEF LoopTypeOK
  <2> QED
    BY <1>5, <2>1 DEF OrphanCall, LedgerNext, ledgerVars
<1>6. CASE Clients
  BY <1>6 DEF Clients, SubmitJob, RetryJob, NewJob, CancelJob, DeleteJob, LedgerNext
<1>7. CASE Crash \/ CreationReturns \/ UNCHANGED vars
  BY <1>7 DEF Crash, CreationReturns, Notify, CreationRaises, vars, ledgerVars
<1> QED
  BY <1>1, <1>2, <1>3, <1>4, <1>5, <1>6, <1>7 DEF Next, Start, StartEnds

\* The worker and the routes are clients of the ledger.
LEMMA WorkerRefinesLedger == Spec => LedgerSpec
<1>1. Init => LedgerInit
  BY DEF Init
<1>2. Init => LoopTypeOK
  BY InitLoopTypeOK
<1> QED
  BY <1>1, <1>2, NextLoopTypeOK, StepIsLedgerStep, PTL DEF Spec, LedgerSpec

\* Every variable of the worker keeps its type, its orphaned calls included,
\* and the table and the results keep theirs.
THEOREM WorkerTypesHold == Spec => []TypeOK
<1>1. LoopTypeOK /\ LedgerInv => TypeOK
  BY DEF TypeOK, LoopTypeOK, LedgerInv
<1> QED
  BY <1>1, InitLoopTypeOK, NextLoopTypeOK, WorkerRefinesLedger, LedgerSound, PTL DEF Spec

\* With any number of callers of stop(), threads and routes, the ledger the
\* worker leaves is the one the repository promises: rows that load, one retry
\* per parent, results exactly where they are advertised.
THEOREM WorkerLeavesSoundLedger == Spec => [](RowsLoad /\ OneRetryChild /\ ResultMatchesState)
<1>1. LedgerInv => RowsLoad /\ OneRetryChild /\ ResultMatchesState
  BY DEF LedgerInv
<1> QED
  BY <1>1, WorkerRefinesLedger, LedgerSound, PTL

-----------------------------------------------------------------------------
(* Cancellation.  Only FinishCancelled and Interrupt touch a row that is    *)
(* waiting for its cancellation.                                           *)

LEMMA MoveElsewhere ==
  ASSUME LedgerTypeOK, NEW j \in JobId, NEW k \in JobId, NEW s \in JobState,
         NEW c \in DiagnosticCode, rows' = Moved(rows, k, s, c), j # k
  PROVE  rows'[j] = rows[j]
BY MovedRow DEF LedgerTypeOK

LEMMA CancellationStep ==
  ASSUME LedgerTypeOK, [LedgerNext]_ledgerVars, NEW j \in JobId,
         rows[j].state = "cancel_requested"
  PROVE  rows'[j].state \in {"cancel_requested", "cancelled"}
<1> USE DEF JobState, DiagnosticCode
<1>1. ASSUME NEW k \in JobId, Create(k) \/ \E p \in JobId : Retry(k, p)
      PROVE  rows'[j] = rows[j]
  <2>1. k # j
    BY <1>1 DEF Create, Retry, IsNew, Present, JobId
  <2> QED
    BY <1>1, <2>1 DEF Create, Retry, LedgerTypeOK
<1>2. ASSUME NEW k \in JobId,
             Claim(k) \/ Cancel(k) \/ FinishFailed(k) \/ \E v \in Verdict : Publish(k, v)
      PROVE  rows'[j] = rows[j]
  <2>1. k # j
    BY <1>2 DEF Claim, IsOldestQueued, Cancel, FinishFailed, CanMove, LegalTransitions, Publish
  <2> QED
    BY <1>2, <2>1, MoveElsewhere
       DEF Claim, Cancel, FinishFailed, Publish, TargetState, CancelTarget, CancelCode
<1>3. ASSUME NEW k \in JobId, FinishCancelled(k)
      PROVE  rows'[j].state \in {"cancel_requested", "cancelled"}
  <2>1. CASE k = j
    BY <1>3, <2>1, MovedRow DEF FinishCancelled, LedgerTypeOK
  <2>2. CASE k # j
    BY <1>3, <2>2, MoveElsewhere DEF FinishCancelled
  <2> QED
    BY <2>1, <2>2
<1>4. ASSUME NEW k \in JobId, Delete(k) PROVE rows'[j] = rows[j]
  BY <1>4 DEF Delete, TerminalStates, LedgerTypeOK
<1>5. CASE Interrupt
  BY <1>5 DEF Interrupt, Interrupted, LedgerTypeOK, Row
<1>6. CASE UNCHANGED ledgerVars
  BY <1>6 DEF ledgerVars
<1> QED
  BY <1>1, <1>2, <1>3, <1>4, <1>5, <1>6 DEF LedgerNext

\* An accepted cancellation is never overtaken by a result or a failure,
\* whichever thread, orphan or restart reaches the repository first.
THEOREM CancellationAlwaysWins == Spec => CancellationWins
<1>1. LoopTypeOK /\ LedgerInv /\ [Next]_vars =>
        [\A j \in JobId : rows[j].state = "cancel_requested" =>
            rows'[j].state \in {"cancel_requested", "cancelled"}]_vars
  BY StepIsLedgerStep, CancellationStep DEF LedgerInv
<1> QED
  BY <1>1, InitLoopTypeOK, NextLoopTypeOK, WorkerRefinesLedger, LedgerSound, PTL
     DEF Spec, CancellationWins

-----------------------------------------------------------------------------
(* The life of the worker: what each status says of the repository, the     *)
(* claim loops, the caller of stop() and the calls it left behind.          *)

Idle == \A p \in Stopper : stopPc[p] = "idle"
Gone == \A s \in Slot : pc[s] = "done"

LifeInv ==
  /\ status \in {"stopped", "starting"} =>
       ~repoOpen /\ ~tracked /\ Gone /\ Idle /\ orphans = {}
  /\ status = "starting" => ~stopReq
  /\ status = "healthy" =>
       repoOpen /\ ~stopReq /\ tracked /\ Idle /\ orphans = {}
       /\ \A s \in Slot : pc[s] # "done"
  /\ status = "stopping" => ~Idle
  /\ \A p \in Stopper :
       /\ stopPc[p] # "wait_owner"
       /\ stopPc[p] = "wait_tasks" => stopReq
       /\ stopPc[p] \in {"close", "finish", "unclosed"} => Gone
       /\ stopPc[p] \in {"finish", "unclosed"} => ~repoOpen /\ orphans = {}
  /\ Gone \/ (tracked /\ repoOpen)
  /\ orphans # {} => \E p \in Stopper : stopPc[p] = "close"

\* How a slot's own step looks from outside: it goes on, and ends only when a
\* stop was requested, or it breaks the worker.
GoesOn(s) ==
  /\ pc' = [pc EXCEPT ![s] = pc'[s]]
  /\ pc'[s] = "done" => stopReq
  /\ UNCHANGED <<control, status>>
BreaksWorker(s) ==
  /\ pc'[s] = "done" /\ status' = "unhealthy" /\ stopReq'
  /\ \A t \in Slot : t # s => (pc'[t] = "done" <=> pc[t] = "done")
  /\ UNCHANGED <<repoOpen, stopped, tracked, stopPc, orphans, starts>>

LEMMA LoopStepShape ==
  ASSUME LoopTypeOK, NEW s \in Slot, LoopStep(s) \/ BuildEnds(s)
  PROVE  pc[s] # "done" /\ (GoesOn(s) \/ BreaksWorker(s))
<1>1. pc \in [Slot -> SlotStep]
  BY DEF LoopTypeOK
<1>2. ASSUME NEW from, NEW to, from # "done", to = "done" => stopReq, Goes(s, from, to)
      PROVE  pc[s] # "done" /\ GoesOn(s)
  BY <1>1, <1>2 DEF Goes, GoesOn
<1>3. CASE Top(s) \/ None2(s) \/ ClaimSome(s) \/ PublishOk(s) \/ FailOk(s) \/ CancelOk(s)
  BY <1>2, <1>3 DEF Top, None2, ClaimSome, PublishOk, FailOk, CancelOk
<1>4. CASE ClaimNone(s) \/ PublishMismatch(s) \/ PublishConflict(s) \/ Reconcile(s) \/ Tail(s)
  BY <1>2, <1>4 DEF ClaimNone, PublishMismatch, PublishConflict, Reconcile, Tail, Answer
<1>5. CASE Check(s) \/ Settle(s) \/ Recheck(s)
  BY <1>2, <1>5 DEF Check, Settle, Recheck, Answer
<1>6. CASE None1(s)
  BY <1>1, <1>6 DEF None1, GoesOn
<1>7. CASE BuildEnds(s)
  BY <1>2, <1>7 DEF BuildEnds
<1>8. ASSUME NEW why, Breaks(s, why), pc[s] # "done"
      PROVE  pc[s] # "done" /\ BreaksWorker(s)
  BY <1>1, <1>8 DEF Breaks, BreaksWorker, Woken
<1>9. CASE FinishConflicts(s) \/ TailFindsNothing(s) \/ CallRaises(s)
  BY <1>8, <1>9 DEF FinishConflicts, TailFindsNothing, CallRaises, CallStep, JobStep
<1> QED
  BY <1>3, <1>4, <1>5, <1>6, <1>7, <1>9 DEF LoopStep

LEMMA InitLifeInv == Init => LifeInv
BY DEF Init, LifeInv, Idle, Gone

LEMMA NextLifeInv ==
  ASSUME OneStopper
  PROVE  LoopTypeOK /\ LifeInv /\ [Next]_vars => LifeInv'
<1> SUFFICES ASSUME LoopTypeOK, LifeInv, [Next]_vars PROVE LifeInv'
  OBVIOUS
<1> USE DEF Lifecycle, control, service, Idle, Gone
<1>0. pc \in [Slot -> SlotStep] /\ status \in WorkerStatus
      /\ stopPc \in [Stopper -> {"idle", "wait_tasks", "close", "finish", "unclosed",
                                  "wait_owner"}]
  BY DEF LoopTypeOK
<1>1. ASSUME NEW s \in Slot, LoopStep(s) \/ BuildEnds(s) PROVE LifeInv'
  <2>1. pc[s] # "done" /\ (GoesOn(s) \/ BreaksWorker(s))
    BY <1>1, LoopStepShape
  <2>2. tracked /\ repoOpen /\ status \notin {"stopped", "starting"}
        /\ \A p \in Stopper : stopPc[p] \notin {"close", "finish", "unclosed"}
    BY <2>1 DEF LifeInv
  <2>3. CASE GoesOn(s)
    BY <1>0, <2>2, <2>3 DEF GoesOn, LifeInv
  <2>4. CASE BreaksWorker(s)
    BY <1>0, <2>2, <2>4 DEF BreaksWorker, LifeInv
  <2> QED
    BY <2>1, <2>3, <2>4
<1>2. CASE StartBegin
  BY <1>2 DEF StartBegin, LifeInv
<1>3. CASE StartOpens
  BY <1>3 DEF StartOpens, LifeInv
<1>4. CASE StartFails \/ StartCancelled
  BY <1>4 DEF StartFails, StartCancelled, LifeInv
<1>5. ASSUME NEW p \in Stopper, StopOwner(p) PROVE LifeInv'
  <2>1. \A q \in Stopper : q = p
    BY DEF OneStopper
  <2>2. Idle /\ \A s \in Slot : pc'[s] = "done" <=> pc[s] = "done"
    BY <1>0, <1>5, <2>1 DEF StopOwner, Woken
  <2>3. stopPc'[p] \in {"wait_tasks", "close"} /\ (stopPc'[p] = "close" => Gone)
    BY <1>0, <1>5 DEF StopOwner, LifeInv
  <2>4. orphans = {}
    BY <2>2 DEF LifeInv
  <2> QED
    BY <1>5, <2>1, <2>2, <2>3, <2>4 DEF StopOwner, LifeInv
<1>6. ASSUME NEW p \in Stopper, StopJoins(p) PROVE FALSE
  BY <1>6 DEF StopJoins, LifeInv, OneStopper
<1>7. ASSUME NEW p \in Stopper, TasksDone(p) PROVE LifeInv'
  BY <1>0, <1>7 DEF TasksDone, LifeInv, OneStopper
<1>8. ASSUME NEW p \in Stopper, GraceExpires(p) PROVE LifeInv'
  <2>1. Gone' /\ stopPc'[p] = "close" /\ ~Idle /\ ~(Idle')
    BY <1>0, <1>8 DEF GraceExpires
  <2> QED
    BY <1>0, <1>8, <2>1 DEF GraceExpires, LifeInv, OneStopper
<1>9. ASSUME NEW p \in Stopper, StopCloses(p) \/ StopCloseFails(p) PROVE LifeInv'
  <2>1. Gone' /\ stopPc'[p] \in {"finish", "unclosed"} /\ ~repoOpen' /\ orphans' = {}
    BY <1>0, <1>9 DEF StopCloses, StopCloseFails, LifeInv
  <2>2. stopPc[p] = "close" /\ UNCHANGED <<status, stopReq, tracked>> /\ ~Idle /\ ~(Idle')
    BY <1>0, <1>9 DEF StopCloses, StopCloseFails
  <2> QED
    BY <1>0, <2>1, <2>2 DEF LifeInv, OneStopper
<1>10. ASSUME NEW p \in Stopper, StopFinishes(p) PROVE LifeInv'
  BY <1>0, <1>10 DEF StopFinishes, LifeInv, OneStopper
<1>11. ASSUME NEW o \in orphans, OrphanCall(o) PROVE LifeInv'
  BY <1>0, <1>11 DEF OrphanCall, LifeInv
<1>12. CASE Crash
  BY <1>12 DEF Crash, LifeInv
<1>13. CASE Clients
  <2>1. UNCHANGED <<repoOpen, status, stopReq, tracked, pc, stopPc, orphans>>
    BY <1>13 DEF Clients, SubmitJob, RetryJob, NewJob, CancelJob, DeleteJob, Route
  <2> QED
    BY <2>1 DEF LifeInv
<1>14. CASE CreationReturns
  <2>1. \A s \in Slot : pc'[s] = "done" <=> pc[s] = "done"
    BY <1>0, <1>14 DEF CreationReturns, Notify, CreationRaises, Woken
  <2> QED
    BY <1>14, <2>1 DEF CreationReturns, Notify, CreationRaises, LifeInv
<1>15. CASE UNCHANGED vars
  BY <1>15 DEF vars, LifeInv
<1> QED
  BY <1>1, <1>2, <1>3, <1>4, <1>5, <1>6, <1>7, <1>8, <1>9, <1>10, <1>11, <1>12, <1>13, <1>14, <1>15
     DEF Next, Start, StartEnds, StopStep

\* With one caller of stop(), a worker that says it is healthy has its
\* repository open; with two, WorkerDoubleStop.cfg shows that it may not.
THEOREM HealthyHasItsRepository ==
  ASSUME OneStopper
  PROVE  Spec => []HealthyIsOpen
<1>1. LifeInv => HealthyIsOpen
  BY DEF LifeInv, HealthyIsOpen
<1> QED
  BY <1>1, InitLoopTypeOK, NextLoopTypeOK, InitLifeInv, NextLifeInv, PTL DEF Spec

\* After stop() has returned nothing writes to the ledger, neither a claim
\* loop nor a call whose task was cancelled while it was in its thread.
THEOREM NothingWritesAfterStop ==
  ASSUME OneStopper
  PROVE  Spec => StoppedIsQuiet
<1>1. LoopTypeOK /\ LifeInv /\ [Next]_vars => [status = "stopped" => UNCHANGED ledgerVars]_vars
  <2> SUFFICES ASSUME LoopTypeOK, LifeInv, [Next]_vars, status = "stopped"
               PROVE  UNCHANGED ledgerVars
    OBVIOUS
  <2>0. Gone /\ Idle /\ orphans = {} /\ ~repoOpen
    BY DEF LifeInv
  <2>1. ASSUME NEW s \in Slot, LoopStep(s) \/ BuildEnds(s) PROVE FALSE
    BY <2>0, <2>1, LoopStepShape DEF Gone
  <2>2. CASE Start
    BY <2>2 DEF Start, StartEnds, StartBegin, StartOpens, StartFails, StartCancelled, Lifecycle
  <2>3. ASSUME NEW p \in Stopper, StopOwner(p) \/ StopJoins(p) \/ StopStep(p) PROVE FALSE
    BY <2>0, <2>3 DEF Idle, StopOwner, StopJoins, StopStep, TasksDone, GraceExpires, StopCloses,
                      StopCloseFails, StopFinishes
  <2>4. CASE Clients
    BY <2>0, <2>4 DEF Clients, SubmitJob, RetryJob, NewJob, CancelJob, DeleteJob, Route
  <2>5. CASE Crash \/ CreationReturns \/ UNCHANGED vars
    BY <2>5 DEF Crash, CreationReturns, Notify, CreationRaises, vars, ledgerVars
  <2> QED
    BY <2>0, <2>1, <2>2, <2>3, <2>4, <2>5 DEF Next
<1> QED
  BY <1>1, InitLoopTypeOK, NextLoopTypeOK, InitLifeInv, NextLifeInv, PTL
     DEF Spec, StoppedIsQuiet

-----------------------------------------------------------------------------
(* Who works for which job.  A slot that is past its claim and not yet at   *)
(* its tail owns its job; owners are distinct, own jobs that are claimed,   *)
(* and while the worker is healthy every claimed job has one.               *)

Owning == JobStep \ {"tail"}
Claimed == {"running", "cancel_requested"}

JobsInv ==
  /\ \A s, t \in Slot : pc[s] \in Owning /\ pc[t] \in Owning /\ job[s] = job[t] => s = t
  /\ \A s \in Slot : pc[s] \in Owning => rows[job[s]].state \in Claimed
  /\ status = "healthy" =>
       \A j \in JobId : rows[j].state \in Claimed =>
          \E s \in Slot : pc[s] \in Owning /\ job[s] = j

\* A slot goes on with its own job: it keeps it while it stays claimed, lets go
\* of it when it is not (or when the worker is stopping), and touches no other.
LEMMA SlotKeepsJobs ==
  ASSUME LoopTypeOK, LifeInv, JobsInv, NEW s \in Slot, NEW to,
         pc' = [pc EXCEPT ![s] = to], job' = job, status' = status,
         \A j \in JobId : j # job[s] => rows'[j] = rows[j],
         pc[s] \notin Owning => rows' = rows /\ to \notin Owning,
         to \in Owning => rows'[job[s]].state \in Claimed,
         pc[s] \in Owning /\ to \notin Owning =>
            rows'[job[s]].state \notin Claimed \/ status # "healthy"
  PROVE  JobsInv'
<1>1. /\ job \in [Slot -> JobId]
      /\ pc'[s] = to /\ \A t \in Slot : t # s => pc'[t] = pc[t]
  BY DEF LoopTypeOK
<1>2. ASSUME NEW t \in Slot, pc'[t] \in Owning
      PROVE  pc[t] \in Owning /\ rows'[job[t]].state \in Claimed
  BY <1>1, <1>2 DEF JobsInv
<1>3. ASSUME status = "healthy", NEW j \in JobId, rows'[j].state \in Claimed
      PROVE  \E t \in Slot : pc'[t] \in Owning /\ job[t] = j
  <2>1. rows[j].state \in Claimed
    BY <1>1, <1>3 DEF JobsInv
  <2>2. PICK t \in Slot : pc[t] \in Owning /\ job[t] = j
    BY <1>3, <2>1 DEF JobsInv
  <2> QED
    BY <1>1, <1>3, <2>2
<1> QED
  BY <1>2, <1>3 DEF JobsInv

\* Where nobody owns anything any more and the worker is not healthy.
LEMMA NobodyOwns ==
  ASSUME status' # "healthy", \A s \in Slot : pc'[s] \notin Owning
  PROVE  JobsInv'
BY DEF JobsInv

LEMMA LoopStepKeepsJobs ==
  ASSUME LoopTypeOK, LedgerTypeOK, LifeInv, JobsInv, NEW s \in Slot,
         LoopStep(s) \/ BuildEnds(s)
  PROVE  JobsInv'
<1> USE DEF Owning, Claimed, JobStep, CallStep, State
<1>0. /\ pc \in [Slot -> SlotStep] /\ job \in [Slot -> JobId] /\ job[s] \in JobId
      /\ (status = "healthy" => ~stopReq)
      /\ (pc[s] \in Owning => rows[job[s]].state \in Claimed)
  BY DEF LoopTypeOK, LifeInv, JobsInv
<1>1. ASSUME NEW from, NEW to, Goes(s, from, to), job' = job, rows' = rows,
             from \in Owning <=> to \in Owning
      PROVE  JobsInv'
  BY <1>0, <1>1, SlotKeepsJobs DEF Goes
<1>2. CASE Top(s) \/ None2(s)
  BY <1>1, <1>2 DEF Top, None2, Keep, ledgerVars
<1>3. CASE ClaimNone(s) \/ PublishMismatch(s) \/ PublishConflict(s) \/ Reconcile(s) \/ Tail(s)
  BY <1>1, <1>3
     DEF ClaimNone, PublishMismatch, PublishConflict, Reconcile, Tail, Answer, Keep, ledgerVars
<1>4. CASE None1(s)
  <2>1. JobsInv' <=> JobsInv
    BY <1>0, <1>4 DEF None1, Keep, ledgerVars, control, JobsInv
  <2> QED
    BY <2>1
<1>5. CASE ClaimSome(s)
  <2>1. PICK j \in JobId : Claim(j) /\ job' = [job EXCEPT ![s] = j]
    BY <1>5 DEF ClaimSome
  <2>2. /\ pc[s] \notin Owning /\ pc' = [pc EXCEPT ![s] = "check"] /\ status' = status
    BY <1>5 DEF ClaimSome, Goes
  <2>3. /\ rows[j].state = "queued" /\ rows'[j].state = "running"
        /\ \A k \in JobId : k # j => rows'[k] = rows[k]
    BY <2>1, MovedRow DEF Claim, IsOldestQueued, LedgerTypeOK, JobState, DiagnosticCode
  <2>4. \A t \in Slot : pc[t] \in Owning => job[t] # j
    BY <2>3 DEF JobsInv
  <2>5. /\ pc'[s] \in Owning /\ job'[s] = j
        /\ \A t \in Slot : t # s => pc'[t] = pc[t] /\ job'[t] = job[t] /\ job[t] \in JobId
    BY <1>0, <2>1, <2>2
  <2>6. \A k \in JobId : status = "healthy" /\ rows'[k].state \in Claimed =>
          \E t \in Slot : pc'[t] \in Owning /\ job'[t] = k
    <3> SUFFICES ASSUME NEW k \in JobId, k # j, status = "healthy", rows'[k].state \in Claimed
                 PROVE  \E t \in Slot : pc'[t] \in Owning /\ job'[t] = k
      BY <2>5
    <3>1. PICK t \in Slot : pc[t] \in Owning /\ job[t] = k
      BY <2>3 DEF JobsInv
    <3> QED
      BY <2>2, <2>5, <3>1
  <2> QED
    BY <2>2, <2>3, <2>4, <2>5, <2>6 DEF JobsInv
<1>6. ASSUME NEW from, NEW to, Goes(s, from, to), job' = job, rows' = rows, from \in Owning,
             to \notin Owning => stopReq
      PROVE  JobsInv'
  BY <1>0, <1>6, SlotKeepsJobs DEF Goes
<1>7. CASE Check(s)
  BY <1>0, <1>6, <1>7 DEF Check, Answer, Goes, Keep, ledgerVars
<1>8. CASE Recheck(s)
  <2> DEFINE to == CASE State(s) = "cancel_requested" -> "cancel"
                     [] State(s) = "running" -> "publish"
                     [] OTHER -> "top"
  <2>1. Goes(s, "recheck", to) /\ job' = job /\ rows' = rows
    BY <1>8 DEF Recheck, Answer, Keep, ledgerVars
  <2>2. to \in Owning
    BY <1>0, <2>1 DEF Goes
  <2> QED
    BY <1>6, <2>1, <2>2
<1>9. CASE Settle(s)
  <2>1. CASE stopReq /\ Goes(s, "settle", "top") /\ Keep(s) /\ UNCHANGED ledgerVars
    BY <1>6, <2>1 DEF Keep, ledgerVars
  <2>2. CASE ~stopReq /\ Answer(s, "settle", CASE State(s) = "cancel_requested" -> "cancel"
                                               [] State(s) = "running" -> "fail"
                                               [] OTHER -> "top")
    <3> DEFINE to == CASE State(s) = "cancel_requested" -> "cancel"
                       [] State(s) = "running" -> "fail"
                       [] OTHER -> "top"
    <3>1. Goes(s, "settle", to) /\ job' = job /\ rows' = rows
      BY <2>2 DEF Answer, Keep, ledgerVars
    <3>2. to \in Owning
      BY <1>0, <3>1 DEF Goes
    <3> QED
      BY <1>6, <3>1, <3>2
  <2> QED
    BY <1>9, <2>1, <2>2 DEF Settle
<1>10. ASSUME NEW from \in Owning, Goes(s, from, "tail"), job' = job,
              NEW st \in JobState \ Claimed, NEW c \in DiagnosticCode,
              rows' = Moved(rows, job[s], st, c)
       PROVE  JobsInv'
  <2>1. /\ rows'[job[s]].state = st
        /\ \A j \in JobId : j # job[s] => rows'[j] = rows[j]
    BY <1>0, <1>10, MovedRow DEF LedgerTypeOK
  <2> QED
    BY <1>0, <1>10, <2>1, SlotKeepsJobs DEF Goes
<1>11. CASE PublishOk(s) \/ FailOk(s) \/ CancelOk(s)
  BY <1>10, <1>11 DEF PublishOk, FailOk, CancelOk, Publish, FinishFailed, FinishCancelled, Keep,
                      TargetState, JobState, DiagnosticCode
<1>12. CASE BuildEnds(s)
  BY <1>6, <1>12 DEF BuildEnds, ledgerVars
<1>13. ASSUME NEW why, Breaks(s, why) PROVE JobsInv'
  <2>1. \A t \in Slot : pc'[t] \in Owning => pc[t] \in Owning /\ pc'[t] = pc[t]
    BY <1>0, <1>13 DEF Breaks, Woken
  <2> QED
    BY <1>13, <2>1 DEF Breaks, Keep, ledgerVars, JobsInv
<1>14. CASE FinishConflicts(s) \/ TailFindsNothing(s) \/ CallRaises(s)
  BY <1>13, <1>14 DEF FinishConflicts, TailFindsNothing, CallRaises
<1> QED
  BY <1>2, <1>3, <1>4, <1>5, <1>7, <1>8, <1>9, <1>11, <1>12, <1>14 DEF LoopStep

LEMMA NextJobsInv ==
  ASSUME OneStopper
  PROVE  LoopTypeOK /\ LedgerTypeOK /\ LifeInv /\ JobsInv /\ [Next]_vars => JobsInv'
<1> SUFFICES ASSUME LoopTypeOK, LedgerTypeOK, LifeInv, JobsInv, [Next]_vars PROVE JobsInv'
  OBVIOUS
<1> USE DEF Lifecycle, control, service, Owning, JobStep, Claimed
<1>0. pc \in [Slot -> SlotStep] /\ job \in [Slot -> JobId]
  BY DEF LoopTypeOK
<1>1. ASSUME NEW s \in Slot, LoopStep(s) \/ BuildEnds(s) PROVE JobsInv'
  BY <1>1, LoopStepKeepsJobs
\* A route's step: claimed rows stay claimed and no other becomes it.
<1>2. ASSUME UNCHANGED <<pc, job, status>>,
             \A j \in JobId : rows'[j].state \in Claimed <=> rows[j].state \in Claimed
      PROVE  JobsInv'
  <2>1. \A s \in Slot : job[s] \in JobId
    BY <1>0
  <2> QED
    BY <1>2, <2>1 DEF JobsInv
\* The event loop's callbacks move no slot that owns a job.
<1>3. ASSUME UNCHANGED <<rows, job>>, pc' = pc \/ pc' = Woken(pc),
             status' = status \/ status' # "healthy"
      PROVE  JobsInv'
  <2>1. \A s \in Slot : /\ pc'[s] \in Owning <=> pc[s] \in Owning
    BY <1>0, <1>3 DEF Woken
  <2> QED
    BY <1>3, <2>1 DEF JobsInv
<1>4. CASE StartBegin \/ StartFails
  BY <1>3, <1>4 DEF StartBegin, StartFails, ledgerVars
<1>16. CASE StartCancelled
  <2>1. \A j \in JobId : rows'[j].state \in Claimed => rows[j].state \in Claimed
    BY <1>16 DEF StartCancelled, Interrupt, Interrupted, LedgerTypeOK, Row, ledgerVars
  <2>2. Gone /\ pc' = pc /\ status' # "healthy"
    BY <1>16 DEF StartCancelled, LifeInv
  <2> QED
    BY <2>1, <2>2 DEF Gone, JobsInv
<1>5. CASE StartOpens
  <2>1. \A j \in JobId : rows'[j].state \notin Claimed
    BY <1>5 DEF StartOpens, Interrupt, Interrupted, LedgerTypeOK, Row
  <2>2. \A s \in Slot : pc'[s] \notin Owning
    BY <1>5 DEF StartOpens
  <2> QED
    BY <2>1, <2>2 DEF JobsInv
<1>6. ASSUME NEW p \in Stopper, StopOwner(p) PROVE JobsInv'
  BY <1>3, <1>6 DEF StopOwner, ledgerVars
<1>7. ASSUME NEW p \in Stopper,
             StopJoins(p) \/ TasksDone(p) \/ StopCloses(p) \/ StopCloseFails(p) \/ StopFinishes(p)
      PROVE  JobsInv'
  BY <1>3, <1>7 DEF StopJoins, TasksDone, StopCloses, StopCloseFails, StopFinishes, ledgerVars
<1>8. ASSUME NEW p \in Stopper, GraceExpires(p) PROVE JobsInv'
  BY <1>0, <1>8, NobodyOwns DEF GraceExpires, LifeInv, Idle
<1>9. ASSUME NEW o \in orphans, OrphanCall(o) PROVE JobsInv'
  BY <1>9, NobodyOwns DEF OrphanCall, LifeInv, Gone, Idle
<1>10. CASE SubmitJob \/ RetryJob
  <2>1. /\ UNCHANGED <<pc, job, status>>
        /\ nextId \in JobId /\ IsNew(nextId)
        /\ \E r : r.state = "queued" /\ rows' = [rows EXCEPT ![nextId] = r]
    BY <1>10 DEF SubmitJob, RetryJob, NewJob, Route, Create, Retry, InitialRow
  <2>2. rows[nextId].state = "none"
    BY <2>1 DEF IsNew, Present, JobId
  <2> QED
    BY <1>2, <2>1, <2>2 DEF LedgerTypeOK
<1>11. CASE CancelJob
  <2>1. PICK j \in JobId : Cancel(j)
    BY <1>11 DEF CancelJob
  <2>2. /\ rows'[j].state = CancelTarget(rows[j].state)
        /\ \A k \in JobId : k # j => rows'[k] = rows[k]
    BY <2>1, MovedRow
       DEF Cancel, LedgerTypeOK, CancelTarget, CancelCode, JobState, DiagnosticCode
  <2>3. rows'[j].state \in Claimed <=> rows[j].state \in Claimed
    BY <2>1, <2>2 DEF Cancel, CancelTarget
  <2> QED
    BY <1>2, <1>11, <2>2, <2>3 DEF CancelJob, Route
<1>12. CASE DeleteJob
  <2>1. PICK j \in JobId : Delete(j)
    BY <1>12 DEF DeleteJob
  <2> QED
    BY <1>2, <1>12, <2>1 DEF DeleteJob, Route, Delete, LedgerTypeOK, TerminalStates, NoRow
<1>13. CASE Crash
  BY <1>13, NobodyOwns DEF Crash
<1>14. CASE CreationReturns
  BY <1>3, <1>14 DEF CreationReturns, Notify, CreationRaises, ledgerVars
<1>15. CASE UNCHANGED vars
  BY <1>3, <1>15 DEF vars
<1> QED
  BY <1>1, <1>4, <1>5, <1>6, <1>7, <1>8, <1>9, <1>10, <1>11, <1>12, <1>13, <1>14, <1>15, <1>16
     DEF Next, Start, StartEnds, StopStep, Clients

\* No two slots ever work for one job, a slot works only for a job that is
\* still claimed, and while the worker is healthy every claimed job is some
\* slot's business, so that it will end.
THEOREM EveryActiveJobHasOneOwner ==
  ASSUME OneStopper
  PROVE  Spec => []ActiveJobsOwned
<1>1. Init => JobsInv
  BY DEF Init, JobsInv, Owning, JobStep
<1>2. JobsInv => ActiveJobsOwned
  <2> SUFFICES ASSUME JobsInv, NEW j \in JobId
               PROVE  LET claimed == rows[j].state \in {"running", "cancel_requested"} IN
                      /\ Cardinality(Owner(j)) <= 1
                      /\ status = "healthy" /\ claimed => Owner(j) # {}
                      /\ repoOpen /\ Owner(j) # {} => claimed
    BY DEF ActiveJobsOwned
  <2>1. Cardinality(Owner(j)) <= 1
    <3>1. CASE Owner(j) = {}
      BY <3>1, FS_EmptySet
    <3>2. CASE Owner(j) # {}
      <4>1. PICK s \in Slot : Owner(j) = {s}
        BY <3>2 DEF Owner, JobsInv, Owning
      <4>2. Cardinality(Owner(j)) = 1
        BY <4>1, FS_Singleton
      <4> QED
        BY <4>2
    <3> QED
      BY <3>1, <3>2
  <2> QED
    BY <2>1 DEF JobsInv, Owner, Owning, Claimed
<1>3. LedgerInv => LedgerTypeOK
  BY DEF LedgerInv
<1> QED
  BY <1>1, <1>2, <1>3, InitLoopTypeOK, NextLoopTypeOK, WorkerRefinesLedger, LedgerSound,
     InitLifeInv, NextLifeInv, NextJobsInv, PTL DEF Spec

-----------------------------------------------------------------------------
(* Waking up.  The queue grows only by a route that has yet to answer, and *)
(* a job leaves the routes by a wake() or into silent.                      *)

LEMMA QueueGrowsByRoutes ==
  ASSUME LedgerTypeOK, NEW j \in JobId, rows'[j].state = "queued",
         \/ \E k \in JobId : \/ Claim(k) \/ Cancel(k) \/ FinishFailed(k) \/ FinishCancelled(k)
                            \/ Delete(k) \/ \E v \in Verdict : Publish(k, v)
         \/ Interrupt \/ UNCHANGED ledgerVars
  PROVE  rows[j].state = "queued"
<1> USE DEF JobState, DiagnosticCode
<1>1. ASSUME NEW k \in JobId, NEW st \in JobState \ {"queued"}, NEW c \in DiagnosticCode,
             rows' = Moved(rows, k, st, c)
      PROVE  rows[j].state = "queued"
  <2>1. rows'[k].state = st
    <3>1. rows \in [JobId -> Row] /\ st \in JobState
      BY DEF LedgerTypeOK
    <3>2. Moved(rows, k, st, c)[k].state = st
      BY <3>1, MovedRow
    <3> QED
      BY <1>1, <3>2
  <2>2. k # j => rows'[j] = rows[j]
    BY <1>1, MoveElsewhere
  <2> QED
    BY <1>1, <2>1, <2>2
<1>2. ASSUME NEW k \in JobId,
             \/ Claim(k) \/ Cancel(k) \/ FinishFailed(k) \/ FinishCancelled(k)
             \/ \E v \in Verdict : Publish(k, v)
      PROVE  rows[j].state = "queued"
  BY <1>1, <1>2 DEF Claim, Cancel, FinishFailed, FinishCancelled, Publish, TargetState,
                    CancelTarget, CancelCode
<1>3. ASSUME NEW k \in JobId, Delete(k) PROVE rows[j].state = "queued"
  BY <1>3 DEF Delete, NoRow, LedgerTypeOK
<1>4. CASE Interrupt
  BY <1>4 DEF Interrupt, Interrupted, LedgerTypeOK, Row
<1> QED
  BY <1>2, <1>3, <1>4 DEF ledgerVars

Awake(s) == pc[s] \notin {"none2", "sleep", "done"}
Queued == InState(rows, {"queued"})

\* What a step must do to leave no wakeup behind.
LEMMA WakeupKept ==
  ASSUME NoLostWakeup, Announced' \subseteq Announced, status = status',
         wake \/ (\E s \in Slot : Awake(s)) => wake' \/ \E s \in Slot : Awake(s)'
  PROVE  NoLostWakeup'
BY DEF NoLostWakeup, Awake

LEMMA LoopStepKeepsWakeup ==
  ASSUME LoopTypeOK, LedgerTypeOK, LifeInv, NoLostWakeup, NEW s \in Slot,
         LoopStep(s) \/ BuildEnds(s)
  PROVE  NoLostWakeup'
<1> USE DEF Awake, Keep
<1>0. pc \in [Slot -> SlotStep] /\ (status = "healthy" => ~stopReq)
  BY DEF LoopTypeOK, LifeInv
<1>1. ASSUME UNCHANGED <<ledgerVars, toWake, silent>> PROVE Announced' = Announced
  BY <1>1 DEF ledgerVars, Announced, InState
\* A slot that goes on and is awake afterwards settles the matter.
<1>2. ASSUME NEW from, NEW to, Goes(s, from, to), to \notin {"none2", "sleep", "done"}
      PROVE  NoLostWakeup'
  BY <1>0, <1>2 DEF NoLostWakeup, Goes
<1>3. CASE \/ ClaimSome(s) \/ PublishOk(s) \/ PublishMismatch(s) \/ PublishConflict(s)
           \/ Reconcile(s) \/ FailOk(s) \/ CancelOk(s) \/ Tail(s) \/ Check(s) \/ BuildEnds(s)
  BY <1>2, <1>3 DEF ClaimSome, PublishOk, PublishMismatch, PublishConflict, Reconcile, FailOk,
                    CancelOk, Tail, Check, BuildEnds, Answer
<1>4. CASE Recheck(s)
  <2>1. (CASE State(s) = "cancel_requested" -> "cancel"
           [] State(s) = "running" -> "publish"
           [] OTHER -> "top") \notin {"none2", "sleep", "done"}
    OBVIOUS
  <2> QED
    BY <1>2, <1>4, <2>1 DEF Recheck, Answer
<1>5. CASE Settle(s)
  <2>1. (CASE State(s) = "cancel_requested" -> "cancel"
           [] State(s) = "running" -> "fail"
           [] OTHER -> "top") \notin {"none2", "sleep", "done"}
    OBVIOUS
  <2> QED
    BY <1>2, <1>5, <2>1 DEF Settle, Answer
<1>6. CASE Top(s)
  BY <1>0, <1>6 DEF Top, Goes, control, NoLostWakeup
<1>7. CASE ClaimNone(s)
  BY <1>7 DEF ClaimNone, Answer, ledgerVars, NoLostWakeup, Announced, InState
<1>8. CASE None1(s)
  BY <1>0, <1>8 DEF None1, control, NoLostWakeup
<1>9. CASE None2(s)
  <2>1. pc[s] = "none2" /\ pc' = [pc EXCEPT ![s] = IF wake THEN "top" ELSE "sleep"]
        /\ UNCHANGED <<wake, toWake, silent, status>>
    BY <1>9 DEF None2, Goes, service
  <2>2. \A t \in Slot : Awake(t) => Awake(t)'
    BY <1>0, <2>1
  <2> QED
    BY <1>1, <1>9, <2>1, <2>2, WakeupKept DEF None2
<1>10. CASE FinishConflicts(s) \/ TailFindsNothing(s) \/ CallRaises(s)
  BY <1>10 DEF FinishConflicts, TailFindsNothing, CallRaises, Breaks, NoLostWakeup
<1> QED
  BY <1>3, <1>4, <1>5, <1>6, <1>7, <1>8, <1>9, <1>10 DEF LoopStep

LEMMA NextNoLostWakeup ==
  ASSUME OneStopper
  PROVE  LoopTypeOK /\ LedgerTypeOK /\ LifeInv /\ NoLostWakeup /\ [Next]_vars => NoLostWakeup'
<1> SUFFICES ASSUME LoopTypeOK, LedgerTypeOK, LifeInv, NoLostWakeup, [Next]_vars
             PROVE  NoLostWakeup'
  OBVIOUS
<1> USE DEF Lifecycle, control, service
<1>1. ASSUME NEW s \in Slot, LoopStep(s) \/ BuildEnds(s) PROVE NoLostWakeup'
  BY <1>1, LoopStepKeepsWakeup
\* Steps that move neither a slot nor the event and let nothing into the queue.
<1>2. ASSUME Announced' \subseteq Announced, UNCHANGED <<status, wake, pc>>
      PROVE  NoLostWakeup'
  BY <1>2, WakeupKept DEF Awake
<1>3. ASSUME UNCHANGED <<ledgerVars, toWake, silent>> PROVE Announced' \subseteq Announced
  BY <1>3 DEF ledgerVars, Announced, InState
<1>4. ASSUME status' # "healthy" PROVE NoLostWakeup'
  BY <1>4 DEF NoLostWakeup
<1>5. ASSUME wake' PROVE NoLostWakeup'
  BY <1>5 DEF NoLostWakeup
<1>6. CASE StartBegin \/ StartFails \/ StartCancelled \/ Crash
  BY <1>4, <1>6 DEF StartBegin, StartFails, StartCancelled, Crash
<1>7. CASE StartOpens
  BY <1>5, <1>7 DEF StartOpens
<1>8. ASSUME NEW p \in Stopper, StopOwner(p) \/ StopFinishes(p) PROVE NoLostWakeup'
  BY <1>4, <1>8 DEF StopOwner, StopFinishes
<1>9. ASSUME NEW p \in Stopper,
             StopJoins(p) \/ TasksDone(p) \/ StopCloses(p) \/ StopCloseFails(p)
      PROVE  NoLostWakeup'
  BY <1>2, <1>3, <1>9 DEF StopJoins, TasksDone, StopCloses, StopCloseFails
<1>10. ASSUME NEW p \in Stopper, GraceExpires(p) PROVE NoLostWakeup'
  BY <1>4, <1>10 DEF GraceExpires, LifeInv, Idle
<1>11. ASSUME NEW o \in orphans, OrphanCall(o) PROVE NoLostWakeup'
  BY <1>4, <1>11 DEF OrphanCall, LifeInv, Idle
<1>12. CASE SubmitJob \/ RetryJob
  <2>1. /\ nextId \in JobId /\ toWake' = toWake \cup {nextId} /\ silent' = silent
        /\ \A j \in JobId : j # nextId => rows'[j] = rows[j]
    BY <1>12 DEF SubmitJob, RetryJob, NewJob, Create, Retry, LedgerTypeOK
  <2>2. Announced' \subseteq Announced
    BY <2>1 DEF Announced, InState
  <2> QED
    BY <1>2, <1>12, <2>2 DEF SubmitJob, RetryJob, NewJob, Route
<1>13. CASE CancelJob \/ DeleteJob
  <2>1. Queued' \subseteq Queued
    BY <1>13, QueueGrowsByRoutes DEF CancelJob, DeleteJob, Queued, InState
  <2>2. Announced' \subseteq Announced
    BY <1>13, <2>1 DEF CancelJob, DeleteJob, Announced, Queued
  <2> QED
    BY <1>2, <1>13, <2>2 DEF CancelJob, DeleteJob, Route
<1>14. CASE Notify
  <2>1. CASE status = "healthy"
    BY <1>5, <1>14, <2>1 DEF Notify
  <2>2. CASE status # "healthy"
    BY <1>4, <1>14, <2>2 DEF Notify
  <2> QED
    BY <2>1, <2>2
<1>16. CASE CreationRaises
  <2>1. PICK j \in toWake : /\ toWake' = toWake \ {j}
                            /\ silent' = silent \cup ({j} \cap InState(rows, {"queued"}))
    BY <1>16 DEF CreationRaises
  <2>2. Announced' \subseteq Announced
    BY <1>16, <2>1 DEF CreationRaises, Announced, InState, ledgerVars
  <2> QED
    BY <1>2, <1>16, <2>2 DEF CreationRaises
<1>15. CASE UNCHANGED vars
  BY <1>2, <1>3, <1>15 DEF vars, ledgerVars
<1> QED
  BY <1>1, <1>6, <1>7, <1>8, <1>9, <1>10, <1>11, <1>12, <1>13, <1>14, <1>15, <1>16
     DEF Next, Start, StartEnds, StopStep, Clients, CreationReturns

\* The clear/submit race is closed for any number of loops, jobs and creations
\* that raise: with a job queued whose creation was answered, or that was there
\* at the start or at any later wake(), some loop is awake or will find the
\* event set.
THEOREM NoWakeupIsLost ==
  ASSUME OneStopper
  PROVE  Spec => []NoLostWakeup
<1>1. Init => NoLostWakeup
  BY DEF Init, NoLostWakeup
<1>2. LedgerInv => LedgerTypeOK
  BY DEF LedgerInv
<1> QED
  BY <1>1, <1>2, InitLoopTypeOK, NextLoopTypeOK, WorkerRefinesLedger, LedgerSound,
     InitLifeInv, NextLifeInv, NextNoLostWakeup, PTL DEF Spec
=============================================================================
