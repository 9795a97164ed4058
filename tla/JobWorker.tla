------------------------------ MODULE JobWorker ------------------------------
(***************************************************************************)
(* BuildJobWorker (service/jobs/worker.py) with the HTTP routes of         *)
(* service/app.py that share its repository, over the abstract JobLedger.  *)
(*                                                                         *)
(* The worker is one asyncio event loop.  A slot is a claim loop: every    *)
(* repository call it awaits runs in a thread and is one atomic step of    *)
(* the ledger, and anything else may happen before the next one.  pc[s]    *)
(* names what slot s does next; the code after an await that only looks at *)
(* the call's answer and at _stop_requested is part of the same step,      *)
(* except around the wake event, where the order is the whole point.       *)
(***************************************************************************)
EXTENDS JobLedger, FiniteSets

CONSTANTS Slot,        \* the claim loops: max_active of them
          Stopper,     \* callers of stop()
          MaxStarts,   \* bound: how often the worker is started
          MaxFaults    \* bound: how many repository calls raise for storage

ASSUME WorkerAssumption ==
  /\ IsFiniteSet(Slot) /\ Slot # {}
  /\ MaxStarts \in Nat /\ MaxFaults \in Nat

VARIABLES
  repoOpen,   \* the repository is open and owned
  status, stopReq, wake, stopped,   \* _status, the two events, _stop_requested
  tracked,    \* _tasks is not empty
  pc, job, outcome,   \* per slot: next step, claimed job, what the build gave
  stopPc,     \* per stopper
  orphans,    \* calls still in their thread after their task was cancelled
  toWake,     \* jobs created by a route that has not yet called wake()
  silent,     \* queued jobs whose creation raised after its commit, and no wake() since
  nextId, starts, faults,
  cause       \* history: what made the worker unhealthy

control == <<repoOpen, stopReq, stopped, tracked, stopPc, orphans, starts>>
service == <<toWake, silent, nextId>>
vars == <<rows, results, repoOpen, status, stopReq, wake, stopped, tracked, pc,
          job, outcome, stopPc, orphans, toWake, silent, nextId, starts, faults, cause>>

Outcome == Verdict \cup {"mismatch", "error"}

\* Steps that hold a claimed job, and those that wait for a repository call.
JobStep == {"check", "build", "recheck", "publish", "reconcile", "settle",
            "fail", "cancel", "tail"}
CallStep == {"claim1", "claim2"} \cup (JobStep \ {"build"})
MutatingCall == {"claim1", "claim2", "publish", "fail", "cancel"}
SlotStep == {"top", "none1", "none2", "sleep", "done"} \cup CallStep \cup JobStep

WorkerStatus == {"stopped", "starting", "healthy", "stopping", "unhealthy"}

TypeOK ==
  /\ LedgerTypeOK
  /\ repoOpen \in BOOLEAN /\ stopReq \in BOOLEAN /\ wake \in BOOLEAN
  /\ stopped \in BOOLEAN /\ tracked \in BOOLEAN
  /\ status \in WorkerStatus
  /\ pc \in [Slot -> SlotStep]
  /\ job \in [Slot -> JobId]
  /\ outcome \in [Slot -> Outcome]
  /\ stopPc \in [Stopper -> {"idle", "wait_tasks", "close", "finish", "unclosed",
                              "wait_owner"}]
  /\ orphans \subseteq [step : MutatingCall, job : JobId, outcome : Outcome]
  /\ toWake \subseteq JobId /\ silent \subseteq JobId
  /\ nextId \in 1 .. MaxJobs + 1
  /\ starts \in 0 .. MaxStarts /\ faults \in 0 .. MaxFaults
  /\ cause \in {"none", "storage", "closed", "conflict", "not_found"}

Init ==
  /\ LedgerInit
  /\ repoOpen = FALSE /\ status = "stopped" /\ stopReq = FALSE
  /\ wake = FALSE /\ stopped = TRUE /\ tracked = FALSE
  /\ pc = [s \in Slot |-> "done"]
  /\ job = [s \in Slot |-> 1]
  /\ outcome = [s \in Slot |-> "error"]
  /\ stopPc = [p \in Stopper |-> "idle"]
  /\ orphans = {} /\ toWake = {} /\ silent = {} /\ nextId = 1
  /\ starts = 0 /\ faults = 0 /\ cause = "none"

\* asyncio.Event.set() resolves the waiters there are; a waiter that comes
\* later sees the flag, unless somebody has cleared it by then.
Woken(steps) == [s \in Slot |-> IF steps[s] = "sleep" THEN "top" ELSE steps[s]]

\* A step of slot s that does not touch the worker's own state.
Goes(s, from, to) ==
  /\ pc[s] = from /\ pc' = [pc EXCEPT ![s] = to]
  /\ UNCHANGED <<control, service, status, wake, faults, cause>>
\* The slot keeps its job; what a build gave is forgotten with _run_job's frame.
Keep(s) ==
  /\ UNCHANGED job
  /\ outcome' = IF pc'[s] \in {"recheck", "publish"} THEN outcome
                                                     ELSE [outcome EXCEPT ![s] = "error"]
Answer(s, from, to) ==      \* a repository call that only reads
  repoOpen /\ Goes(s, from, to) /\ Keep(s) /\ UNCHANGED ledgerVars

-----------------------------------------------------------------------------
(* _claim_loop                                                             *)

Top(s) ==
  /\ Goes(s, "top", IF stopReq THEN "done" ELSE "claim1")
  /\ Keep(s) /\ UNCHANGED ledgerVars

ClaimSome(s) ==
  /\ repoOpen
  /\ \E from \in {"claim1", "claim2"} : Goes(s, from, "check")
  /\ \E j \in JobId : Claim(j) /\ job' = [job EXCEPT ![s] = j]
  /\ UNCHANGED outcome

ClaimNone(s) ==
  /\ InState(rows, {"queued"}) = {}
  /\ Answer(s, "claim1", "none1") \/ Answer(s, "claim2", "none2")

\* Mutant: clears the event and sleeps without looking for a job again.
None1Sleeps(s) ==
  /\ pc[s] = "none1"
  /\ pc' = [pc EXCEPT ![s] = IF stopReq THEN "done" ELSE "none2"]
  /\ wake' = FALSE
  /\ Keep(s) /\ UNCHANGED <<ledgerVars, control, service, status, faults, cause>>

None1(s) ==                 \* the event is cleared before the second claim
  /\ pc[s] = "none1"
  /\ pc' = [pc EXCEPT ![s] = IF stopReq THEN "done" ELSE "claim2"]
  /\ wake' = FALSE
  /\ Keep(s) /\ UNCHANGED <<ledgerVars, control, service, status, faults, cause>>

None2(s) ==                 \* await self._wake_event.wait()
  /\ Goes(s, "none2", IF wake THEN "top" ELSE "sleep")
  /\ Keep(s) /\ UNCHANGED ledgerVars

-----------------------------------------------------------------------------
(* _run_job and _finish_after_build_failure                                *)

State(s) == rows[job[s]].state

Check(s) ==                 \* read_inputs, get
  Answer(s, "check",
         IF State(s) = "cancel_requested" THEN "cancel"
         ELSE IF State(s) = "running" /\ ~stopReq THEN "build" ELSE "top")

BuildEnds(s) ==             \* shield(build_task) returns or raises
  /\ \E o \in Outcome :
        /\ outcome' = [outcome EXCEPT ![s] = o]
        /\ Goes(s, "build", IF stopReq THEN "top"
                            ELSE IF o = "error" THEN "settle" ELSE "recheck")
  /\ UNCHANGED <<job, ledgerVars>>

Recheck(s) ==
  Answer(s, "recheck",
         CASE State(s) = "cancel_requested" -> "cancel"
           [] State(s) = "running" -> "publish"
           [] OTHER -> "top")

\* Mutant: publishes without looking at the state again.
PublishOkBlind(s) ==
  /\ repoOpen /\ outcome[s] \in Verdict
  /\ rows[job[s]].state \in {"running", "cancel_requested"}
  /\ rows' = Moved(rows, job[s], TargetState(outcome[s]), "none")
  /\ results' = [results EXCEPT ![job[s]] = outcome[s]]
  /\ Goes(s, "publish", "tail") /\ Keep(s)

PublishOk(s) ==
  /\ repoOpen /\ outcome[s] \in Verdict
  /\ Publish(job[s], outcome[s])
  /\ Goes(s, "publish", "tail") /\ Keep(s)

PublishMismatch(s) ==       \* JobValidationError
  State(s) = "running" /\ outcome[s] = "mismatch" /\ Answer(s, "publish", "settle")

PublishConflict(s) ==       \* JobConflictError
  State(s) \in JobState \ {"running"} /\ Answer(s, "publish", "reconcile")

\* A job that has a result by then would need a second owner (ActiveJobsOwned).
Reconcile(s) == State(s) = "cancel_requested" /\ Answer(s, "reconcile", "cancel")

Settle(s) ==
  \/ stopReq /\ Goes(s, "settle", "top") /\ Keep(s) /\ UNCHANGED ledgerVars
  \/ ~stopReq /\ Answer(s, "settle", CASE State(s) = "cancel_requested" -> "cancel"
                                       [] State(s) = "running" -> "fail"
                                       [] OTHER -> "top")

FailOk(s) ==
  repoOpen /\ FinishFailed(job[s]) /\ Goes(s, "fail", "tail") /\ Keep(s)

CancelOk(s) ==
  repoOpen /\ FinishCancelled(job[s]) /\ Goes(s, "cancel", "tail") /\ Keep(s)

\* publish_result and _finish end with self.get(), after the mutex is free.
Tail(s) == State(s) # "none" /\ Answer(s, "tail", "top")

\* An exception that leaves _run_job ends the loop: _mark_unhealthy.
Breaks(s, why) ==
  /\ pc' = [Woken(pc) EXCEPT ![s] = "done"]
  /\ status' = "unhealthy" /\ stopReq' = TRUE /\ wake' = TRUE /\ cause' = why
  /\ Keep(s)
  /\ UNCHANGED <<ledgerVars, repoOpen, stopped, tracked, stopPc, orphans, starts, service>>

FinishConflicts(s) ==       \* the transition is not legal any more
  /\ repoOpen
  /\ \/ pc[s] = "fail" /\ ~CanMove(rows, job[s], "failed")
     \/ pc[s] = "cancel" /\ ~CanMove(rows, job[s], "cancelled")
     \/ pc[s] = "reconcile" /\ State(s) \notin ResultStates \cup {"cancel_requested"}
  /\ Breaks(s, "conflict") /\ UNCHANGED faults

TailFindsNothing(s) ==      \* the job was deleted meanwhile
  /\ repoOpen /\ pc[s] = "tail" /\ State(s) = "none"
  /\ Breaks(s, "not_found") /\ UNCHANGED faults

CallRaises(s) ==
  /\ pc[s] \in CallStep
  /\ \/ ~repoOpen /\ Breaks(s, "closed") /\ UNCHANGED faults
     \/ /\ repoOpen /\ faults < MaxFaults /\ faults' = faults + 1
        /\ Breaks(s, "storage")

-----------------------------------------------------------------------------
(* start()                                                                 *)

Lifecycle == <<ledgerVars, job, outcome, orphans, service, faults>>

\* Bound: the slots of one start are gone before the next.
StartBegin ==
  /\ status = "stopped" /\ starts < MaxStarts
  /\ \A s \in Slot : pc[s] = "done"
  /\ status' = "starting" /\ starts' = starts + 1
  /\ stopReq' = FALSE /\ wake' = FALSE /\ cause' = "none"
  /\ UNCHANGED <<Lifecycle, repoOpen, stopped, tracked, pc, stopPc>>

StartOpens ==               \* open() recovers, then the slots are created
  /\ status = "starting" /\ status' = "healthy"
  /\ repoOpen' = TRUE /\ Interrupt
  /\ stopped' = FALSE /\ wake' = TRUE /\ tracked' = TRUE
  /\ pc' = [s \in Slot |-> "top"] /\ silent' = {}
  /\ UNCHANGED <<job, outcome, orphans, toWake, nextId, faults, stopReq, stopPc, starts, cause>>

StartFails ==               \* open() raised
  /\ status = "starting" /\ status' = "unhealthy"
  /\ faults < MaxFaults /\ faults' = faults + 1 /\ cause' = "storage"
  /\ UNCHANGED <<ledgerVars, job, outcome, control, service, wake, pc>>

\* start() is cancelled: it waits for open(), which may have recovered the store
\* or raised, closes it again, and no route was let in meanwhile.
StartCancelled ==
  /\ status = "starting" /\ status' = "stopped"
  /\ Interrupt \/ UNCHANGED ledgerVars
  /\ UNCHANGED <<job, outcome, control, service, faults, wake, pc, cause>>

-----------------------------------------------------------------------------
(* stop()                                                                  *)

StopOwner(p) ==             \* the caller that will close the repository
  /\ stopPc[p] = "idle" /\ status \in {"healthy", "unhealthy"}
  /\ status' = "stopping" /\ stopReq' = TRUE /\ wake' = TRUE
  /\ pc' = Woken(pc)
  /\ stopPc' = [stopPc EXCEPT ![p] = IF tracked THEN "wait_tasks" ELSE "close"]
  /\ UNCHANGED <<Lifecycle, repoOpen, stopped, tracked, starts, cause>>

StopJoins(p) ==             \* a second caller waits for _stopped_event
  /\ stopPc[p] = "idle" /\ status = "stopping" /\ ~stopped
  /\ stopPc' = [stopPc EXCEPT ![p] = "wait_owner"]
  /\ UNCHANGED <<Lifecycle, repoOpen, status, stopReq, wake, stopped, tracked, pc, starts, cause>>

TasksDone(p) ==
  /\ stopPc[p] = "wait_tasks" /\ \A s \in Slot : pc[s] = "done"
  /\ stopPc' = [stopPc EXCEPT ![p] = "close"]
  /\ UNCHANGED <<Lifecycle, repoOpen, status, stopReq, wake, stopped, tracked, pc, starts, cause>>

\* Mutant: waits for the slots that are building.
GraceExpiresIdle(p) ==
  /\ stopPc[p] = "wait_tasks" /\ \E s \in Slot : pc[s] # "done"
  /\ \A s \in Slot : pc[s] # "build"
  /\ stopPc' = [stopPc EXCEPT ![p] = "close"]
  /\ pc' = [s \in Slot |-> "done"]
  /\ UNCHANGED <<Lifecycle, repoOpen, status, stopReq, wake, stopped, tracked, starts, cause>>

\* The grace period is over: cancel and gather what is left.  A call that is
\* already in its thread is not stopped by that.
GraceExpires(p) ==
  /\ stopPc[p] = "wait_tasks" /\ \E s \in Slot : pc[s] # "done"
  /\ stopPc' = [stopPc EXCEPT ![p] = "close"]
  /\ orphans' = orphans \cup {[step |-> pc[s], job |-> job[s], outcome |-> outcome[s]] :
                                s \in {t \in Slot : pc[t] \in MutatingCall}}
  /\ pc' = [s \in Slot |-> "done"]
  /\ UNCHANGED <<ledgerVars, job, outcome, service, faults, repoOpen, status, stopReq,
                 wake, stopped, tracked, starts, cause>>

\* A cancelled slot's call goes through if it gets the mutex before close().
OrphanCall(o) ==
  /\ repoOpen /\ orphans' = orphans \ {o}
  /\ \/ o.step \in {"claim1", "claim2"} /\ \E j \in JobId : Claim(j)
     \/ o.step = "publish" /\ o.outcome \in Verdict /\ Publish(o.job, o.outcome)
     \/ o.step = "fail" /\ FinishFailed(o.job)
     \/ o.step = "cancel" /\ FinishCancelled(o.job)
  /\ UNCHANGED <<repoOpen, status, stopReq, wake, stopped, tracked, pc, job, outcome,
                 stopPc, service, starts, faults, cause>>

\* Mutant: returns without closing the repository.
StopClosesLater(p) ==
  /\ stopPc[p] = "close" /\ stopPc' = [stopPc EXCEPT ![p] = "finish"]
  /\ UNCHANGED <<Lifecycle, repoOpen, status, stopReq, wake, stopped, tracked, pc, starts, cause>>

StopCloses(p) ==            \* later calls raise; an orphan can do no more
  /\ stopPc[p] = "close" /\ stopPc' = [stopPc EXCEPT ![p] = "finish"]
  /\ repoOpen' = FALSE /\ orphans' = {}
  /\ UNCHANGED <<ledgerVars, job, outcome, service, faults, status, stopReq, wake,
                 stopped, tracked, pc, starts, cause>>

\* close() raises, but has forgotten its connection by then.
StopCloseFails(p) ==
  /\ stopPc[p] = "close" /\ stopPc' = [stopPc EXCEPT ![p] = "unclosed"]
  /\ faults < MaxFaults /\ faults' = faults + 1
  /\ repoOpen' = FALSE /\ orphans' = {}
  /\ UNCHANGED <<ledgerVars, job, outcome, service, status, stopReq, wake,
                 stopped, tracked, pc, starts, cause>>

StopFinishes(p) ==
  /\ stopPc[p] \in {"finish", "unclosed"} /\ status # "starting"    \* start() holds the lock
  /\ stopPc' = [q \in Stopper |-> IF q = p \/ stopPc[q] = "wait_owner"
                                    THEN "idle" ELSE stopPc[q]]
  /\ IF stopPc[p] = "unclosed" THEN status' = "unhealthy" /\ cause' = "storage"
                               ELSE status' = "stopped" /\ cause' = "none"
  /\ tracked' = FALSE /\ stopped' = TRUE
  /\ UNCHANGED <<Lifecycle, repoOpen, stopReq, wake, pc, starts>>

\* The process dies and its supervisor may start it again.
Crash ==
  /\ status # "stopped" /\ starts < MaxStarts
  /\ repoOpen' = FALSE /\ status' = "stopped" /\ stopped' = TRUE /\ tracked' = FALSE
  /\ pc' = [s \in Slot |-> "done"] /\ stopPc' = [p \in Stopper |-> "idle"]
  /\ orphans' = {} /\ toWake' = {} /\ silent' = {} /\ cause' = "none"
  /\ UNCHANGED <<ledgerVars, stopReq, wake, job, outcome, nextId, starts, faults>>

-----------------------------------------------------------------------------
(* The routes.  Each checks the worker's health first, and may reach the   *)
(* repository any time after: what counts is that it is still open.        *)

Route == repoOpen /\ UNCHANGED <<control, status, wake, pc, job, outcome, faults, cause>>

NewJob ==
  /\ Route /\ nextId \in JobId /\ nextId' = nextId + 1
  /\ toWake' = toWake \cup {nextId} /\ UNCHANGED silent
SubmitJob == NewJob /\ Create(nextId)
RetryJob == NewJob /\ \E p \in JobId : Retry(nextId, p)
CancelJob == Route /\ (\E j \in JobId : Cancel(j)) /\ UNCHANGED service
DeleteJob == Route /\ (\E j \in JobId : Delete(j)) /\ UNCHANGED service

Notify ==                   \* worker.wake(), after the repository call returned
  /\ \E j \in toWake : toWake' = toWake \ {j}
  /\ IF status = "healthy" THEN wake' = TRUE /\ pc' = Woken(pc) /\ silent' = {}
                            ELSE UNCHANGED <<wake, pc, silent>>
  /\ UNCHANGED <<ledgerVars, control, status, job, outcome, nextId, faults, cause>>

\* create() or create_retry() raises after its commit: the marker is not removed,
\* or the trailing get() finds the repository closed or the job deleted.  The
\* route answers an error and does not call wake().
CreationRaises ==
  /\ \E j \in toWake : /\ toWake' = toWake \ {j}
                       /\ silent' = silent \cup ({j} \cap InState(rows, {"queued"}))
  /\ UNCHANGED <<ledgerVars, control, status, wake, pc, job, outcome, nextId, faults, cause>>

-----------------------------------------------------------------------------
LoopStep(s) ==              \* what the event loop and its threads do by themselves
  \/ Top(s) \/ ClaimSome(s) \/ ClaimNone(s) \/ None1(s) \/ None2(s)
  \/ Check(s) \/ Recheck(s) \/ PublishOk(s) \/ PublishMismatch(s) \/ PublishConflict(s)
  \/ Reconcile(s) \/ Settle(s) \/ FailOk(s) \/ CancelOk(s) \/ Tail(s)
  \/ FinishConflicts(s) \/ TailFindsNothing(s) \/ CallRaises(s)

StopStep(p) ==
  TasksDone(p) \/ GraceExpires(p) \/ StopCloses(p) \/ StopCloseFails(p) \/ StopFinishes(p)

StartEnds == StartOpens \/ StartFails \/ StartCancelled
Start == StartBegin \/ StartEnds

Clients == SubmitJob \/ RetryJob \/ CancelJob \/ DeleteJob
CreationReturns == Notify \/ CreationRaises

Next ==
  \/ \E s \in Slot : LoopStep(s) \/ BuildEnds(s)
  \/ Start
  \/ \E p \in Stopper : StopOwner(p) \/ StopJoins(p) \/ StopStep(p)
  \/ \E o \in orphans : OrphanCall(o)
  \/ Crash \/ Clients \/ CreationReturns

Spec == Init /\ [][Next]_vars

\* Threads and event-loop callbacks run; timers expire; open() and the creation
\* of a job return or raise.
\* Nothing is assumed of builds, of clients, or of who calls stop().
Fairness ==
  /\ \A s \in Slot : WF_vars(LoopStep(s))
  /\ \A p \in Stopper : WF_vars(StopStep(p))
  /\ WF_vars(StartEnds) /\ WF_vars(CreationReturns)
FairSpec == Spec /\ Fairness

BuildsReturn == \A s \in Slot : []<>(pc[s] # "build")

-----------------------------------------------------------------------------
(* Properties.                                                             *)

Owner(j) == {s \in Slot : pc[s] \in JobStep \ {"tail"} /\ job[s] = j}

\* No two slots ever work for one job, and while the worker is healthy every
\* job that is running or being cancelled is some slot's business, so that it
\* will end.  Conversely a job is only built, settled or published while it is
\* claimed: cancelling a queued job keeps it from ever being built, and a slot
\* never finishes a job that another actor has already finished
\* (claim_next_queued 235-246 against _run_job 216-266).
ActiveJobsOwned ==
  \A j \in JobId :
     LET claimed == rows[j].state \in {"running", "cancel_requested"} IN
     /\ Cardinality(Owner(j)) <= 1
     /\ status = "healthy" /\ claimed => Owner(j) # {}
     /\ repoOpen /\ Owner(j) # {} => claimed

\* The queued jobs that a wake(), or the start of the loops, has answered for.
Announced == InState(rows, {"queued"}) \ (toWake \cup silent)

\* The clear/submit race is closed: with a job queued whose creation was answered,
\* or that was there at the start or at any later wake(), some slot is awake or
\* will find the event set (_claim_loop 200-208, wake 147-150).  A creation that
\* commits and then raises calls no wake() (app.py 801-810, 880-882): its job is
\* answered for only by the next one.
NoLostWakeup ==
  status = "healthy" /\ Announced # {} =>
     wake \/ \E s \in Slot : pc[s] \notin {"none2", "sleep", "done"}

\* A cancellation that was accepted is never overtaken by a result or a
\* failure, whichever thread gets to the repository first (publish_result
\* 311-312, _run_job 257-266).
CancellationWins ==
  [][\A j \in JobId : rows[j].state = "cancel_requested" =>
       rows'[j].state \in {"cancel_requested", "cancelled"}]_vars

Waits(j) == rows[j].state = "cancel_requested" \/ (rows[j].state = "queued" /\ j \notin silent)

\* While the worker stays healthy no job is left waiting: a queued one is taken
\* (or cancelled first), unless its creation raises after the commit and no wake()
\* follows, and an accepted cancellation is carried out, provided builds return
\* (_claim_loop, _run_job, _finish_after_build_failure).
WorkIsServed ==
  BuildsReturn => \A j \in JobId :
     Waits(j) /\ status = "healthy" ~> ~Waits(j) \/ status # "healthy"

\* Every stop() returns, even if a build never does: time and again no caller is
\* left inside it, because the one that closes the repository releases those
\* that joined it (stop 154-191).
StopReturns == []<>(\A p \in Stopper : stopPc[p] = "idle")

\* After stop() has returned the ledger is still: nothing detached can write
\* (stop 170-179: the repository is closed before the caller hears of it).
StoppedIsQuiet ==
  [][status = "stopped" => UNCHANGED ledgerVars]_vars

\* A healthy worker has its repository (start 112-145, stop 176-190).
HealthyIsOpen == status = "healthy" => repoOpen

\* "Builder exceptions become failed/build_failed for only that job, and the
\* next queued job continues": a worker never breaks because of a job's state
\* (service-build-worker-v1.md 35-37).
JobsNeverConflict == cause # "conflict"
=============================================================================
