---------------------------- MODULE AdvancedPage ----------------------------
(***************************************************************************)
(* static/app.js, the page with the four steps: target, requirements,      *)
(* applicant, readiness, and beside them the question box and the report.  *)
(* A step's form can be used while it is the active step; the report       *)
(* dialog is modal, so that while it is open only requests go on.          *)
(***************************************************************************)
EXTENDS BrowserPage

Usable == open = "advanced" /\ ~dialog
Free(k) == fetches[k] = None

\* fetches and status after the requests of the kinds ks were aborted.
Aborted(ks) == [k \in Kind |-> IF k \in ks THEN None ELSE fetches[k]]
Reset(ks) == [k \in Kind |-> IF k \in ks THEN "initial" ELSE status[k]]

\* clearGroundedAnswer
AnswerCleared == answer' = None
\* clearReferenceReport
ReportCleared == report' = None /\ dialog' = FALSE
\* invalidateComparison, without the report it clears as well
ComparisonCleared == comparison' = None /\ shown' = None

LegacyMapped(t, base) ==
  [target |-> t, snapshot |-> None, topics |-> <<>>,
   exam |-> ValidateExamInformation(Scope(t, catalog), base.exam)]
SliceMapped(t, evidence) ==
  [target |-> t, snapshot |-> evidence.snapshot, topics |-> evidence.topics, exam |-> None]

LegacyResult(compared) ==
  [target |-> target, profile |-> profile, preparation |-> 0, snapshot |-> None, cited |-> {},
   compared |-> compared]
SliceResult(payload) ==
  [target |-> target, profile |-> profile, preparation |-> preparation,
   snapshot |-> payload.snapshot, cited |-> Cited(payload), compared |-> TRUE]

-----------------------------------------------------------------------------
(* Target and requirements.                                                *)

\* loadDemoCatalog again, on the button that a failed load shows.  What it
\* clears was not there yet.
RetryCatalog ==
  /\ Usable /\ catalog = None /\ Free("catalog")
  /\ fetches' = [fetches EXCEPT !["catalog"] = [kind |-> "catalog"]]
  /\ status' = Says("catalog", "loading")
  /\ UNCHANGED <<server, catalog, entered, results, step, dialog, configured>>

\* Mutant: the answer to the old target's question stays.
HandleDemoTargetChangeKeepsAnswer(t) ==
  /\ Usable /\ step = 1 /\ catalog # None /\ t # target
  /\ target' = t /\ profile' = 0 /\ preparation' = 0
  /\ loaded' = None /\ ComparisonCleared /\ ReportCleared /\ step' = 1
  /\ fetches' = Aborted({"requirements", "comparison", "report"})
  /\ status' = Reset({"requirements", "comparison", "report"})
  /\ UNCHANGED <<server, catalog, question, answer, configured>>

HandleDemoTargetChange(t) ==     \* a target, or a selection not yet complete
  /\ Usable /\ step = 1 /\ catalog # None /\ t # target
  /\ target' = t /\ profile' = 0 /\ preparation' = 0
  /\ loaded' = None /\ ComparisonCleared /\ ReportCleared /\ AnswerCleared /\ step' = 1
  /\ fetches' = Aborted(Kind \ {"catalog"}) /\ status' = Reset(Kind \ {"catalog"})
  /\ UNCHANGED <<server, catalog, question, configured>>

SubmitBaseRequirements ==
  /\ Usable /\ step = 1 /\ target # None /\ Free("requirements")
  /\ loaded' = None /\ ComparisonCleared /\ ReportCleared /\ AnswerCleared
  /\ fetches' = [Aborted(Kind \ {"catalog"}) EXCEPT !["requirements"] = [target |-> target]]
  /\ status' = [Reset(Kind \ {"catalog"}) EXCEPT !["requirements"] = "loading"]
  /\ UNCHANGED <<server, catalog, entered, step, configured>>

\* They are shown, and nothing else is: what was compared, reported or
\* answered before was for other requirements.
RequirementsLoaded(mapped) ==
  /\ loaded' = mapped /\ step' = 2 /\ shown' = None /\ AnswerCleared
  /\ preparation' = IF target \in Slices THEN 0 ELSE preparation   \* its inputs are drawn anew
  /\ fetches' = Aborted({"requirements", "answer"})
  /\ status' = [Reset(Kind \ {"catalog"}) EXCEPT !["requirements"] = "success"]
  /\ UNCHANGED <<server, catalog, target, profile, question, comparison, report, dialog, configured>>

RequirementsFail ==
  /\ loaded' = None /\ ReportCleared
  /\ fetches' = Aborted({"requirements", "report"})
  /\ status' = [Reset({"report"}) EXCEPT !["requirements"] = "error"]
  /\ UNCHANGED <<server, catalog, entered, comparison, shown, answer, step, configured>>

RequirementsArrive ==
  /\ open = "advanced" /\ ~Free("requirements")
  /\ LET scope == Scope(target, catalog)
     IN \/ \E base \in OfTarget(BaseAnswers, target) :
             MapsLegacyBase(scope, base) /\ RequirementsLoaded(LegacyMapped(target, base))
        \/ \E evidence \in OfRelease(EvidenceAnswers, target) :
             MapsSliceEvidence(scope, evidence) /\ RequirementsLoaded(SliceMapped(target, evidence))
        \/ RequirementsFail

-----------------------------------------------------------------------------
(* Applicant and comparison.                                               *)

\* Mutant: the aborted request is left to say so itself.
EditApplicantSilently ==
  /\ Usable /\ step = 3 /\ \E p \in Profiles \ {profile} : profile' = p
  /\ ComparisonCleared /\ ReportCleared /\ AnswerCleared
  /\ fetches' = Aborted({"comparison", "report", "answer"}) /\ status' = Reset({"report", "answer"})
  /\ UNCHANGED <<server, catalog, target, preparation, question, loaded, step, configured>>

EditApplicant ==
  /\ Usable /\ step = 3 /\ \E p \in Profiles \ {profile} : profile' = p
  /\ ComparisonCleared /\ ReportCleared /\ AnswerCleared
  /\ fetches' = Aborted({"comparison", "report", "answer"})
  /\ status' = Reset({"comparison", "report", "answer"})
  /\ UNCHANGED <<server, catalog, target, preparation, question, loaded, step, configured>>

\* Materials the applicant ticks: they change no condition, so the report is
\* brought up to date and displayed, not cleared.
RefreshSlicePreparation(p) ==
  /\ Usable /\ step = 3 /\ target \in Slices /\ loaded.snapshot \in DOMAIN Presentation
  /\ p # preparation /\ preparation' = p
  /\ IF report = None THEN UNCHANGED <<report, shown, status>>
     ELSE /\ report' = [report EXCEPT !.preparation = p] /\ shown' = report'
          /\ status' = Says("report", "success")
  /\ UNCHANGED <<server, catalog, target, profile, question, loaded, comparison, answer,
                 fetches, step, dialog, configured>>

\* A report of the same conditions is what the comparison would show.
ReuseReport ==
  /\ Usable /\ step = 3 /\ Free("comparison") /\ target \in Slices /\ report # None
  /\ report' = [report EXCEPT !.preparation = preparation] /\ shown' = report' /\ step' = 4
  /\ status' = [status EXCEPT !["comparison"] = "success", !["report"] = "success"]
  /\ UNCHANGED <<server, catalog, entered, loaded, comparison, answer, fetches, dialog,
                 configured>>

SubmitApplicantComparison ==
  /\ Usable /\ step = 3 /\ Free("comparison") /\ ~(target \in Slices /\ report # None)
  /\ ReportCleared /\ shown' = None
  /\ fetches' = [Aborted({"report"}) EXCEPT !["comparison"] = [target |-> target, profile |-> profile]]
  /\ status' = [Reset({"report"}) EXCEPT !["comparison"] = "loading"]
  /\ UNCHANGED <<server, catalog, entered, loaded, comparison, answer, step, configured>>

LegacyComparisonArrives(c) ==
  /\ PreparationResult(Scope(target, catalog), c)
  /\ comparison' = [target |-> target, profile |-> profile, answer |-> c]
  /\ shown' = LegacyResult(TRUE) /\ step' = 4
  /\ fetches' = Ended("comparison") /\ status' = Says("comparison", "success")
  /\ UNCHANGED <<server, catalog, entered, loaded, report, answer, dialog, configured>>

SliceComparisonArrives(payload) ==
  /\ SliceReportOk(Scope(target, catalog), loaded, payload)
  /\ report' = SliceResult(payload) /\ shown' = report' /\ step' = 4
  /\ fetches' = Ended("comparison")
  /\ status' = [status EXCEPT !["comparison"] = "success", !["report"] = "success"]
  /\ UNCHANGED <<server, catalog, entered, loaded, comparison, answer, dialog, configured>>

ComparisonFails ==
  /\ shown' = None /\ fetches' = Ended("comparison") /\ status' = Says("comparison", "error")
  /\ UNCHANGED <<server, catalog, entered, loaded, comparison, report, answer, step, dialog,
                 configured>>

ComparisonArrives ==
  /\ open = "advanced" /\ ~Free("comparison")
  /\ \/ \E c \in OfTarget(ComparisonAnswers, target) : LegacyComparisonArrives(c)
     \/ \E payload \in OfRelease(ReportAnswers, target) : SliceComparisonArrives(payload)
     \/ ComparisonFails

-----------------------------------------------------------------------------
(* The report.                                                             *)

ReportButton == Usable /\ step \in {2, 4} /\ Free("report")

OpenReport ==
  /\ ReportButton /\ report # None
  /\ dialog' = TRUE /\ status' = Says("report", "success")
  /\ UNCHANGED <<server, catalog, entered, results, fetches, step, configured>>

\* The comparison there is belongs to the same entries: else it was cleared.
GenerateLegacyReport ==
  /\ ReportButton /\ report = None /\ target \in Legacy
  /\ LET compared == profile # 0 /\ comparison # None
     IN IF LegacyReportOk(Scope(target, catalog), IF compared THEN comparison.answer ELSE None)
        THEN report' = LegacyResult(compared) /\ dialog' = TRUE /\ status' = Says("report", "success")
        ELSE status' = Says("report", "error") /\ UNCHANGED <<report, dialog>>
  /\ UNCHANGED <<server, catalog, entered, loaded, comparison, shown, answer, fetches, step,
                 configured>>

GenerateReferenceReport ==
  /\ ReportButton /\ report = None /\ target \in Slices
  /\ fetches' = [fetches EXCEPT !["report"] = [target |-> target, profile |-> profile]]
  /\ status' = Says("report", "loading")
  /\ UNCHANGED <<server, catalog, entered, results, step, dialog, configured>>

ReportArrives ==
  /\ open = "advanced" /\ ~Free("report") /\ ~dialog /\ fetches' = Ended("report")
  /\ \/ \E payload \in OfRelease(ReportAnswers, target) :
          /\ SliceReportOk(Scope(target, catalog), loaded, payload)
          /\ report' = SliceResult(payload) /\ dialog' = TRUE /\ status' = Says("report", "success")
     \/ status' = Says("report", "error") /\ UNCHANGED <<report, dialog>>
  /\ UNCHANGED <<server, catalog, entered, loaded, comparison, shown, answer, step, configured>>

\* In the dialog, a legacy report of a filled form wants its comparison.
CompareInReport ==
  /\ open = "advanced" /\ dialog /\ Free("report")
  /\ report.target \in Legacy /\ profile # 0 /\ ~report.compared
  /\ fetches' = [fetches EXCEPT !["report"] = [target |-> target, profile |-> profile]]
  /\ UNCHANGED <<server, catalog, entered, results, status, step, dialog, configured>>

ReportComparisonArrives ==
  /\ open = "advanced" /\ dialog /\ ~Free("report") /\ fetches' = Ended("report")
  /\ \/ \E c \in OfTarget(ComparisonAnswers, target) :
          LegacyReportOk(Scope(target, catalog), c) /\ report' = LegacyResult(TRUE)
     \/ UNCHANGED report                      \* the dialog says so
  /\ UNCHANGED <<server, catalog, entered, loaded, comparison, shown, answer, status, step, dialog,
                 configured>>

CloseReport ==
  /\ open = "advanced" /\ dialog /\ dialog' = FALSE
  /\ fetches' = IF report.target \in Legacy THEN Aborted({"report"}) ELSE fetches
  /\ UNCHANGED <<server, catalog, entered, results, status, step, configured>>

-----------------------------------------------------------------------------
(* Questions.                                                              *)

QuestionBox == Usable /\ loaded # None /\ configured = "yes" /\ target \in Legacy

EditQuestion ==
  /\ QuestionBox /\ \E q \in Questions \ {question} : question' = q
  /\ UNCHANGED <<server, catalog, target, profile, preparation, results, fetches, status, step,
                 dialog, configured>>

LoadGenerationStatus ==
  /\ open = "advanced" /\ configured = "unknown" /\ configured' \in {"yes", "no"}
  /\ AnswerCleared /\ fetches' = Aborted({"answer"}) /\ status' = Reset({"answer"})
  /\ UNCHANGED <<server, catalog, entered, loaded, comparison, shown, report, step, dialog>>

SubmitGroundedAnswer ==
  /\ QuestionBox /\ question # 0 /\ Free("answer")
  /\ AnswerCleared
  /\ fetches' = [fetches EXCEPT !["answer"] =
                   [target |-> target, profile |-> profile, question |-> question]]
  /\ status' = Says("answer", "loading")
  /\ UNCHANGED <<server, catalog, entered, loaded, comparison, shown, report, step, dialog, configured>>

\* What arrives for another request than the page would send now is dropped;
\* the page then says nothing.
AnswerArrives ==
  /\ open = "advanced" /\ ~Free("answer") /\ fetches' = Ended("answer")
  /\ IF fetches["answer"] # [target |-> target, profile |-> profile, question |-> question]
     THEN UNCHANGED <<answer, status>>
     ELSE \/ answer' = fetches["answer"] /\ status' = Says("answer", "success")
          \/ answer' = None /\ status' = Says("answer", "error")
  /\ UNCHANGED <<server, catalog, entered, loaded, comparison, shown, report, step, dialog, configured>>

AnswerFails ==              \* no connection, or the page's own time limit
  /\ open = "advanced" /\ ~Free("answer") /\ fetches' = Ended("answer")
  /\ answer' = None /\ status' = Says("answer", "error")
  /\ UNCHANGED <<server, catalog, entered, loaded, comparison, shown, report, step, dialog,
                 configured>>

-----------------------------------------------------------------------------
\* The buttons that lead to a step, where its panel is on display.
ActivateStep(n) ==
  /\ Usable /\ loaded # None /\ n # step
  /\ n = 3 => step = 2 \/ shown # None
  /\ n \in 1..3 /\ step' = n
  /\ UNCHANGED <<server, catalog, entered, results, fetches, status, dialog, configured>>

AdvancedNext ==
  \/ RetryCatalog
  \/ \E t \in Target \cup {None} : HandleDemoTargetChange(t)
  \/ SubmitBaseRequirements \/ RequirementsArrive
  \/ EditApplicant \/ (\E p \in Preparations : RefreshSlicePreparation(p))
  \/ ReuseReport \/ SubmitApplicantComparison \/ ComparisonArrives
  \/ OpenReport \/ GenerateLegacyReport \/ GenerateReferenceReport \/ ReportArrives
  \/ CompareInReport \/ ReportComparisonArrives \/ CloseReport
  \/ EditQuestion \/ LoadGenerationStatus \/ SubmitGroundedAnswer \/ AnswerArrives \/ AnswerFails
  \/ \E n \in 1..3 : ActivateStep(n)
=============================================================================
