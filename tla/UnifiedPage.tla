----------------------------- MODULE UnifiedPage -----------------------------
(***************************************************************************)
(* static/unified.js, the page that is read from top to bottom: choose a   *)
(* school, read its requirements, then compare, report and ask as one      *)
(* likes.  A comparison is fetched for the comparison panel or for a       *)
(* report that waits for it, and both tell of it in the line of the        *)
(* report, status["report"].                                               *)
(***************************************************************************)
EXTENDS BrowserPage

Unified == open = "unified" /\ ~dialog
Idle(k) == fetches[k] = None
WaitsFor(who) == fetches["comparison"] # None /\ fetches["comparison"].waiter = who

\* abortOperation, for several kinds
Abort(ks) == [k \in Kind |-> IF k \in ks THEN None ELSE fetches[k]]
Quiet(ks) == [k \in Kind |-> IF k \in ks THEN "initial" ELSE status[k]]

\* Clearing the comparison aborts it, and with it the report that waits.
\* Clearing the report aborts what it fetches itself.
ClearReport == report' = None /\ dialog' = FALSE
ClearComparison == comparison' = None /\ shown' = None
ClearAnswer == answer' = None

Mapped(t, taken) ==
  IF t \in Legacy THEN [target |-> t, snapshot |-> None, topics |-> <<>>, exam |-> None]
  ELSE [target |-> t, snapshot |-> taken.snapshot, topics |-> taken.topics, exam |-> None]

ReportOf(payload, compared) ==
  [target |-> target, profile |-> profile, preparation |-> 0, compared |-> compared,
   snapshot |-> IF payload = None THEN None ELSE payload.snapshot,
   cited |-> IF payload = None THEN {} ELSE Cited(payload)]

-----------------------------------------------------------------------------
\* invalidateTarget, with the form of another target drawn empty
ChooseTarget(t) ==
  /\ Unified /\ catalog # None /\ t # target
  /\ target' = t /\ profile' = 0
  /\ loaded' = None /\ ClearComparison /\ ClearReport /\ ClearAnswer
  /\ fetches' = Abort(Kind \ {"catalog"}) /\ status' = Quiet(Kind \ {"catalog"})
  /\ UNCHANGED <<server, catalog, preparation, question, step, configured>>

LoadRequirements ==
  /\ Unified /\ target # None /\ Idle("requirements")
  /\ loaded' = None /\ ClearComparison /\ ClearReport /\ ClearAnswer
  /\ fetches' = [Abort(Kind \ {"catalog"}) EXCEPT !["requirements"] = [target |-> target]]
  /\ status' = [Quiet(Kind \ {"catalog"}) EXCEPT !["requirements"] = "loading"]
  /\ UNCHANGED <<server, catalog, entered, step, configured>>

LoadedRequirementsArrive ==
  /\ open = "unified" /\ ~Idle("requirements") /\ fetches' = Ended("requirements")
  /\ LET scope == Scope(target, catalog)
     IN \/ /\ status' = Says("requirements", "success")
           /\ \/ \E base \in OfTarget(BaseAnswers, target) :
                   MapsLegacyBase(scope, base) /\ loaded' = Mapped(target, base)
              \/ \E evidence \in OfRelease(EvidenceAnswers, target) :
                   MapsSliceEvidence(scope, evidence) /\ loaded' = Mapped(target, evidence)
        \/ status' = Says("requirements", "error") /\ UNCHANGED loaded
  /\ UNCHANGED <<server, catalog, entered, comparison, shown, report, answer, step, dialog,
                 configured>>

\* invalidateProfile: an entry of the form has changed.
ChangeProfile ==
  /\ Unified /\ target # None /\ \E p \in Profiles \ {profile} : profile' = p
  /\ ClearComparison /\ ClearReport /\ ClearAnswer
  /\ fetches' = Abort({"comparison", "report", "answer"})
  /\ status' = Quiet({"report", "answer"})
  /\ UNCHANGED <<server, catalog, target, preparation, question, loaded, step, configured>>

-----------------------------------------------------------------------------
(* Comparison and report.                                                  *)

\* The comparison kept is of these entries, for every change clears it.
Kept == comparison # None

CompareButton ==
  /\ Unified /\ loaded # None /\ target \in Legacy /\ profile # 0
  /\ ~WaitsFor("compare")

\* A report that waits for the same comparison fails by this.
CompareOnly ==
  /\ CompareButton
  /\ IF Kept THEN status' = Says("report", "success") /\ UNCHANGED fetches
     ELSE /\ fetches' = [fetches EXCEPT !["comparison"] = [profile |-> profile, waiter |-> "compare"]]
          /\ status' = Says("report", IF Idle("comparison") THEN "loading" ELSE "error")
  /\ UNCHANGED <<server, catalog, entered, results, step, dialog, configured>>

GenerateButton ==
  /\ Unified /\ loaded # None /\ Idle("report")
  /\ ~WaitsFor("report")

\* At once: nothing has to be fetched.
GenerateReportAtOnce ==
  /\ GenerateButton /\ target \in Legacy /\ (profile = 0 \/ Kept)
  /\ LET used == IF profile = 0 THEN None ELSE comparison.answer
     IN IF LegacyReportOk(Scope(target, catalog), used)
        THEN report' = ReportOf(None, used # None) /\ dialog' = TRUE /\ status' = Says("report", "success")
        ELSE report' = None /\ status' = Says("report", "error") /\ UNCHANGED dialog
  /\ UNCHANGED <<server, catalog, entered, loaded, comparison, shown, answer, fetches, step,
                 configured>>

GenerateReport ==
  /\ GenerateButton /\ ~(target \in Legacy /\ (profile = 0 \/ Kept))
  /\ report' = None /\ status' = Says("report", "loading")
  /\ fetches' = IF target \in Legacy
                THEN [fetches EXCEPT !["comparison"] = [profile |-> profile, waiter |-> "report"]]
                ELSE [fetches EXCEPT !["report"] = [profile |-> profile]]
  /\ UNCHANGED <<server, catalog, entered, loaded, comparison, shown, answer, step, dialog,
                 configured>>

\* obtainComparison and what its caller does with it.  The comparison itself
\* is displayed unchecked; a report of it is refused when it is not cited.
ObtainComparison ==
  /\ open = "unified" /\ ~Idle("comparison") /\ fetches' = Ended("comparison")
  /\ LET waiting == WaitsFor("report")
     IN \/ \E c \in OfTarget(ComparisonAnswers, target) :
             /\ comparison' = [target |-> target, profile |-> profile, answer |-> c]
             /\ shown' = ReportOf(None, TRUE)
             /\ IF waiting /\ LegacyReportOk(Scope(target, catalog), c)
                THEN report' = ReportOf(None, TRUE) /\ dialog' = TRUE /\ status' = Says("report", "success")
                ELSE /\ status' = Says("report", IF waiting THEN "error" ELSE "success")
                     /\ UNCHANGED <<report, dialog>>
        \/ status' = Says("report", "error") /\ UNCHANGED <<comparison, shown, report, dialog>>
  /\ UNCHANGED <<server, catalog, entered, loaded, answer, step, configured>>

SliceReportArrives ==
  /\ open = "unified" /\ ~Idle("report") /\ fetches' = Ended("report")
  /\ \/ \E payload \in OfRelease(ReportAnswers, target) :
          /\ SliceReportOk(Scope(target, catalog), loaded, payload)
          /\ report' = ReportOf(payload, TRUE) /\ dialog' = TRUE /\ status' = Says("report", "success")
     \/ report' = None /\ status' = Says("report", "error") /\ UNCHANGED dialog
  /\ UNCHANGED <<server, catalog, entered, loaded, comparison, shown, answer, step, configured>>

CloseDialog ==
  /\ open = "unified" /\ dialog /\ dialog' = FALSE
  /\ UNCHANGED <<server, catalog, entered, results, fetches, status, step, configured>>

-----------------------------------------------------------------------------
(* Questions: an answer is dropped when the target or the form changed, not *)
(* when the question in the box did.                                        *)

Questionable == Unified /\ loaded # None /\ target \in Legacy

TypeQuestion ==
  /\ Questionable /\ \E q \in Questions \ {question} : question' = q
  /\ UNCHANGED <<server, catalog, target, profile, preparation, results, fetches, status, step,
                 dialog, configured>>

AskQuestion ==
  /\ Questionable /\ question # 0 /\ Idle("answer") /\ ClearAnswer
  /\ fetches' = [fetches EXCEPT !["answer"] =
                   [target |-> target, profile |-> profile, question |-> question]]
  /\ status' = Says("answer", "loading")
  /\ UNCHANGED <<server, catalog, entered, loaded, comparison, shown, report, step, dialog, configured>>

QuestionAnswered ==
  /\ open = "unified" /\ ~Idle("answer") /\ fetches' = Ended("answer")
  /\ \/ answer' = fetches["answer"] /\ status' = Says("answer", "success")
     \/ answer' = None /\ status' = Says("answer", "error")
  /\ UNCHANGED <<server, catalog, entered, loaded, comparison, shown, report, step, dialog,
                 configured>>

UnifiedNext ==
  \/ \E t \in Target : ChooseTarget(t)
  \/ LoadRequirements \/ LoadedRequirementsArrive \/ ChangeProfile
  \/ CompareOnly \/ GenerateReportAtOnce \/ GenerateReport \/ ObtainComparison \/ SliceReportArrives
  \/ CloseDialog \/ TypeQuestion \/ AskQuestion \/ QuestionAnswered
=============================================================================
