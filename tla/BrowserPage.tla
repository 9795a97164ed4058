----------------------------- MODULE BrowserPage -----------------------------
(***************************************************************************)
(* What the two pages of the service share: the presentation adapter       *)
(* static/unified-core.mjs, which takes nothing from the server that does  *)
(* not fit the target on the page, and the state a page keeps.             *)
(* AdvancedPage (static/app.js) and UnifiedPage (static/unified.js) give   *)
(* the handlers.                                                           *)
(*                                                                         *)
(* A handler runs to its next await in one step.  fetches[k] is the        *)
(* request of kind k under way: a page has at most one, because a new one  *)
(* and every clearing abort the old, and what an aborted request leaves    *)
(* behind is part of the step that aborts it.  The request counters of the *)
(* pages change exactly where a request is aborted, so they add nothing.   *)
(***************************************************************************)
EXTENDS Naturals, FiniteSets, Functions

CONSTANTS
  Legacy,        \* targets with applicant rules
  Slices,        \* targets that are reviewed material slices
  Profiles,      \* what the applicant form may hold; 0 is an empty form
  Preparations,  \* what the page may record of prepared materials; 0 is nothing
  Questions,     \* questions; 0 is an empty box
  Snapshots,     \* data releases a server may serve
  BaseAnswers, ComparisonAnswers,  \* what the server may answer for a legacy
  EvidenceAnswers, ReportAnswers,  \* target and for a slice
  Presentation,  \* [snapshot -> topics with their records], generated, for some
  MaxRestarts,   \* bound: how often the server comes back with another release
  None

Target == Legacy \cup Slices

-----------------------------------------------------------------------------
(* unified-core.mjs: what is accepted.  An answer is accepted whole or not *)
(* at all.                                                                 *)

\* A target as the catalog of the page names it: a slice with its snapshot.
Scope(t, catalog) == [target |-> t, snapshot |-> IF t \in Slices THEN catalog ELSE None]

\* Every finding that says something has evidence of this document, and
\* every date has a source.
CitedFinding(scope, finding) ==
  /\ \A e \in finding.evidence : e = scope.target
  /\ finding.asserts => finding.evidence # {}

\* The examination schedule is shown only when it is this target's, each
\* field that has a value quotes the listed evidence, each other has none,
\* and only a route named by the target counts as the applicant's.
ValidExam(scope, exam) ==
  /\ exam # None /\ exam.target = scope.target
  /\ \A f \in DOMAIN exam.fields :
       IF exam.fields[f].known THEN exam.fields[f].sources # {} /\ exam.fields[f].sources \subseteq exam.evidence
       ELSE exam.fields[f].sources = {}
  /\ exam.personal => exam.route

ValidateExamInformation(scope, exam) == IF ValidExam(scope, exam) THEN exam ELSE None

MapsLegacyBase(scope, base) ==
  base.target = scope.target /\ \A f \in base.findings : CitedFinding(scope, f)

\* The detailed checks of English and submission, where there are any.
PreparationResult(scope, payload) ==
  payload.checks # None => \A f \in payload.checks : CitedFinding(scope, f)

\* Mutant: takes evidence of whatever release the server has by now.
MapsSliceEvidenceAny(scope, evidence) ==
  evidence.target = scope.target /\ \A t \in DOMAIN evidence.topics : evidence.topics[t] # {}

\* Evidence of a slice is that of the snapshot in the catalog, no topic is
\* without a source, and a generated presentation of it matches exactly.
MapsSliceEvidence(scope, evidence) ==
  /\ evidence.target = scope.target /\ evidence.snapshot = scope.snapshot
  /\ DOMAIN evidence.topics # {}
  /\ \A t \in DOMAIN evidence.topics : evidence.topics[t] # {}
  /\ scope.snapshot \in DOMAIN Presentation => evidence.topics = Presentation[scope.snapshot]

\* A report of a legacy target: the loaded requirements, with a comparison
\* when there is one, of this target and cited.
LegacyReportOk(scope, comparison) ==
  comparison # None =>
    /\ comparison.target = scope.target
    /\ PreparationResult(scope, comparison)
    /\ \A f \in comparison.findings : CitedFinding(scope, f)

LoadedRecords(mapped) == UNION Range(mapped.topics)

\* A report of a slice: of the snapshot of the catalog, with a basis for each
\* topic, all it cites listed and among the records the page has loaded.
SliceReportOk(scope, mapped, payload) ==
  /\ mapped.snapshot = scope.snapshot
  /\ payload.target = scope.target /\ payload.snapshot = scope.snapshot
  /\ \A t \in DOMAIN payload.topics :
       LET result == payload.topics[t]
       IN /\ result.basis # {}
          /\ result.basis \cup result.context \subseteq payload.inventory
          /\ result.basis \cup result.context \subseteq LoadedRecords(mapped)
  /\ IF scope.snapshot \in DOMAIN Presentation THEN DOMAIN payload.topics = DOMAIN mapped.topics
     ELSE Cardinality(DOMAIN payload.topics) = Cardinality(DOMAIN mapped.topics)

Cited(payload) == UNION {payload.topics[t].basis \cup payload.topics[t].context : t \in DOMAIN payload.topics}

\* What a page keeps: requirements, a comparison, what it shows of one, and
\* the requests it sends.
Requirements ==
  [target : Target, snapshot : Snapshots \cup {None},
   topics : {e.topics : e \in EvidenceAnswers} \cup {<<>>},
   exam : {b.exam : b \in BaseAnswers} \cup {None}]
Comparison == [target : Legacy, profile : Profiles, answer : ComparisonAnswers]
Result ==
  [target : Target, profile : Profiles, preparation : Preparations, compared : BOOLEAN,
   snapshot : Snapshots \cup {None}, cited : SUBSET UNION {Cited(a) : a \in ReportAnswers}]
Request ==
  [kind : {"catalog"}] \cup [target : Target] \cup [profile : Profiles]
    \cup [target : Target, profile : Profiles]
    \cup [profile : Profiles, waiter : {"compare", "report"}]
    \cup [target : Target, profile : Profiles, question : Questions]

\* A server answers of legacy targets and of slices as declared; an empty form
\* is a form.
ASSUME PageAssumption ==
  /\ Legacy \cap Slices = {} /\ None \notin Target \cup Snapshots
  /\ {0} \subseteq Profiles /\ {0} \subseteq Preparations /\ {0} \subseteq Questions
  /\ \A a \in BaseAnswers \cup ComparisonAnswers : a.target \in Legacy
  /\ \A a \in EvidenceAnswers \cup ReportAnswers : a.target \in Slices
  /\ None \notin ReportAnswers
  /\ None \notin Requirements \cup Comparison \cup Result \cup Request

-----------------------------------------------------------------------------
(* The page and its server.                                                *)

VARIABLES
  open,       \* "advanced" or "unified": which page the browser shows
  release,    \* snapshot the server serves
  restarts,
  catalog,    \* snapshot of the catalog the page has loaded
  target, profile, preparation, question,   \* what the applicant has entered
  loaded,     \* requirements of a target, as mapped
  comparison, \* what is kept of the last comparison
  shown,      \* the comparison on display
  report,     \* the report that can be read and copied
  answer,     \* the answer on display
  fetches,    \* [kind -> request under way, or None]
  status,     \* [kind -> what the page says of it]
  step,       \* advanced: the active step
  dialog,     \* the report is open, over the page
  configured  \* advanced: question answering is available

entered == <<target, profile, preparation, question>>
server == <<open, release, restarts>>
results == <<loaded, comparison, shown, report, answer>>
pageVars == <<open, release, restarts, catalog, target, profile, preparation, question, loaded,
              comparison, shown, report, answer, fetches, status, step, dialog, configured>>

Kind == {"catalog", "requirements", "comparison", "report", "answer"}
Status == {"initial", "loading", "success", "error"}

PageInit ==
  /\ open \in {"advanced", "unified"}
  /\ release \in Snapshots /\ restarts = 0 /\ catalog = None
  /\ target = None /\ profile = 0 /\ preparation = 0 /\ question = 0
  /\ loaded = None /\ comparison = None /\ shown = None /\ report = None /\ answer = None
  /\ fetches = [k \in Kind |-> IF k = "catalog" THEN [kind |-> k] ELSE None]
  /\ status = [k \in Kind |-> IF k = "catalog" THEN "loading" ELSE "initial"]
  /\ step = 1 /\ dialog = FALSE
  /\ configured = IF open = "advanced" THEN "unknown" ELSE "yes"

\* The request of kind k ends with this answer.
Ended(k) == [fetches EXCEPT ![k] = None]
Says(k, what) == [status EXCEPT ![k] = what]

\* The server goes down and comes back with other data.  Requests under way
\* fail, sooner or later.
Restart ==
  /\ restarts < MaxRestarts /\ restarts' = restarts + 1
  /\ \E r \in Snapshots \ {release} : release' = r
  /\ UNCHANGED <<open, catalog, entered, results, fetches, status, step, dialog, configured>>

\* The catalog of targets, loaded when the page is opened; the advanced page
\* can try again.  The unified page selects the first of them at once.
CatalogArrives ==
  /\ fetches["catalog"] # None /\ fetches' = Ended("catalog")
  /\ \/ /\ catalog' = release /\ status' = Says("catalog", "initial")
        /\ \E t \in IF open = "unified" THEN Target ELSE {None} : target' = t
     \/ status' = Says("catalog", "error") /\ UNCHANGED <<catalog, target>>
  /\ UNCHANGED <<server, profile, preparation, question, results, step, dialog, configured>>

\* What the server may answer to a request for target t.
OfTarget(answers, t) == {a \in answers : a.target = t}
OfRelease(answers, t) == {a \in answers : a.target = t /\ a.snapshot = release}

-----------------------------------------------------------------------------
(* Properties.                                                             *)

\* All that is on the page belongs to what is selected and entered now,
\* whatever arrived late: the requirements to the target, the comparison and
\* the report also to the applicant form, the answer to both; and no step of
\* the advanced page is open without its data (app.js 116-130, 208-244,
\* 2000-2023, 2840-2845, 2921-2955; unified.js 52-105, 366-370, 517-545).
ShownIsCurrent ==
  /\ loaded # None => loaded.target = target
  /\ \A c \in {comparison, shown} : c # None =>
       /\ loaded # None /\ c.target = target /\ c.profile = profile
       /\ c.target \in Slices => c.preparation = preparation
  /\ report # None =>
       /\ loaded # None /\ report.target = target /\ report.profile = profile
       /\ report.target \in Slices /\ open = "advanced" => report.preparation = preparation
  /\ answer # None => loaded # None /\ answer.target = target /\ answer.profile = profile
  /\ step >= 2 => loaded # None
  /\ step = 4 => shown # None

\* What a slice page shows is of one release: evidence, conditions and report
\* of the snapshot the page's catalog named, and nothing is cited that the
\* page has not loaded, even when the server comes back with other data
\* between two requests (unified-core.mjs 456-515, 604-650).
SliceOfOneSnapshot ==
  /\ loaded # None /\ loaded.target \in Slices => loaded.snapshot = catalog
  /\ \A r \in {shown, report} : r # None /\ r.target \in Slices =>
       r.snapshot = loaded.snapshot /\ r.cited \subseteq LoadedRecords(loaded)

\* A request is under way whose end the page will put in the line of kind k.
HearsOf(k) ==
  fetches[k] # None \/ (k = "report" /\ open = "unified" /\ fetches["comparison"] # None)

\* Where the page says it is working, a request is under way, however requests
\* were overtaken, aborted, shared by two panels or started again (app.js
\* 107-114, 214-221, 851-881, 2847-2919; unified.js 325-352, 476-528, 588-614).
\* The question box of the advanced page is the exception: NothingLoadsForever.
LoadingIsHeardOf ==
  \A k \in Kind \ (IF open = "advanced" THEN {"answer"} ELSE {}) :
    status[k] = "loading" => HearsOf(k)

\* docs/natural-language-grounded-rag-v1.md, "Browser boundary": nothing can
\* leave the page loading forever, and a request snapshot prevents stale results
\* from appearing.  But an answer that arrives when the question in the box has
\* been changed is dropped without a word (app.js 435), and the page goes on
\* saying that it is working.
NothingLoadsForever == \A k \in Kind : status[k] = "loading" => HearsOf(k)

=============================================================================
