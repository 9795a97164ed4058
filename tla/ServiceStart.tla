----------------------------- MODULE ServiceStart -----------------------------
(***************************************************************************)
(* What the service reads once, when it starts (lifespan of service/app.py), *)
(* and shows for as long as it runs: the reviewed plan, its page scopes, the *)
(* reviewed dates (date_presentation.py), the official PDF, and the two      *)
(* reviewed maps of the examinations (exam_presentation.py and _v2).  Each   *)
(* part audits the corpus on its own and then reads the KB file; the corpus  *)
(* may be published again in between, and while the service answers.         *)
(***************************************************************************)
EXTENDS Naturals, FiniteSets

CONSTANTS
  Setups,        \* settings: [plans, scopes, dates, source, v1, v2], each may be Unset
  Kbs,           \* revision -> [pdf, pages, facts: fact -> [text, covers]]
  Entries,       \* what may be registered: [pdf, kb, ready]
  PdfFiles,      \* contents of the PDF file
  ExamMaps,      \* "v1", "v2" -> [pdf, kb, records, shown, departments]
  BaseQueries,   \* [month, dept, route, exam, course]
  YearFact,      \* the fact the year of the examinations is read from
  MaxChanges,    \* bound: publications and rewritten files
  Unset

\* An entry is registered with the PDF its KB names (register_document), and
\* the one map of the first examinations the service accepts, whose digest it
\* knows, lists the records it shows, each of the one department it is of
\* (exam_presentation.py, _validate_artifact).
ASSUME StartAssumption ==
  /\ \A e \in Entries : e.kb \in DOMAIN Kbs /\ e.pdf = Kbs[e.kb].pdf
  /\ ExamMaps["v1"].shown \subseteq DOMAIN ExamMaps["v1"].records
  /\ \A d \in DOMAIN ExamMaps["v1"].departments, f \in ExamMaps["v1"].shown :
       d \in ExamMaps["v1"].records[f].covers

VARIABLES
  settings,
  entry, kbFile, pdfFile,   \* the manifest's entry and the two files beside it
  phase,                    \* the part that is loaded next, or "serving"
  audited,                  \* the part's audit was passed
  state,                    \* [part -> what was loaded, or Unset]
  failed,                   \* the initialization-failed flags
  delivered,                \* the last answer
  changes,
  moved                     \* history: the corpus was touched since the start

startVars == <<settings, entry, kbFile, pdfFile, phase, audited, state, failed,
               delivered, changes, moved>>

Parts == <<"plans", "scopes", "dates", "source", "v1", "v2", "serving">>
ReportParts == {"plans", "scopes", "dates"}
ExamParts == {"v1", "v2"}

Position(part) == CHOOSE i \in DOMAIN Parts : Parts[i] = part

\* The first part after `part` that the settings name.
PhaseAfter(part) ==
  LET Named(i) == i > Position(part) /\ (Parts[i] = "serving" \/ settings[Parts[i]] # Unset)
  IN Parts[CHOOSE i \in DOMAIN Parts : Named(i) /\ \A j \in DOMAIN Parts : Named(j) => i <= j]

\* Settings the service accepts: plans and page scopes go together.
SettingsAccepted(s) == (s.plans = Unset) = (s.scopes = Unset)

StartInit ==
  /\ settings \in {s \in Setups : SettingsAccepted(s)}
  /\ entry \in Entries /\ kbFile = entry.kb /\ pdfFile \in PdfFiles
  /\ phase = IF settings.plans # Unset THEN "plans" ELSE PhaseAfter("dates")
  /\ audited = FALSE /\ state = [p \in ReportParts \cup ExamParts \cup {"source"} |-> Unset]
  /\ failed = {} /\ delivered = Unset /\ changes = 0 /\ moved = FALSE

-----------------------------------------------------------------------------
(* Someone else.                                                           *)

Touches ==
  /\ changes < MaxChanges /\ changes' = changes + 1 /\ moved' = TRUE
  /\ UNCHANGED <<settings, phase, audited, state, failed, delivered>>

PublishCorpus ==
  /\ Touches /\ UNCHANGED pdfFile
  /\ entry' \in Entries \ {entry} /\ kbFile' = entry'.kb

RewriteKbFile ==
  /\ Touches /\ UNCHANGED <<entry, pdfFile>>
  /\ kbFile' \in DOMAIN Kbs \ {kbFile}

RewritePdfFile ==
  /\ Touches /\ UNCHANGED <<entry, kbFile>>
  /\ pdfFile' \in PdfFiles \ {pdfFile}

-----------------------------------------------------------------------------
(* The parts.                                                              *)

\* A part of the report takes the whole report with it.
PartFails ==
  /\ audited' = FALSE
  /\ IF phase \in ReportParts
     THEN /\ state' = [p \in DOMAIN state |-> IF p \in ReportParts THEN Unset ELSE state[p]]
          /\ failed' = failed \cup {"report"} /\ phase' = PhaseAfter("dates")
     ELSE failed' = failed \cup {phase} /\ phase' = PhaseAfter(phase) /\ UNCHANGED state

PartLoads(value) ==
  /\ state' = [state EXCEPT ![phase] = value] /\ phase' = PhaseAfter(phase)
  /\ audited' = FALSE /\ UNCHANGED failed

AuditPasses == kbFile = entry.kb

LoadReportPlans ==
  /\ phase = "plans"
  /\ IF AuditPasses /\ settings.plans.pdf = entry.pdf THEN PartLoads(settings.plans) ELSE PartFails
  /\ UNCHANGED <<settings, entry, kbFile, pdfFile, delivered, changes, moved>>

\* What is compared before the KB is read.
AuditAccepts(part) ==
  /\ AuditPasses
  /\ part = "scopes" => settings.scopes.pdf = entry.pdf
  /\ part = "dates" => {settings.dates.pdf, entry.pdf} = {state.plans.pdf}
  /\ part \in ExamParts => /\ settings[part] = "reviewed"
                           /\ entry.pdf = ExamMaps[part].pdf /\ entry.kb = ExamMaps[part].kb
  /\ part = "v2" => pdfFile = ExamMaps["v2"].pdf

AuditPart ==
  /\ phase \in {"scopes", "dates", "v1", "v2"} /\ ~audited
  /\ IF AuditAccepts(phase) THEN audited' = TRUE /\ UNCHANGED <<phase, state, failed>> ELSE PartFails
  /\ UNCHANGED <<settings, entry, kbFile, pdfFile, delivered, changes, moved>>

\* Every character range of the reviewed dates holds the text it was reviewed with.
HighlightsMatch(dates, kb) ==
  \A month \in DOMAIN dates.quotes : \A f \in DOMAIN dates.quotes[month] :
    f \in DOMAIN kb.facts /\ kb.facts[f].text = dates.quotes[month][f]

ExamRecordsMatch(map, kb) ==
  \A f \in DOMAIN map.records : f \in DOMAIN kb.facts /\ kb.facts[f] = map.records[f]

\* A fact of a department's field: its reviewed text, and about the department;
\* the year is about everybody.
ExamFieldsMatch(map, kb) ==
  \A d \in DOMAIN map.departments : \A field \in DOMAIN map.departments[d].fields :
    \A f \in map.departments[d].fields[field] :
      /\ f \in DOMAIN kb.facts /\ kb.facts[f].text = map.records[f].text
      /\ IF f = YearFact /\ field = "year" THEN kb.facts[f].covers = {} ELSE d \in kb.facts[f].covers

\* Mutant: the examinations are taken from what the audit has just accepted.
ReadAcceptsAudited(part, kb) ==
  /\ part = "scopes" => settings.scopes.pages = kb.pages /\ settings.scopes.pdf = state.plans.pdf
  /\ part = "dates" => HighlightsMatch(settings.dates, kb)

ReadAccepts(part, kb) ==
  /\ part = "scopes" => settings.scopes.pages = kb.pages /\ settings.scopes.pdf = state.plans.pdf
  /\ part = "dates" => HighlightsMatch(settings.dates, kb)
  /\ part = "v1" => ExamRecordsMatch(ExamMaps["v1"], kb)
  /\ part = "v2" => ExamFieldsMatch(ExamMaps["v2"], kb)

ReadPart ==
  /\ audited
  /\ LET kb == Kbs[kbFile]
     IN IF ReadAccepts(phase, kb)
        THEN PartLoads(IF phase \in ExamParts THEN kb.facts ELSE settings[phase])
        ELSE PartFails
  /\ UNCHANGED <<settings, entry, kbFile, pdfFile, delivered, changes, moved>>

\* The PDF is kept as it was read: the plan, the dates and the settings name it.
LoadSourceDocument ==
  /\ phase = "source"
  /\ IF /\ state.plans # Unset /\ state.plans.pdf = settings.source
        /\ settings.dates # Unset => state.dates # Unset /\ state.dates.pdf = settings.source
        /\ pdfFile = settings.source
     THEN PartLoads(pdfFile) ELSE PartFails
  /\ UNCHANGED <<settings, entry, kbFile, pdfFile, delivered, changes, moved>>

-----------------------------------------------------------------------------
(* The requirements of a target, with its dates and examinations.          *)

Exam(status, evidence, link) == [status |-> status, evidence |-> evidence, link |-> link]
ExamOnly(status) == Exam(status, {}, FALSE)

ExamEvidence(part, facts) == {[fact |-> f, text |-> state[part][f].text, covers |-> state[part][f].covers] : f \in facts}

ExamLink(part) == state.source # Unset /\ state.source = ExamMaps[part].pdf

TargetReviewed(map, q) ==
  /\ q.month \in map.months /\ q.dept \in DOMAIN map.departments
  /\ map.departments[q.dept].route = q.route

ExamResponse(q) ==
  LET map == ExamMaps["v1"]
  IN IF ~TargetReviewed(map, q) THEN ExamOnly("not_covered")
     ELSE IF state.v1 = Unset THEN ExamOnly(IF "v1" \in failed THEN "unavailable" ELSE "not_covered")
     ELSE IF state.plans.pdf # map.pdf THEN ExamOnly("unavailable")
     ELSE Exam("available", ExamEvidence("v1", map.shown), ExamLink("v1"))

ExamResponseV2(q) ==
  LET map == ExamMaps["v2"]
  IN IF q.month \notin map.months THEN ExamOnly("not_covered")
     ELSE IF state.v2 = Unset THEN ExamOnly("unavailable")
     ELSE IF ~TargetReviewed(map, q) THEN ExamOnly("not_covered")
     ELSE IF state.plans.pdf # map.pdf THEN ExamOnly("unavailable")
     ELSE IF q.course # Unset /\ q.course \notin map.departments[q.dept].courses
     THEN ExamOnly("not_covered_course")
     ELSE IF map.departments[q.dept].written \notin {"held", "not_held"} THEN ExamOnly("unavailable")
     ELSE LET fields == map.departments[q.dept].fields
          IN Exam("available", ExamEvidence("v2", (UNION {fields[x] : x \in DOMAIN fields}) \ {YearFact}),
                  ExamLink("v2"))

ReportServiceReady == state.plans # Unset /\ state.scopes # Unset /\ "report" \notin failed

\* The document is selected anew, and the reviewed evidence read anew, each time.
DemoContext ==
  /\ entry.ready /\ state.plans.pdf = entry.pdf
  /\ AuditPasses /\ entry.kb = state.plans.kb
  /\ Kbs[kbFile].pages = state.scopes.pages
  /\ state.plans.facts \subseteq DOMAIN Kbs[kbFile].facts

DateFacts(q) ==
  IF state.dates = Unset \/ q.month \notin DOMAIN state.dates.quotes THEN {}
  ELSE DOMAIN state.dates.quotes[q.month]

DateEvidence(q) ==
  {[fact |-> f, text |-> Kbs[kbFile].facts[f].text, quote |-> state.dates.quotes[q.month][f],
    link |-> state.source # Unset] : f \in DateFacts(q)}

OptionAccepted(q) == q.course # Unset => q.exam = "v2"

RequirementsServed(q) ==
  /\ OptionAccepted(q) /\ ReportServiceReady /\ DemoContext
  /\ state.dates # Unset => state.dates.pdf = state.plans.pdf
  /\ DateFacts(q) \subseteq state.plans.facts

BaseRequirementsRoute(q) ==
  /\ phase = "serving"
  /\ delivered' = IF ~RequirementsServed(q)
                  THEN [query |-> q, served |-> FALSE, pdf |-> Unset, dates |-> {}, exam |-> ExamOnly("none")]
                  ELSE [query |-> q, served |-> TRUE, pdf |-> Kbs[kbFile].pdf, dates |-> DateEvidence(q),
                        exam |-> IF q.exam = "v1" THEN ExamResponse(q)
                                 ELSE IF q.exam = "v2" THEN ExamResponseV2(q) ELSE ExamOnly("none")]
  /\ UNCHANGED <<settings, entry, kbFile, pdfFile, phase, audited, state, failed, changes, moved>>

StartNext ==
  \/ PublishCorpus \/ RewriteKbFile \/ RewritePdfFile
  \/ LoadReportPlans \/ AuditPart \/ ReadPart \/ LoadSourceDocument
  \/ \E q \in BaseQueries : BaseRequirementsRoute(q)

-----------------------------------------------------------------------------
(* Properties.                                                             *)

ExamMapOf(q) == ExamMaps[q.exam]

\* Whatever was published or rewritten while the service read and ran, the
\* examinations shown are those reviewed, of the target's department, from the
\* document of the evidence they stand beside, and a link to the local PDF leads
\* to that document; and a highlighted date is a quotation of the text it is
\* shown in, unless the corpus was touched since the service started.
PresentationsStand ==
  delivered # Unset /\ delivered.served =>
    LET q == delivered.query IN
    /\ delivered.exam.status = "available" =>
         /\ ExamMapOf(q).pdf = delivered.pdf
         /\ \A e \in delivered.exam.evidence :
              /\ e.text = ExamMapOf(q).records[e.fact].text
              /\ q.dept \in e.covers
    /\ delivered.exam.link \/ (\E e \in delivered.dates : e.link) => state.source = delivered.pdf
    /\ ~moved => \A e \in delivered.dates : e.quote = e.text
=============================================================================
