--------------------------- MODULE ApplicantReport ---------------------------
(***************************************************************************)
(* One applicant report, from the request to the published report          *)
(* (reasoning/applicant_report.py, reviewed_report_evidence.py).  The      *)
(* reviewed plan is loaded, the corpus is audited, the KB file is read     *)
(* again and every reviewed fact is materialised from it, the rules are    *)
(* decided (RuleDecisions), the policies of the plan are looked up, and    *)
(* the report audits itself before it is returned.  The KB file may be     *)
(* rewritten at any time.  A request `via` a retrieved evidence pack       *)
(* instead of the corpus ends with the cited answer.                       *)
(***************************************************************************)
EXTENDS RuleDecisions

CONSTANTS
  Requests,       \* [via, plan, profile, query, of, roles, registered, selects]; the
                  \* query [targets, colleges, categories] is what the question names,
                  \* `selects` counts documents, plans and page scopes it selects
  Facts,          \* facts a KB may hold
  Revisions,      \* revisions of the KB file of the plan's document
  FactChoices,    \* what may be known of the condition facts, per set of them asked for
  Contents,       \* per revision and fact: "reviewed" (pages, text and scope), "changed" or "absent"
  KbDefect,       \* per revision: "identity", "page_scope", "kb_quality" or "none"
  PageRoutes,     \* per fact: the programmes' routes its pages are reviewed for; none
                  \* if they are about the admission of everybody
  CommonTerms     \* the terms the common list of materials is reviewed for

VARIABLES
  stage,    \* the last stage that was completed, or "refused"
  refusal,  \* why it was refused
  request,
  kb,       \* the KB file: the revision it holds now
  bundle,   \* evidence: [kb, records], the records as fact -> owners
  decisions, resolution, analysis, trace, answer, report

vars == <<stage, refusal, request, kb, bundle, decisions, resolution, analysis,
          trace, answer, report>>

plan == request.plan
profile == request.profile

-----------------------------------------------------------------------------
(* Policies of the plan.  A policy that is absent is the empty set of its  *)
(* entries; the two policies of one entry each are a fact or NoName.       *)

OverlapFree(entries) ==
  \A d, e \in entries :
    d # e /\ d.target = e.target /\ d.parent = e.parent
      => d.route # e.route /\ NoName \notin {d.route, e.route}

PoliciesAccepted(p) ==
  /\ OverlapFree(p.evaluation)
  /\ \A d, e \in p.allocation : <<d.target, d.parent>> = <<e.target, e.parent>> => d = e
  /\ \A d, e \in p.program : d.route = e.route => d = e

Lookup(entries, complete, Fits(_)) ==
  IF ~complete THEN [status |-> "needs_information", evidence |-> {}]
  ELSE IF \E e \in entries : Fits(e)
       THEN [status |-> "confirmed",
             evidence |-> {(CHOOSE e \in entries : Fits(e)).fact}]
       ELSE [status |-> "not_covered", evidence |-> {}]

InScope(entries, app) ==
  {e \in entries : e.target = app.target /\ e.parent = app.college}

LanguageScoreAllocation(p, app) ==
  Lookup(p.allocation, NoName \notin {app.target, app.college},
         LAMBDA e : e \in InScope(p.allocation, app))

LanguageEvaluation(p, app) ==
  LET scoped == InScope(p.evaluation, app)
      routeNeeded == app.route = NoName /\ \E e \in scoped : e.route # NoName
  IN Lookup(scoped, NoName \notin {app.target, app.college} /\ ~routeNeeded,
            LAMBDA e : e.route \in {NoName, app.route})

ProgramLanguageCondition(p, app) ==
  Lookup(p.program, NoName \notin {app.route, app.term},
         LAMBDA e : e.route = app.route /\ e.term = app.term)

\* Applicability of the items every applicant submits (TRUE) and of those that
\* depend on the credential the applicant relies on (FALSE).
ApplicationMaterials(app) ==
  [common \in BOOLEAN |->
     IF app.term = NoName THEN "needs_information"
     ELSE IF app.term \notin CommonTerms THEN "not_covered"
     ELSE IF common \/ (app.credentials = 1 /\ app.basis = "direct") THEN "required"
     ELSE IF app.credentials = 1 /\ app.basis = "review" THEN "eligibility_review_path"
     ELSE "needs_information"]

\* Which step of the conversion of the submitted score gives up, if one does.
LanguageScoreConversion(app) ==
  IF app.scoreless THEN "not_required"
  ELSE IF SelectedLanguageResult(app) = 0 THEN "missing_selection"
  ELSE app.score

-----------------------------------------------------------------------------
(* Evidence: the records a plan needs, each with the rules and policies it *)
(* is evidence for.                                                        *)

Owner(policy, key) == [policy |-> policy, key |-> key]

Owners(p, f) ==
  {Owner("rule", r) : r \in {x \in DOMAIN p.rule : f \in p.rule[x].bindings}}
  \cup {Owner("conversion", NoName) : x \in {p.conversion} \cap {f}}
  \cup {Owner("materials", NoName) : x \in {p.materials} \cap {f}}
  \cup {Owner("allocation", e.target) : e \in {x \in p.allocation : x.fact = f}}
  \cup {Owner("evaluation", e.target) : e \in {x \in p.evaluation : x.fact = f}}
  \cup {Owner("program", e.route) : e \in {x \in p.program : x.fact = f}}

Records(p) == [f \in {x \in Facts : Owners(p, x) # {}} |-> Owners(p, f)]

\* A record is of pages reviewed for the route of a programme exactly if it is
\* evidence for the condition of that programme.
InPageScope(p, f) ==
  \A o \in Owners(p, f) : IF o.policy = "program" THEN o.key \in PageRoutes[f] ELSE PageRoutes[f] = {}

\* Every record is evidence for something.
RecordAccepted(owners) == owners # {}
BundleAccepted(records) ==
  DOMAIN records # {} /\ \A f \in DOMAIN records : RecordAccepted(records[f])

\* A program condition that could not be confirmed is not shown: neither its
\* policy nor the records that are evidence for nothing else.
ProgramHidden(p, app) ==
  p.program # {} /\ ProgramLanguageCondition(p, app).status # "confirmed"

\* Mutant: the policy is shown although its records are not.
WholePlan(p, app) == p

VisiblePlan(p, app) ==
  IF ProgramHidden(p, app) THEN [p EXCEPT !.program = {}] ELSE p

VisibleRecords(p, app, records) ==
  IF ~ProgramHidden(p, app) THEN records
  ELSE LET Shown(f) == {o \in records[f] : o.policy # "program"}
       IN [f \in {x \in DOMAIN records : Shown(x) # {}} |-> Shown(f)]

-----------------------------------------------------------------------------
(* Stages.                                                                 *)

Refuse(reason) ==
  /\ stage' = "refused" /\ refusal' = reason
  /\ UNCHANGED <<request, kb, bundle, decisions, resolution, analysis, trace, answer, report>>

Init ==
  /\ stage = "asked" /\ refusal = "none"
  /\ request \in Requests
  /\ kb = request.registered
  /\ bundle = [kb |-> kb, records |-> <<>>]
  /\ decisions = <<>> /\ resolution = <<>> /\ analysis = <<>>
  /\ trace = <<>> /\ answer = <<>> /\ report = <<>>

\* Someone else: the KB file is written again, with another revision.
RewriteKb ==
  /\ stage \in {"planned", "audited"}
  /\ \E v \in Revisions \ {kb} : kb' = v
  /\ UNCHANGED <<stage, refusal, request, bundle, decisions, resolution, analysis,
                 trace, answer, report>>

LoadPlan ==
  /\ stage = "asked"
  /\ IF PlanAccepted(plan) /\ PoliciesAccepted(plan)
     THEN /\ stage' = "planned"
          /\ UNCHANGED <<refusal, request, kb, bundle, decisions, resolution,
                         analysis, trace, answer, report>>
     ELSE Refuse("plan")

Audit ==
  /\ stage = "planned" /\ request.via = "corpus"
  /\ IF request.selects # <<1, 1, 1>> THEN Refuse("selection")
     ELSE IF kb # request.registered THEN Refuse("audit")
     ELSE /\ stage' = "audited"
          /\ UNCHANGED <<refusal, request, kb, bundle, decisions, resolution,
                         analysis, trace, answer, report>>

\* Mutant: the audit is trusted, the file is not compared again.
PrepareAudited ==
  /\ stage = "audited"
  /\ stage' = "prepared" /\ bundle' = [kb |-> kb, records |-> Records(plan)]
  /\ UNCHANGED <<refusal, request, kb, decisions, resolution, analysis, trace, answer, report>>

PrepareEvidence ==
  /\ stage = "audited"
  /\ IF KbDefect[kb] # "none" THEN Refuse("kb_scope")
     ELSE IF kb # request.registered \/ kb # plan.kb THEN Refuse("kb_hash")
     ELSE IF \E f \in DOMAIN Records(plan) : Contents[kb][f] # "reviewed" \/ ~InPageScope(plan, f)
     THEN Refuse("facts")
     ELSE IF ~BundleAccepted(Records(plan)) THEN Refuse("contract")
     ELSE /\ stage' = "prepared"
          /\ bundle' = [kb |-> kb, records |-> Records(plan)]
          /\ UNCHANGED <<refusal, request, kb, decisions, resolution, analysis,
                         trace, answer, report>>

\* Direct evidence: every record of the bundle, as primary.
DirectEvidence ==
  [via |-> "direct", of |-> "this question",
   roles |-> [f \in Facts |-> IF f \in DOMAIN bundle.records THEN "primary" ELSE "absent"]]

\* What the rules are bound to.
Pack ==
  IF request.via = "pack" THEN [via |-> "pack", of |-> request.of, roles |-> request.roles]
  ELSE DirectEvidence

\* Categories the plan has no reviewed rules for.
IntentUncovered ==
  request.via = "corpus"
    /\ (request.query.categories = {} \/ ~(request.query.categories \subseteq plan.covers))

Decide ==
  /\ stage = IF request.via = "pack" THEN "planned" ELSE "prepared"
  /\ IF IntentUncovered THEN Refuse("question")
     ELSE IF \/ request.via = "corpus" /\ bundle.records # Records(plan)
             \/ \E r \in DOMAIN plan.rule : EvidenceRefused(Pack, plan.rule[r])
     THEN Refuse("evidence")
     ELSE LET ds == [r \in DOMAIN plan.rule |->
                       Decision(profile, request.query, Pack, plan.rule[r])]
          IN IF \E r \in DOMAIN ds : ~DecisionReconciles(plan.rule[r], ds[r])
             THEN Refuse("contract")
             ELSE /\ stage' = "decided" /\ decisions' = ds
                  /\ UNCHANGED <<refusal, request, kb, bundle, resolution, analysis,
                                 trace, answer, report>>

Resolve ==
  /\ stage = "decided"
  /\ IF Ambiguous(plan, decisions) THEN Refuse("ambiguous")
     ELSE LET res == Resolution(plan, decisions)
          IN IF ~DecisionsFit(plan, decisions)
                \/ ~ResolutionReconciles(plan, decisions, res)
             THEN Refuse("contract")
             ELSE /\ stage' = "resolved" /\ resolution' = res
                  /\ UNCHANGED <<refusal, request, kb, bundle, decisions, analysis,
                                 trace, answer, report>>

Analyze ==
  /\ stage = "resolved"
  /\ LET an == Analysis(plan, resolution)
     IN IF ~AnalysisReconciles(plan, resolution, an) THEN Refuse("contract")
        ELSE /\ stage' = "analysed" /\ analysis' = an
             /\ UNCHANGED <<refusal, request, kb, bundle, decisions, resolution, trace, answer, report>>

BuildTrace ==
  /\ stage = "analysed"
  /\ LET tr == DeriveTrace(plan, analysis)
     IN IF ~TraceAccepted(plan, decisions, resolution, analysis, tr) THEN Refuse("contract")
        ELSE /\ stage' = "traced" /\ trace' = tr
             /\ UNCHANGED <<refusal, request, kb, bundle, decisions, resolution,
                            analysis, answer, report>>

BuildAnswer ==
  /\ stage = "traced"
  /\ LET a == CitedAnswer(plan, decisions, resolution, analysis, trace)
     IN IF ~AnswerAccepted(resolution, trace, a) THEN Refuse("contract")
        ELSE /\ stage' = "answered" /\ answer' = a
             /\ UNCHANGED <<refusal, request, kb, bundle, decisions, resolution,
                            analysis, trace, report>>

Inventory(a) ==
  UNION ({a.findings[r] : r \in DOMAIN a.findings} \cup {a.warnings[p] : p \in DOMAIN a.warnings})

BuiltReport ==
  LET seen == VisiblePlan(plan, profile)
  IN [plan |-> seen,
      records |-> VisibleRecords(plan, profile, bundle.records),
      conversion |-> IF plan.conversion = NoName THEN "none"
                     ELSE LanguageScoreConversion(profile),
      allocation |-> IF plan.allocation = {} THEN {}
                     ELSE {LanguageScoreAllocation(plan, profile)},
      evaluation |-> IF plan.evaluation = {} THEN {}
                     ELSE {LanguageEvaluation(plan, profile)},
      program |-> IF seen.program = {} THEN {}
                  ELSE {ProgramLanguageCondition(plan, profile)},
      materials |-> IF plan.materials = NoName THEN <<>>
                    ELSE ApplicationMaterials(profile)]

\* A result is there exactly for a policy that is there, and says what one
\* looks up again in the plan that is shown.
PolicyReconciles(entries, results, expected) ==
  IF entries = {} THEN results = {} ELSE results = {expected}

ReportReconciles(rp) ==
  LET p == rp.plan
      tr == DeriveTrace(p, Analysis(p, Resolution(p, decisions)))
  IN /\ rp.records = Records(p)
     /\ PolicyReconciles(p.allocation, rp.allocation, LanguageScoreAllocation(p, profile))
     /\ PolicyReconciles(p.evaluation, rp.evaluation, LanguageEvaluation(p, profile))
     /\ PolicyReconciles(p.program, rp.program, ProgramLanguageCondition(p, profile))
     /\ p.conversion = NoName <=> rp.conversion = "none"
     /\ p.materials = NoName <=> rp.materials = <<>>
     /\ tr = trace
     /\ answer = CitedAnswer(p, decisions, Resolution(p, decisions), analysis, tr)
     /\ \A r \in DOMAIN decisions : decisions[r].evidence = p.rule[r].bindings
     /\ Inventory(answer) = UNION {{<<r, f>> : f \in p.rule[r].bindings} : r \in DOMAIN p.rule}

\* A report takes nothing over: what it shows is validated again, part by part.
SourcesAccepted(rp) ==
  /\ PlanAccepted(rp.plan) /\ PoliciesAccepted(rp.plan) /\ BundleAccepted(rp.records)
  /\ TraceAccepted(rp.plan, decisions, resolution, analysis, trace)
  /\ AnswerAccepted(resolution, trace, answer)

BuildReport ==
  /\ stage = "answered" /\ request.via = "corpus"
  /\ IF ~SourcesAccepted(BuiltReport) \/ ~ReportReconciles(BuiltReport) THEN Refuse("contract")
     ELSE /\ stage' = "reported" /\ report' = BuiltReport
          /\ UNCHANGED <<refusal, request, kb, bundle, decisions, resolution,
                         analysis, trace, answer>>

Next ==
  \/ RewriteKb \/ LoadPlan \/ Audit \/ PrepareEvidence \/ Decide \/ Resolve
  \/ Analyze \/ BuildTrace \/ BuildAnswer \/ BuildReport

Spec == Init /\ [][Next]_vars

-----------------------------------------------------------------------------
(* Properties.                                                             *)

\* What the profile becomes when more is told: known facts stay, unknown ones
\* may be filled in, a first credential and a first language result may be added.
Completions(p) ==
  {[p EXCEPT !.facts = g, !.credentials = c, !.languages = l] :
     g \in {x \in FactChoices[DOMAIN p.facts] : \A f \in DOMAIN p.facts :
              ProfileValue(p, f) # Unknown => x[f] = p.facts[f]},
     c \in IF p.credentials = 0 THEN {0, 1} ELSE {p.credentials},
     l \in IF p.languages = <<>> THEN {<<>>, <<"yes">>} ELSE {p.languages}}

DecisionsFor(p) ==
  [r \in DOMAIN plan.rule |-> Decision(p, request.query, Pack, plan.rule[r])]

\* No stage hands on what a later stage, or the self-audit of the report,
\* refuses: the validators recompute status, diagnostics, evidence, overrides,
\* dependencies, citations and the hidden program condition, and always agree.
ReportStagesReconcile == refusal # "contract"

\* A complete answer is final: whatever else the applicant tells of facts that
\* were left open, the same rules are active and the answer is still complete.
CompleteAnswersAreFinal ==
  stage \in {"answered", "reported"} /\ answer.status = "complete" =>
    \A p \in Completions(profile) :
      LET ds == DecisionsFor(p)
          res == Resolution(plan, ds)
          an == Analysis(plan, res)
      IN res = resolution /\ CitedAnswer(plan, ds, res, an, DeriveTrace(plan, an)) = answer

\* The answer says why a rule is open, and what it asks for is enough: when no
\* notice names the rule, any profile in which the asked facts are known decides it.
PendingIsExplained ==
  stage \in {"answered", "reported"} =>
    \A r \in DOMAIN resolution : resolution[r].disposition = "pending" =>
      /\ answer.status # "complete"
      /\ \/ \E n \in answer.notices : r \in n.rules
         \/ LET asked == {x[2] : x \in {y \in answer.missing : y[1] = r}}
            IN /\ asked # {}
               /\ \A p \in Completions(profile) :
                    (\A f \in asked \cap Fields : ProfileValue(p, f) # Unknown)
                      => DecisionsFor(p)[r].status # "needs_information"

\* An answer that says "complete" never has to be taken back, and one that does
\* not says what it waits for (build_cited_answer, evaluate_condition).
AnswersSayWhatIsOpen == CompleteAnswersAreFinal /\ PendingIsExplained

\* No rule is lost.  One that was overridden has an active rule of its subject
\* with a narrower scope: a chain of overrides never ends with nothing in force.
\* And a plan is refused for contradictory conditions only if no applicant could
\* ever meet them: the interval and equality checks never refuse a usable rule.
NoRuleIsLost ==
  /\ resolution # <<>> =>
    \A r \in DOMAIN resolution : resolution[r].disposition = "overridden" =>
      \E s \in DOMAIN resolution :
        /\ resolution[s].disposition = "active" /\ plan.subject[s] = plan.subject[r]
        /\ Specificity[plan.rule[s].scope.type] > Specificity[plan.rule[r].scope.type]
  /\ refusal = "plan" =>
    \A r \in DOMAIN plan.rule :
      plan.rule[r].mode = "all" /\ ~PredicatesConsistent(plan.rule[r].predicates) =>
        \A g \in FactChoices[DOMAIN profile.facts] :
          Combine("all", Image(Outcomes(
            [facts |-> g, credentials |-> 1, languages |-> <<"yes">>], plan.rule[r]))) # "confirmed"

\* The evidence is the reviewed text although the KB file is read twice and may
\* be rewritten in between, and a citation is of a record that is shown with the
\* rule it is cited for.
EvidenceReviewed ==
  stage \notin {"asked", "planned", "audited", "refused"} /\ request.via = "corpus" =>
    /\ bundle.kb = plan.kb
    /\ \A f \in DOMAIN bundle.records : Contents[bundle.kb][f] = "reviewed"
    /\ stage = "reported" => \A x \in Inventory(answer) :
         x[2] \in DOMAIN report.records /\ Owner("rule", x[1]) \in report.records[x[2]]

=============================================================================
