-------------------------- MODULE DemoRequirements ---------------------------
(***************************************************************************)
(* The form of the demo (service/demo_requirements.py): an applicant picks  *)
(* a target from the catalogue of the reviewed plans, is shown what the     *)
(* plan requires of everybody, and what is filled in is compared with it.   *)
(* A form that asks for preparation checks is decided like a report         *)
(* (ApplicantReport); the checks are read off its trace.                    *)
(*                                                                         *)
(* The demo compares rules and target on its own, besides the evaluator of  *)
(* the rules, and writes verdicts from single conditions of rules that are  *)
(* still open: both must agree with what the rules say once all is known.   *)
(***************************************************************************)
EXTENDS ApplicantReport

CONSTANTS
  Forms,         \* forms an applicant may submit
  DetailedDocument, \* the document and the KB the preparation checks are written for
  DetailedKb,
  GuideFacts     \* ["math" or "external" -> facts] the English guide is written from

\* A request of the demo has a `form`: target [document, month, college, dept,
\* route], answers that may be Unknown, what is said of the materials, and which
\* of the two preparation sections it asks for.  Its plan tells its `document`,
\* `months` and the `order` of its rules; rules are named <<stem, term>> or
\* <<stem, variant, term>>.

VARIABLES
  base,        \* what the plan requires at the target, whoever applies
  comparison   \* [items, checks]: the answer

demoVars == <<base, comparison>>

form == request.form
FromDemo == "form" \in DOMAIN request

-----------------------------------------------------------------------------
(* The form, as its validators accept it, and the profile made of it.      *)

ReviewBases == {"fifteen years", "three years"}
TargetFields == {"month", "dept", "route"}
Term(f) == IF f.month = 4 THEN "apr" ELSE "sep"

FormAccepted(f) ==
  /\ f.score # Unknown \/ f.taken # Unknown => f.kind # Unknown
  /\ f.completed # Unknown => f.state = "completed"
  /\ f.expected # Unknown => f.state = "expected"
  /\ f.dispatched # Unknown /\ f.arrival # Unknown => f.arrival >= f.dispatched
  /\ f.review # Unknown => f.basis \in ReviewBases
  /\ {f.qr, f.certificate} # {Unknown} => f.kind = "toeic"
  /\ {f.report, f.g179} # {Unknown} => f.kind = "toefl"

\* What the profile's own validators ask of the credential and the result.
ProfileAccepted(f) ==
  /\ f.state = "completed" => f.expected = Unknown
  /\ f.state = "expected" => f.completed = Unknown
  /\ f.state = "not_completed" => {f.completed, f.expected} = {Unknown}
  /\ f.score # Unknown => f.kind # Unknown

AnswerFields == {"basis", "state", "completed", "expected", "arrival", "online",
                 "kind", "taken", "pdf", "qr", "certificate", "report", "g179"}
NeverAsked == {"country", "method"}
CredentialAnswers == {"basis", "state", "completed", "expected"}
LanguageAnswers == {"kind", "score", "taken", "pdf", "qr", "certificate", "report", "g179"}

DemoApplicantProfile(f) ==
  [facts |-> [x \in AnswerFields \cup NeverAsked \cup TargetFields |->
                IF x \in NeverAsked \/ f[x] = NoName THEN Unknown ELSE f[x]],
   credentials |-> IF \E x \in CredentialAnswers : f[x] # Unknown THEN 1 ELSE 0,
   basis |-> IF f.basis = Unknown THEN "none"
             ELSE IF f.basis \in ReviewBases THEN "review" ELSE "direct",
   languages |-> IF \E x \in LanguageAnswers : f[x] # Unknown THEN <<"unsaid">> ELSE <<>>,
   target |-> f.dept, college |-> f.college, route |-> f.route, term |-> f.month,
   scoreless |-> FALSE, score |-> "converted"]

-----------------------------------------------------------------------------
(* The catalogue: the targets the plan's scopes and policies name.         *)

DepartmentRules(p) == {r \in DOMAIN p.rule : p.rule[r].scope.type = "department"}

CollegeCatalog(p) ==
  LET ofRules == UNION {{<<p.rule[r].scope.parent, d>> : d \in p.rule[r].scope.targets} :
                          r \in DepartmentRules(p)}
      ofPolicies == {<<e.parent, e.target>> : e \in p.allocation \cup p.evaluation}
  IN ofRules \cup ofPolicies

\* The route of individual reviews is none a target is applied for by.
Routes(p, college, dept) ==
  (UNION {{q.value : q \in {x \in p.rule[r].predicates : x.field = "route" /\ x.op = "equals"}} :
            r \in {x \in DepartmentRules(p) : p.rule[x].scope.parent = college
                                              /\ dept \in p.rule[x].scope.targets}}
   \cup {e.route : e \in {x \in p.evaluation : x.parent = college /\ x.target = dept}})
    \ {NoName, "individual review"}

TargetOffered(p, f) ==
  /\ f.document = p.document /\ f.month \in p.months
  /\ <<f.college, f.dept>> \in CollegeCatalog(p)
  /\ LET routes == Routes(p, f.college, f.dept)
     IN IF routes = {} THEN f.route = NoName ELSE f.route \in routes

-----------------------------------------------------------------------------
(* Rules at a target, told from the form alone.                            *)

PredicateAccepts(value, q) ==
  /\ q.op = "equals" => value = q.value
  /\ q.op = "not_equals" => value # q.value
  /\ q.op # "contains"

RuleMatchesTarget(rule, f) ==
  /\ rule.scope.parent \in {NoName, f.college}
  /\ rule.scope.targets = {} \/ f.dept \in rule.scope.targets
  /\ \A q \in rule.predicates : q.field \in TargetFields => PredicateAccepts(f[q.field], q)

HasProfilePredicate(rule) == \E q \in rule.predicates : q.field \notin TargetFields

Matching(f, stems) ==
  {r \in DOMAIN plan.rule : r[1] \in stems /\ RuleMatchesTarget(plan.rule[r], f)}

-----------------------------------------------------------------------------
(* What is required of everybody.                                          *)

Requirement(category, of, status, facts) ==
  [category |-> category, of |-> of, status |-> status, facts |-> facts]

DateRequirements(f) ==
  {Requirement("dates", r, IF r[1] = "materials-arrival-window" THEN "needs_information" ELSE "required",
               plan.rule[r].bindings) :
     r \in Matching(f, {"application-window", "materials-arrival-window"})}

Material(common) == <<"material", IF common THEN "of everybody" ELSE "of a path">>

MaterialRequirements ==
  IF plan.materials = NoName THEN {}
  ELSE {Requirement("materials", Material(common), IF common THEN "required" ELSE "needs_information", {plan.materials}) :
          common \in BOOLEAN}

EligibilityRequirement(f) ==
  IF Matching(f, {"direct-path-1"}) = {} THEN {}
  ELSE LET r == CHOOSE x \in Matching(f, {"direct-path-1"}) : TRUE
       IN {Requirement("eligibility", r, "needs_information", plan.rule[r].bindings)}

\* In the order of the plan; one that rests on facts already shown is left out.
LanguageRules(f) ==
  LET wanted == Matching(f, {"external-score-required", "english-submission"})
      FactsBefore(i) ==
        UNION {plan.rule[plan.order[j]].bindings : j \in {x \in 1 .. i - 1 : plan.order[x] \in wanted}}
  IN {plan.order[i] :
        i \in {x \in DOMAIN plan.order : /\ plan.order[x] \in wanted
                                         /\ ~(plan.rule[plan.order[x]].bindings \subseteq FactsBefore(x))}}

\* The guide is shown when every rule it was written from is there, with the
\* reviewed date, on exactly the facts it was written from.
PreparationGuide(f) ==
  LET math == f.dept = "math"
      term == Term(f)
      rules == IF math THEN {<<"math-written-exam", term>>}
               ELSE {<<"approved-kind", "toeic", term>>, <<"report", "toefl", term>>, <<"test-date", term>>,
                     <<"online-pdf", term>>, <<"external-score-required", term>>}
      facts == GuideFacts[IF math THEN "math" ELSE "external"]
  IN IF /\ f.document = DetailedDocument /\ plan.document = f.document
        /\ rules \subseteq {r \in DOMAIN plan.rule : RuleMatchesTarget(plan.rule[r], f)}
        /\ math \/ \E q \in plan.rule[<<"test-date", term>>].predicates : q.field = "taken" /\ q.value = 1
        /\ UNION {plan.rule[r].bindings : r \in rules} = facts
        /\ facts \subseteq DOMAIN bundle.records
     THEN {Requirement("language", <<"guide">>, IF math THEN "not_applicable" ELSE "conditional", facts)}
     ELSE {}

LanguageRequirements(f) ==
  LET found == {Requirement("language", r, IF HasProfilePredicate(plan.rule[r]) THEN "conditional" ELSE "required",
                            plan.rule[r].bindings) : r \in LanguageRules(f)}
               \cup PreparationGuide(f)
               \cup {Requirement("language", <<"policy", e.fact>>, "conditional", {e.fact}) :
                       e \in {x \in plan.allocation : x.parent = f.college /\ x.target = f.dept}
                             \cup {x \in plan.evaluation : /\ x.parent = f.college /\ x.target = f.dept
                                                           /\ x.route \in {NoName, f.route}}}
  IN IF found # {} THEN found
     ELSE {Requirement("language", <<"nothing reviewed">>, "not_covered", {})}

BaseRequirements(f) ==
  DateRequirements(f) \cup MaterialRequirements \cup EligibilityRequirement(f) \cup LanguageRequirements(f)

Evidence(requirements) == UNION {q.facts : q \in requirements}

-----------------------------------------------------------------------------
(* What was filled in, set beside it.                                      *)

QualificationRules(f) ==
  LET Asked(r, field) == {q.value : q \in {x \in plan.rule[r].predicates : x.field = field /\ x.op = "equals"}}
  IN {r \in DOMAIN plan.rule :
        /\ f.basis # Unknown /\ RuleMatchesTarget(plan.rule[r], f)
        /\ f.basis \in Asked(r, "basis")
        /\ f.state # Unknown /\ Asked(r, "state") # {} => f.state \in Asked(r, "state")}

RulesEvidence(rules) == UNION {plan.rule[r].bindings : r \in rules}

DirectPaths == {"direct-path-1", "direct-path-3"}

EducationStatus(f) ==
  IF f.basis = Unknown THEN "needs_information"
  ELSE IF QualificationRules(f) = {} THEN "not_covered"
  ELSE IF \A r \in QualificationRules(f) : r[1] \notin DirectPaths THEN "needs_review"
  ELSE "possible_match"

MaterialStatus(applicability, preparation) ==
  IF applicability = "eligibility_review_path" THEN "needs_review"
  ELSE IF applicability \in {"needs_information", "not_covered"} THEN applicability
  ELSE IF preparation = "available" THEN "recorded" ELSE "needs_information"

ReadinessGroup(status) ==
  IF status \in {"recorded", "possible_match", "not_applicable"} THEN "recorded"
  ELSE IF status = "needs_information" THEN "action_required" ELSE "review_required"

Item(category, of, status, official, facts) ==
  [category |-> category, of |-> of, status |-> status, group |-> ReadinessGroup(status),
   official |-> official, facts |-> facts]

ComparisonItems(f, requirements) ==
  LET Recorded(told) == IF told THEN "recorded" ELSE "needs_information"
      Of(category) == {q \in requirements : q.category = category}
      applicability == ApplicationMaterials(DemoApplicantProfile(f))
  IN {Item("education", <<"credential">>, EducationStatus(f), "none", RulesEvidence(QualificationRules(f))),
      Item("english", <<"result">>, Recorded(\E x \in {"kind", "score", "taken"} : f[x] # Unknown), "none",
           Evidence(Of("language"))),
      Item("japanese", <<"background">>, Recorded(f.japanese # Unknown), "none", {})}
     \cup (IF plan.materials = NoName THEN {}
           ELSE {Item("materials", Material(common), MaterialStatus(applicability[common], f.materials[common]),
                      applicability[common], Evidence({q \in Of("materials") : q.of = Material(common)})) :
                   common \in BOOLEAN})

-----------------------------------------------------------------------------
(* Preparation checks, read off a report [decisions, resolution, analysis].*)

Check(id, status, rules) == [id |-> id, status |-> status, rules |-> rules]

Verdict(outcome) ==
  [confirmed |-> "reported_match", not_applicable |-> "action_needed",
   needs_information |-> "needs_information"][outcome]

\* The rule is there, in force or still open, undisputed, and with its evidence.
Bound(f, rp, r) ==
  /\ r \in DOMAIN plan.rule /\ RuleMatchesTarget(plan.rule[r], f)
  /\ r \notin UNION DOMAIN rp.analysis.warnings
  /\ rp.resolution[r].disposition # "overridden"
  /\ plan.rule[r].bindings \subseteq DOMAIN bundle.records

BoundInScope(f, rp, r) == Bound(f, rp, r) /\ rp.decisions[r].scope = "confirmed"

OutcomesOn(rp, r, field) ==
  LET outcomes == rp.decisions[r].outcomes
  IN [q \in {x \in DOMAIN outcomes : x.field = field} |-> outcomes[q]]

PathOf(basis) ==
  IF basis = "graduation" THEN "direct-path-1"
  ELSE IF basis = "sixteen years" THEN "direct-path-3" ELSE NoName

GraduationField(f) == IF f.state = "completed" THEN "completed" ELSE "expected"
GraduationDate(f) == IF f.state \in {"completed", "expected"} THEN f[GraduationField(f)] ELSE Unknown

\* The date lies in the days for which the university wants to be asked first.
InSpecialContact(f, rp) ==
  LET r == <<PathOf(f.basis), "special-contact", "sep">>
  IN /\ Term(f) = "sep" /\ f.state = "expected" /\ BoundInScope(f, rp, r)
     /\ Cardinality(DOMAIN OutcomesOn(rp, r, "expected")) = 2
     /\ Image(OutcomesOn(rp, r, "expected")) = {"confirmed"}

\* Mutant: the deadline is looked at first.
GraduationCheckDeadlineFirst(f, rp) ==
  LET source == <<PathOf(f.basis), f.state, Term(f)>>
  IN IF f.basis \in ReviewBases \/ Unknown \in {f.basis, f.state, GraduationDate(f)}
     THEN Check("graduation", "needs_information", {})
     ELSE IF PathOf(f.basis) = NoName \/ ~BoundInScope(f, rp, source)
     THEN Check("graduation", "not_covered", {})
     ELSE Check("graduation",
                Verdict(CHOOSE s \in Image(OutcomesOn(rp, source, GraduationField(f))) : TRUE), {source})

GraduationCheck(f, rp) ==
  LET source == <<PathOf(f.basis), f.state, Term(f)>>
      usable == /\ PathOf(f.basis) # NoName /\ f.state \in {"completed", "expected"}
                /\ BoundInScope(f, rp, source)
      dates == OutcomesOn(rp, source, GraduationField(f))
  IN IF f.basis \in ReviewBases THEN Check("graduation", "needs_information", {})
     ELSE IF Unknown \in {f.basis, f.state, GraduationDate(f)}
     THEN Check("graduation", "needs_information", IF usable THEN {source} ELSE {})
     ELSE IF ~usable \/ Cardinality(DOMAIN dates) # 1 THEN Check("graduation", "not_covered", {})
     ELSE IF InSpecialContact(f, rp)
     THEN Check("graduation", "needs_information", {<<PathOf(f.basis), "special-contact", "sep">>})
     ELSE Check("graduation", Verdict(CHOOSE s \in Image(dates) : TRUE), {source})

ArrivalCheck(f, rp) ==
  LET r == <<"materials-arrival-window", Term(f)>>
      window == OutcomesOn(rp, r, "arrival")
      At(op) == {window[q] : q \in {x \in DOMAIN window : x.op = op}}
  IN IF ~BoundInScope(f, rp, r) THEN Check("arrival", "not_covered", {})
     ELSE IF f.arrival = Unknown THEN Check("arrival", "needs_information", {r})
     ELSE IF {} \in {At("on_or_after"), At("on_or_before")} THEN Check("arrival", "not_covered", {})
     ELSE Check("arrival", IF Image(window) = {"confirmed"} THEN "reported_match"
                           ELSE IF "not_applicable" \in Image(window) THEN "action_needed"
                           ELSE "needs_information", {r})

OnlineCheck(f, rp) ==
  LET r == <<"online-steps", Term(f)>>
  IN IF ~BoundInScope(f, rp, r) THEN Check("online", "not_covered", {})
     ELSE Check("online", IF f.online = TRUE /\ rp.decisions[r].status = "confirmed" THEN "reported_match"
                          ELSE IF f.online = FALSE THEN "action_needed"
                          ELSE "needs_information", {r})

ReviewCheck(f) ==
  Check("review", IF f.review = "not_requested" THEN "action_needed" ELSE "needs_information",
        QualificationRules(f))

ApplicationChecks(f, rp) ==
  IF plan.document # DetailedDocument \/ plan.kb # DetailedKb THEN {Check("coverage", "not_covered", {})}
  ELSE {GraduationCheck(f, rp), ArrivalCheck(f, rp), OnlineCheck(f, rp)}
       \cup {ReviewCheck(f) : x \in {f.basis} \cap ReviewBases}

\* English: the rule must also still ask for what the check is worded for.
BoundTo(f, rp, r, field, value) ==
  Bound(f, rp, r) /\ \E q \in plan.rule[r].predicates : q.field = field /\ q.value = value

AnswerCheck(f, rp, field, r, value) ==
  IF ~BoundTo(f, rp, r, field, value) THEN Check(field, "not_covered", {})
  ELSE LET outcomes == Image(OutcomesOn(rp, r, field))
           status == IF f[field] = Unknown THEN "needs_information"
                     ELSE IF \/ rp.resolution[r].disposition = "pending"
                             \/ rp.decisions[r].scope # "confirmed" \/ outcomes = {}
                     THEN "not_covered"
                     ELSE IF outcomes = {"confirmed"} /\ rp.decisions[r].status = "confirmed"
                     THEN "reported_match"
                     ELSE IF outcomes = {"not_applicable"} THEN "action_needed"
                     ELSE "needs_information"
       IN Check(field, status, {r})

ApprovedKinds == {"toeic", "toefl"}

KindCheck(f, rp) ==
  LET refused == <<"unapproved-kind", f.kind, Term(f)>>
  IN IF f.kind \in {Unknown, "other"} THEN Check("kind", "needs_information", {})
     ELSE IF f.kind \in ApprovedKinds
     THEN AnswerCheck(f, rp, "kind", <<"approved-kind", f.kind, Term(f)>>, f.kind)
     ELSE IF /\ BoundTo(f, rp, refused, "kind", f.kind)
             /\ rp.decisions[refused].status = "confirmed" /\ rp.resolution[refused].disposition = "active"
     THEN Check("kind", "action_needed", {refused})
     ELSE AnswerCheck(f, rp, "kind", refused, f.kind)

ProofChecks(f, rp) ==
  LET term == Term(f)
  IN {AnswerCheck(f, rp, "taken", <<"test-date", term>>, 1), AnswerCheck(f, rp, "pdf", <<"online-pdf", term>>, TRUE)}
     \cup (IF f.kind = "toeic"
           THEN {AnswerCheck(f, rp, "qr", <<"toeic-qr", term>>, TRUE),
                 AnswerCheck(f, rp, "certificate", <<"toeic-certificate", term>>, TRUE)}
           ELSE {AnswerCheck(f, rp, "report", <<"report", f.kind, term>>, TRUE),
                 AnswerCheck(f, rp, "g179", <<"g179", f.kind, term>>, TRUE)})

EnglishChecks(f, rp) ==
  LET math == <<"math-written-exam", Term(f)>>
      kind == KindCheck(f, rp)
  IN IF f.document # DetailedDocument \/ plan.document # f.document
     THEN {Check("coverage of English", "not_covered", {})}
     ELSE IF BoundInScope(f, rp, math) /\ rp.decisions[math].status = "confirmed"
     THEN {Check("math", "not_applicable", {math})}
     ELSE {kind} \cup (IF kind.status = "reported_match" THEN ProofChecks(f, rp) ELSE {})

PreparationChecks(f, rp) ==
  (IF f.english THEN EnglishChecks(f, rp) ELSE {})
  \cup (IF f.application THEN ApplicationChecks(f, rp) ELSE {})

\* A report is built for the document the checks are written for.
AsksReport(f) == (f.english \/ f.application) /\ f.document = DetailedDocument

-----------------------------------------------------------------------------
(* Steps.  Between them a report is built as ApplicantReport says.         *)

DemoInit == base = {} /\ comparison = <<>>

RefuseForm == stage = "asked" /\ ~FormAccepted(form) /\ Refuse("form") /\ UNCHANGED demoVars

ReportForForm ==
  /\ stage = "asked" => FormAccepted(form)
  /\ stage = "prepared" => base # {} /\ AsksReport(form)
  /\ Next /\ UNCHANGED demoVars

ShowRequirements ==
  /\ stage = "prepared" /\ base = {}
  /\ IF ~TargetOffered(plan, form) THEN Refuse("target") /\ UNCHANGED demoVars
     ELSE IF ~ProfileAccepted(form) \/ ~(Evidence(BaseRequirements(form)) \subseteq DOMAIN bundle.records)
     THEN Refuse("contract") /\ UNCHANGED demoVars
     ELSE base' = BaseRequirements(form) /\ UNCHANGED <<vars, comparison>>

CompareForm ==
  /\ base # {} /\ stage = IF AsksReport(form) THEN "reported" ELSE "prepared"
  /\ LET rp == [decisions |-> decisions, resolution |-> resolution, analysis |-> analysis]
     IN comparison' = [items |-> ComparisonItems(form, base), checks |-> PreparationChecks(form, rp)]
  /\ stage' = "compared"
  /\ UNCHANGED <<base, refusal, request, kb, bundle, decisions, resolution, analysis, trace, answer, report>>

DemoNext == FromDemo /\ (RefuseForm \/ ReportForForm \/ ShowRequirements \/ CompareForm)

-----------------------------------------------------------------------------
(* Properties.                                                             *)

\* What the form may become when more is filled in.
Completing(f) ==
  {g \in Forms : FormAccepted(g) /\ \A x \in DOMAIN f : f[x] # Unknown => g[x] = f[x]}

ReportFor(f) ==
  LET ds == DecisionsFor(DemoApplicantProfile(f))
      res == Resolution(plan, ds)
  IN [decisions |-> ds, resolution |-> res, analysis |-> Analysis(plan, res)]

Definite == {"reported_match", "action_needed", "not_applicable"}

\* A check that says "matches" or "act" keeps saying so whatever else is filled
\* in, although the rules it quotes are still open (the form never tells the
\* country of a degree); no date is called a match or too late while another
\* reviewed rule covers it; the demo's own reading of the target never leaves out
\* a rule that is in force there; and what everybody is told to submit is never
\* said to be inapplicable to the one who fills in the form.
ChecksStand ==
  comparison # <<>> =>
    /\ \A c \in comparison.checks : c.status \in Definite =>
         \A g \in Completing(form) :
           \E e \in PreparationChecks(g, ReportFor(g)) : e.id = c.id /\ e.status = c.status
    /\ \A c \in comparison.checks : c.id = "graduation" /\ c.status \in Definite =>
         \A r \in QualificationRules(form) \ c.rules :
           LET dates == OutcomesOn([decisions |-> decisions], r, GraduationField(form))
           IN DOMAIN dates # {} => Image(dates) # {"confirmed"}
    /\ \A r \in DOMAIN decisions : decisions[r].status = "confirmed" => RuleMatchesTarget(plan.rule[r], form)
    /\ \A q \in base : q.category = "materials" /\ q.status = "required" =>
         \E i \in comparison.items : i.category = "materials" /\ i.of = q.of /\ i.official = "required"

=============================================================================
