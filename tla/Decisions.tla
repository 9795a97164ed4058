------------------------------ MODULE Decisions ------------------------------
(***************************************************************************)
(* The two callers of one report builder side by side: the routes that ask *)
(* for a report, or for an answer in words (GroundedAnswer), and the demo's *)
(* form (DemoRequirements).  A request is of one of them.                   *)
(***************************************************************************)
EXTENDS GroundedAnswer, DemoRequirements

OrderOperators == {"minimum", "on_or_after", "maximum", "on_or_before"}

PlanFields == {"rule", "subject", "edges", "reviewed", "kb", "covers", "conversion", "materials",
               "allocation", "evaluation", "program"}
ProfileFields == {"facts", "credentials", "languages", "basis", "target", "college", "route", "term",
                  "scoreless", "score"}

\* What the contracts of a plan and of a profile guarantee before any stage
\* (rule_contracts.py, profile.py): their fields are there, scopes are of the four
\* types, the facts compared by order are numbers or dates, and a KB may hold
\* whatever a plan is bound to.
ASSUME DecisionsAssumption ==
  \A q \in Requests :
    /\ q.via \in {"corpus", "pack"}
    /\ PlanFields \subseteq DOMAIN q.plan /\ ProfileFields \subseteq DOMAIN q.profile
    /\ NoRule \notin DOMAIN q.plan.rule
    /\ \A a, b \in DOMAIN q.plan.rule : {a, b} # NoFinding
    /\ q.profile.credentials \in Nat /\ q.profile.score # "none"
    /\ q.retrieves # {} => q.profile.target # NoName /\ q.profile.college # NoName
    /\ \A pair \in DOMAIN q.plan.reviewed : q.plan.reviewed[pair] \notin {"unreviewed", "inactive"}
    /\ {q.plan.conversion, q.plan.materials} \subseteq Facts \cup {NoName}
    /\ \A e \in q.plan.allocation \cup q.plan.evaluation \cup q.plan.program : e.fact \in Facts
    /\ \A r \in DOMAIN q.plan.rule :
         LET rule == q.plan.rule[r]
         IN /\ rule.scope.type \in DOMAIN Specificity /\ rule.bindings \subseteq Facts
            /\ rule.mode \in {"all", "any"}
            /\ \A x \in rule.predicates :
                 /\ x.field \in Fields \cap DOMAIN q.profile.facts
                 /\ x.op \in OrderOperators =>
                      x.value \in Int /\ \A g \in FactChoices[DOMAIN q.profile.facts] : g[x.field] \in Int \cup {Unknown}

\* What is read in a question is finitely many ranges of it, named by texts; a
\* text is sorted by the codes of its segments, which tell them apart, and that
\* of a year or month is a number.
ASSUME MentionsAssumption ==
  /\ \A x \in DOMAIN Code : Code[x] \in Int
  /\ \A x, y \in DOMAIN Code : Code[x] = Code[y] => x = y
  /\ \A q \in {r.question : r \in {x \in Requests : x.retrieves # {}}} :
       LET mentions == MentionCandidates(q, Catalog)
       IN /\ IsFiniteSet(mentions)
          /\ \A m \in mentions :
               /\ m.from \in Int /\ m.to \in Int /\ m.value \in Seq(DOMAIN Code)
               /\ 1 <= m.from /\ m.from < m.to /\ m.to <= Len(q) + 1
               /\ m.kind \in {"intake_year", "intake_month"} => Number(m.value) \in Int

\* What a form tells (DemoApplicantComparisonRequest) and the profile made of it,
\* and what the reviewed plan of the detailed document holds
\* (demo_config/reviewed_report_plan.json), as far as the checks of the demo were
\* written for it: each rule demands all its conditions, is not of a whole college
\* and compares a target's fields for equality; no two rules are of one subject,
\* so that none overrides or contradicts another; mathematics is told by the
\* target alone; and the rules that name a date of graduation for a basis that is
\* checked are the one the check reads and the one of the special contact.
FormFields ==
  AnswerFields \cup TargetFields
    \cup {"document", "college", "score", "review", "dispatched", "english", "application", "materials", "japanese"}

AsksFor(rule, field, value) ==
  \E q \in rule.predicates : q.field = field /\ q.op = "equals" /\ q.value = value

DatesReviewed(p) ==
  \A r \in DOMAIN p.rule, basis \in {"graduation", "sixteen years"}, x \in {"completed", "expected"} :
    AsksFor(p.rule[r], "basis", basis) /\ x \in FieldsOf(p.rule[r]) =>
      \E term \in {[month |-> 4, name |-> "apr"], [month |-> 9, name |-> "sep"]} :
        /\ AsksFor(p.rule[r], "month", term.month)
        /\ \/ r = <<PathOf(basis), x, term.name>>
           \/ /\ r = <<PathOf(basis), "special-contact", "sep">> /\ term.name = "sep" /\ x = "expected"
              /\ p.rule[r].scope.type = "global"
              /\ Cardinality({q \in p.rule[r].predicates : q.field = x}) = 2

DetailedPlanReviewed(p) ==
  /\ p.edges = {} /\ \A r, s \in DOMAIN p.rule : p.subject[r] = p.subject[s] => r = s
  /\ \A r \in DOMAIN p.rule :
       /\ p.rule[r].mode = "all" /\ p.rule[r].scope.type # "college"
       /\ \A q \in p.rule[r].predicates : q.field \in TargetFields => q.op \in {"equals", "not_equals"}
       /\ r[1] = "math-written-exam" => FieldsOf(p.rule[r]) \subseteq {"month", "dept"}
  /\ DatesReviewed(p)

ASSUME FormsAssumption ==
  /\ Unknown \notin BOOLEAN /\ Unknown \notin ReviewBases \cup {"not_requested"}
  /\ TargetFields \cap (CredentialFields \cup LanguageFields) = {}
  /\ \A f \in Forms :
       /\ FormFields \subseteq DOMAIN f
       /\ NoName \notin {f.month, f.college, f.dept}
       /\ Unknown \notin {f[x] : x \in TargetFields \cup {"document", "college", "english", "application"}}
  /\ \A q \in Requests : "form" \in DOMAIN q =>
       /\ q.via = "corpus" /\ q.form \in Forms /\ q.profile = DemoApplicantProfile(q.form)
       /\ q.plan.materials # NoName => q.plan.months \subseteq CommonTerms
       /\ q.plan.document = DetailedDocument => DetailedPlanReviewed(q.plan)

DecisionsInit == GroundedInit /\ DemoInit
DecisionsNext ==
  \/ ~FromDemo /\ GroundedNext /\ UNCHANGED demoVars
  \/ DemoNext /\ UNCHANGED gvars
DecisionsSpec == DecisionsInit /\ [][DecisionsNext]_<<allVars, demoVars>>
=============================================================================
