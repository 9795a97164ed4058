---------------------------- MODULE RuleDecisions ----------------------------
(***************************************************************************)
(* How reviewed admission rules become an answer for one applicant         *)
(* (reasoning/): each rule is evaluated against what is known of the       *)
(* applicant, reviewed overrides are resolved, the relations between the   *)
(* rules that remain are looked up, everything is recorded in a trace, and *)
(* a cited answer is written from the trace.  Every stage validates what   *)
(* the stage before handed it and refuses what does not reconcile.         *)
(*                                                                         *)
(* A fact may be unknown, a rule's official evidence may be missing from   *)
(* an evidence pack, and what the applicant and the question say of the    *)
(* target may disagree; the answer must remain true when more is known.    *)
(***************************************************************************)
EXTENDS Naturals, Sequences, FiniteSets

CONSTANTS
  Fields,           \* condition facts of a profile
  BoundedFields,    \* of them, integers and dates: the bounds of a rule are compared
  CredentialFields, \* of them, facts of the first academic credential
  LanguageFields,   \* of them, facts of the language result to be submitted
  ScopeFields,      \* what is asked for when a target is missing, per scope type
  SelectionField,   \* asked for when it is unclear which result is submitted
  Unknown, NoRule, NoName

Set(name) == IF name = NoName THEN {} ELSE {name}

-----------------------------------------------------------------------------
(* Conditions: comparison of known values and three-valued combination.    *)

Compare(v, op, e) ==
  \/ op = "equals" /\ v = e
  \/ op = "not_equals" /\ v # e
  \/ op = "contains" /\ e \in v
  \/ op \in {"minimum", "on_or_after"} /\ v >= e
  \/ op \in {"maximum", "on_or_before"} /\ v <= e
  \/ op = "is_empty" /\ v = {}
  \/ op = "is_non_empty" /\ v # {}

\* Mutant: an unknown condition counts as a met one.
CombineHopefully(mode, outcomes) ==
  IF mode = "all" /\ "not_applicable" \notin outcomes THEN "confirmed"
  ELSE IF "confirmed" \in outcomes THEN "confirmed"
  ELSE IF "not_applicable" \in outcomes THEN "not_applicable" ELSE "needs_information"

Combine(mode, outcomes) ==
  LET decisive == IF mode = "all" THEN "not_applicable" ELSE "confirmed"
      other == IF mode = "all" THEN "confirmed" ELSE "not_applicable"
  IN IF decisive \in outcomes THEN decisive
     ELSE IF outcomes \subseteq {other} THEN other
     ELSE "needs_information"

\* The language result that counts: the one marked for submission, or the only
\* one unless it is marked as not to be submitted; 0 when it is not clear.
SelectedLanguageResult(profile) ==
  LET marked == {i \in DOMAIN profile.languages : profile.languages[i] = "yes"}
  IN IF Cardinality(marked) = 1 THEN CHOOSE i \in marked : TRUE
     ELSE IF Len(profile.languages) = 1 /\ profile.languages[1] # "no" THEN 1
     ELSE 0

ProfileValue(profile, field) ==
  IF \/ field \in CredentialFields /\ profile.credentials = 0
     \/ field \in LanguageFields /\ SelectedLanguageResult(profile) = 0
  THEN Unknown
  ELSE profile.facts[field]

PredicateStatus(profile, p) ==
  IF ProfileValue(profile, p.field) = Unknown THEN "needs_information"
  ELSE IF Compare(ProfileValue(profile, p.field), p.op, p.value)
       THEN "confirmed" ELSE "not_applicable"

Outcomes(profile, rule) == [p \in rule.predicates |-> PredicateStatus(profile, p)]

FieldsOf(rule) == {p.field : p \in rule.predicates}
Image(f) == {f[x] : x \in DOMAIN f}

-----------------------------------------------------------------------------
(* Scope: what the applicant or the question says of college and target.   *)

MatchScope(expected, supplied) ==
  IF supplied = {} THEN "needs_information"
  ELSE IF expected \cap supplied # {} THEN "confirmed" ELSE "not_applicable"

CombineScopeComponents(statuses) ==
  IF "not_applicable" \in statuses THEN "not_applicable"
  ELSE IF statuses = {"confirmed"} THEN "confirmed" ELSE "needs_information"

Disagree(a, b) == a # {} /\ b # {} /\ a # b

ScopeInputConflict(profile, query, scope) ==
  LET targets == Set(profile.target)
      colleges == Set(profile.college)
  IN \/ Disagree(targets, query.targets)
     \/ Disagree(colleges, query.colleges)
     \/ /\ scope.type # "college"
        /\ colleges # {} /\ scope.parent # NoName
        /\ scope.targets \cap targets # {}
        /\ scope.parent \notin colleges

EvaluateScope(profile, query, scope) ==
  LET targets == IF profile.target # NoName THEN Set(profile.target) ELSE query.targets
      colleges == IF profile.college # NoName THEN Set(profile.college) ELSE query.colleges
  IN IF scope.type = "global" THEN "confirmed"
     ELSE IF ScopeInputConflict(profile, query, scope) THEN "needs_information"
     ELSE IF scope.type = "college"
          THEN MatchScope(scope.targets \cup Set(scope.parent), colleges)
     ELSE CombineScopeComponents(
            (IF scope.targets # {} THEN {MatchScope(scope.targets, targets)} ELSE {})
            \cup (IF scope.parent # NoName /\ colleges # {}
                  THEN {MatchScope({scope.parent}, colleges)} ELSE {}))

CombineWithScope(predicateStatus, scopeStatus) ==
  IF "not_applicable" \in {predicateStatus, scopeStatus} THEN "not_applicable"
  ELSE IF {predicateStatus, scopeStatus} = {"confirmed"} THEN "confirmed"
  ELSE "needs_information"

-----------------------------------------------------------------------------
(* One decision per rule.  A pack tells for each fact the role in which it *)
(* was retrieved; "different" stands for a record whose pages, scope or    *)
(* source is not the reviewed one.  Direct evidence is complete or refused.*)

BindOfficialEvidence(pack, rule) ==
  {f \in rule.bindings : pack.roles[f] \in {"primary", "attached"}}

EvidenceRefused(pack, rule) ==
  \/ pack.of # "this question"
  \/ \E f \in rule.bindings : pack.roles[f] = "different"
  \/ pack.via = "direct" /\ \E f \in rule.bindings : pack.roles[f] # "primary"

\* Diagnostics that leave a rule undecided whatever its conditions say.
Undecided == {"missing_official_evidence", "multiple_academic_credentials",
              "ambiguous_language_result_selection"}

Diagnostics(profile, query, pack, rule) ==
  LET D(name, cond) == IF cond THEN {name} ELSE {}
      conflict == rule.scope.type # "global"
                  /\ ScopeInputConflict(profile, query, rule.scope)
  IN D("missing_profile_fact",
       "needs_information" \in Image(Outcomes(profile, rule)))
     \cup D("missing_official_evidence",
            BindOfficialEvidence(pack, rule) # rule.bindings)
     \cup D("scope_input_conflict", conflict)
     \cup D("missing_scope",
            ~conflict /\ EvaluateScope(profile, query, rule.scope) = "needs_information")
     \cup D("multiple_academic_credentials",
            FieldsOf(rule) \cap CredentialFields # {} /\ profile.credentials > 1)
     \cup D("ambiguous_language_result_selection",
            /\ FieldsOf(rule) \cap LanguageFields # {}
            /\ SelectedLanguageResult(profile) = 0 /\ profile.languages # <<>>)

DecidedStatus(mode, outcomes, scopeStatus, diagnostics) ==
  IF diagnostics \cap Undecided # {} THEN "needs_information"
  ELSE CombineWithScope(Combine(mode, outcomes), scopeStatus)

Decision(profile, query, pack, rule) ==
  LET outcomes == Outcomes(profile, rule)
      diagnostics == Diagnostics(profile, query, pack, rule)
      scopeStatus == EvaluateScope(profile, query, rule.scope)
  IN [outcomes |-> outcomes,
      missing |-> {p.field : p \in {x \in rule.predicates :
                                      outcomes[x] = "needs_information"}},
      diagnostics |-> diagnostics,
      scope |-> scopeStatus,
      evidence |-> BindOfficialEvidence(pack, rule),
      status |-> DecidedStatus(rule.mode, Image(outcomes), scopeStatus, diagnostics)]

\* What a decision must satisfy on its own before a later stage accepts it.
DecisionReconciles(rule, d) ==
  /\ d.missing = {p.field : p \in {x \in DOMAIN d.outcomes :
                                     d.outcomes[x] = "needs_information"}}
  /\ ("missing_profile_fact" \in d.diagnostics) <=> (d.missing # {})
  /\ Cardinality(d.diagnostics \cap {"missing_scope", "scope_input_conflict"})
       = IF d.scope = "needs_information" THEN 1 ELSE 0
  /\ d.evidence # {} \/ "missing_official_evidence" \in d.diagnostics
  /\ d.status = DecidedStatus(rule.mode, Image(d.outcomes), d.scope, d.diagnostics)

EvidenceReconciles(rule, d) ==
  /\ d.evidence \subseteq rule.bindings
  /\ d.evidence = rule.bindings \/ "missing_official_evidence" \in d.diagnostics

-----------------------------------------------------------------------------
(* The reviewed plan: rules, one subject each, override edges from the     *)
(* narrower to the broader rule, and relations reviewed for pairs of rules.*)

Specificity == [global |-> 0, college |-> 1, department |-> 2, program |-> 3]

IsProvenNarrower(narrower, broader) ==
  /\ Specificity[narrower.type] > Specificity[broader.type]
  /\ \/ broader.type = "global"
     \/ broader.type = "college"
        /\ narrower.parent \in broader.targets \cup Set(broader.parent)
     \/ /\ broader.type = "department" /\ narrower.type = "program"
        /\ broader.targets \cap narrower.targets # {}
        /\ broader.parent \in {NoName, narrower.parent}

\* Mutant: an interval of one value counts as empty.
IntervalsOpen(predicates) ==
  \A p, q \in predicates :
    p.field = q.field /\ p.op = "minimum" /\ q.op = "maximum" => p.value < q.value

\* An ALL rule must not ask for conditions that exclude each other.  Whether bounds
\* do is not asked of a field that holds fractions, as a grade average.
PredicatesConsistent(predicates) ==
  \A f \in {p.field : p \in predicates} :
    LET Asked(ops) == {p.value : p \in {x \in predicates : x.field = f /\ x.op \in ops}}
        lower == Asked({"minimum", "on_or_after"})
        upper == Asked({"maximum", "on_or_before"})
    IN /\ Cardinality(Asked({"equals"})) <= 1
       /\ Asked({"equals"}) \cap Asked({"not_equals"}) = {}
       /\ f \in BoundedFields =>
            /\ \A l \in lower : \A u \in upper \cup Asked({"equals"}) : l <= u
            /\ \A u \in upper : \A e \in Asked({"equals"}) : e <= u
       /\ Asked({"is_empty"}) = {} \/ Asked({"is_non_empty", "contains"}) = {}

ScopeAccepted(scope) ==
  IF scope.type = "global" THEN scope.targets = {} /\ scope.parent = NoName
  ELSE scope.targets # {} \/ scope.parent # NoName

RuleAccepted(rule) ==
  /\ ScopeAccepted(rule.scope)
  /\ rule.predicates # {} /\ rule.bindings # {}
  /\ rule.mode = "all" => PredicatesConsistent(rule.predicates)

Acyclic(edges) ==
  LET nodes == {e[1] : e \in edges} \cup {e[2] : e \in edges}
  IN \A S \in (SUBSET nodes) \ {{}} : \E n \in S : \A m \in S : <<m, n>> \notin edges

PrecedenceAccepted(plan) ==
  /\ DOMAIN plan.subject = DOMAIN plan.rule
  /\ \A e \in plan.edges :
       /\ e[1] # e[2] /\ {e[1], e[2]} \subseteq DOMAIN plan.rule
       /\ plan.subject[e[1]] = plan.subject[e[2]]
  /\ Acyclic(plan.edges)

PlanAccepted(plan) ==
  /\ DOMAIN plan.rule # {}
  /\ \A r \in DOMAIN plan.rule : RuleAccepted(plan.rule[r])
  /\ PrecedenceAccepted(plan)
  /\ \A e \in plan.edges : IsProvenNarrower(plan.rule[e[1]].scope, plan.rule[e[2]].scope)
  /\ \A pair \in DOMAIN plan.reviewed :
       /\ Cardinality(pair) = 2 /\ pair \subseteq DOMAIN plan.rule
       /\ \A a, b \in pair : plan.subject[a] = plan.subject[b]

-----------------------------------------------------------------------------
(* Resolution: an override counts when both of its ends are confirmed.     *)

Activated(plan, ds) ==
  {e \in plan.edges : ds[e[1]].status = "confirmed" /\ ds[e[2]].status = "confirmed"}

Ambiguous(plan, ds) ==
  \E d, e \in Activated(plan, ds) : d # e /\ d[2] = e[2]

Overrider(plan, ds, r) ==
  IF \E e \in Activated(plan, ds) : e[2] = r
  THEN (CHOOSE e \in Activated(plan, ds) : e[2] = r)[1] ELSE NoRule

Disposition(status, overrider) ==
  IF status = "needs_information" THEN "pending"
  ELSE IF status = "not_applicable" THEN "not_applicable"
  ELSE IF overrider = NoRule THEN "active" ELSE "overridden"

Resolution(plan, ds) ==
  [r \in DOMAIN plan.rule |->
     LET by == Overrider(plan, ds, r)
     IN [by |-> by, disposition |-> Disposition(ds[r].status, by)]]

DecisionsFit(plan, ds) ==
  /\ DOMAIN ds = DOMAIN plan.rule
  /\ \A r \in DOMAIN ds :
       /\ DOMAIN ds[r].outcomes = plan.rule[r].predicates
       /\ EvidenceReconciles(plan.rule[r], ds[r])

ResolutionReconciles(plan, ds, res) ==
  \A r \in DOMAIN res :
    /\ res[r].disposition = "overridden" <=> res[r].by # NoRule
    /\ res[r].by # r
    /\ ds[r].status = "needs_information" <=> res[r].disposition = "pending"
    /\ ds[r].status = "not_applicable" <=> res[r].disposition = "not_applicable"
    /\ ds[r].status = "confirmed" => ds[r].evidence # {}
    /\ res[r].by # NoRule =>
         /\ res[r].by \in DOMAIN res
         /\ plan.subject[res[r].by] = plan.subject[r]
         /\ ds[res[r].by].status = "confirmed"
         /\ IsProvenNarrower(plan.rule[res[r].by].scope, plan.rule[r].scope)

-----------------------------------------------------------------------------
(* Interactions: every two rules of a subject that may both still apply.   *)

LivePairs(plan, res) ==
  LET live == {r \in DOMAIN res : res[r].disposition \in {"active", "pending"}}
  IN {pair \in {{a, b} : a, b \in live} :
        Cardinality(pair) = 2 /\ \A a, b \in pair : plan.subject[a] = plan.subject[b]}

Relationship(plan, pair) ==
  IF pair \in DOMAIN plan.reviewed THEN plan.reviewed[pair] ELSE "unreviewed"

Analysis(plan, res) ==
  LET live == LivePairs(plan, res)
      compatible == {pair \in live : Relationship(plan, pair) = "compatible"}
  IN [warnings |->
        [pair \in live \ compatible |->
           [kind |-> Relationship(plan, pair),
            certainty |-> IF \A r \in pair : res[r].disposition = "active"
                          THEN "confirmed" ELSE "potential"]],
      compatible |-> compatible,
      inactive |-> DOMAIN plan.reviewed \ live,
      complete |-> live \subseteq DOMAIN plan.reviewed]

\* A report of interactions: of relations between rules of one subject, what
\* one derives again from the resolution.
AnalysisReconciles(plan, res, an) ==
  /\ \A pair \in DOMAIN plan.reviewed :
       pair \subseteq DOMAIN res /\ \A a, b \in pair : plan.subject[a] = plan.subject[b]
  /\ \A pair \in DOMAIN an.warnings :
       /\ Cardinality(pair) = 2
       /\ an.warnings[pair].kind = "unreviewed" <=> pair \notin DOMAIN plan.reviewed
  /\ an = Analysis(plan, res)

-----------------------------------------------------------------------------
(* The trace: a step per decision, per resolution and per reported pair.   *)

InteractionOutcome(an, pair) ==
  IF pair \in DOMAIN an.warnings THEN an.warnings[pair]
  ELSE [kind |-> IF pair \in an.inactive THEN "inactive" ELSE "compatible",
        certainty |-> "none"]

Step(kind, rules) == [kind |-> kind, rules |-> rules]

Dependencies(step) ==
  IF step.kind = "interaction" THEN {Step("resolution", {r}) : r \in step.rules}
  ELSE IF step.kind = "resolution" THEN {Step("applicability", step.rules)}
  ELSE {}

DeriveTrace(plan, an) ==
  LET pairs == DOMAIN an.warnings \cup an.compatible \cup an.inactive
      interactions == {Step("interaction", pair) : pair \in pairs}
      used == UNION {Dependencies(s) : s \in interactions}
      resolutions == {Step("resolution", {r}) : r \in DOMAIN plan.rule}
  IN [steps |-> {Step("applicability", {r}) : r \in DOMAIN plan.rule}
                \cup resolutions \cup interactions,
      terminals |-> (resolutions \ used) \cup interactions,
      outcomes |-> [pair \in pairs |-> InteractionOutcome(an, pair)]]

TraceReconciles(plan, res, an, tr) ==
  /\ DOMAIN res = DOMAIN plan.rule
  /\ \A s \in tr.steps : Dependencies(s) \subseteq tr.steps
  /\ tr.terminals \subseteq tr.steps
  /\ \A pair \in DOMAIN tr.outcomes \ DOMAIN an.warnings :
       /\ pair \in DOMAIN plan.reviewed
       /\ pair \in an.inactive \/ plan.reviewed[pair] = "compatible"

\* A trace holds its sources: the rules as they were reviewed, which must still
\* be acceptable, and the decisions and the resolution, which must be theirs.
SnapshotsAccepted(plan) == \A r \in DOMAIN plan.rule : RuleAccepted(plan.rule[r])

TraceSourcesFit(plan, ds, res) ==
  /\ DOMAIN plan.rule # {} /\ DOMAIN ds = DOMAIN plan.rule /\ DOMAIN res = DOMAIN plan.rule
  /\ \A r \in DOMAIN ds :
       /\ DOMAIN ds[r].outcomes = plan.rule[r].predicates
       /\ EvidenceReconciles(plan.rule[r], ds[r])

TraceAccepted(plan, ds, res, an, tr) ==
  /\ SnapshotsAccepted(plan) /\ TraceSourcesFit(plan, ds, res) /\ AnalysisReconciles(plan, res, an)
  /\ tr = DeriveTrace(plan, an) /\ TraceReconciles(plan, res, an, tr)

-----------------------------------------------------------------------------
(* The cited answer.                                                       *)

Cites(ds, rules) == UNION {{<<r, f>> : f \in ds[r].evidence} : r \in rules}
CitedRules(cites) == {c[1] : c \in cites}
Notice(kind, rules) == [kind |-> kind, rules |-> rules]

MissingInformation(plan, ds, res) ==
  LET Asked(r) ==
        LET fields == ds[r].missing
                \cup (IF "missing_scope" \in ds[r].diagnostics
                      THEN {ScopeFields[plan.rule[r].scope.type]} ELSE {})
        IN IF "ambiguous_language_result_selection" \in ds[r].diagnostics
           THEN (fields \ LanguageFields) \cup {SelectionField} ELSE fields
  IN UNION {{<<r, f>> : f \in Asked(r)} :
              r \in {x \in DOMAIN res : res[x].disposition = "pending"}}

\* The rules an entry speaks for: itself and the rule that overrides it.
SpeaksFor(res, r) == {r} \cup ({res[r].by} \ {NoRule})

HasFinding(ds, res, r) == \A x \in SpeaksFor(res, r) : ds[x].evidence # {}

EvidenceNotices(ds, res) ==
  {Notice("missing_official_evidence", {r}) : r \in {x \in DOMAIN ds : ds[x].evidence = {}}}
  \cup {Notice("override_evidence_incomplete", SpeaksFor(res, r)) :
          r \in {x \in DOMAIN ds : ds[x].evidence # {} /\ ~HasFinding(ds, res, x)}}

DiagnosticNotices(ds) ==
  UNION {{Notice(k, {r}) : k \in ds[r].diagnostics \ {"missing_profile_fact"}} : r \in DOMAIN ds}

Warned(tr) ==
  {pair \in DOMAIN tr.outcomes : tr.outcomes[pair].kind \notin {"compatible", "inactive"}}

InteractionNotices(ds, an, tr) ==
  {Notice("interaction_evidence_incomplete", pair) :
     pair \in {p \in Warned(tr) : CitedRules(Cites(ds, p)) # p}}
  \cup (IF an.complete THEN {} ELSE {Notice("interaction_analysis_incomplete", {})})

ReviewNotices == {"missing_official_evidence", "override_evidence_incomplete",
                  "interaction_evidence_incomplete", "scope_input_conflict",
                  "interaction_analysis_incomplete"}

DeriveReportStatus(res, findings, warnings, missing, notices) ==
  IF warnings # {} \/ \E n \in notices : n.kind \in ReviewNotices THEN "needs_review"
  ELSE IF \/ missing # {}
          \/ \E r \in findings : res[r].disposition = "pending"
          \/ \E n \in notices : n.kind = "missing_scope"
       THEN "needs_information"
  ELSE "complete"

CitedAnswer(plan, ds, res, an, tr) ==
  LET findings == {r \in DOMAIN res : HasFinding(ds, res, r)}
      warnings == {p \in Warned(tr) : CitedRules(Cites(ds, p)) = p}
      missing == MissingInformation(plan, ds, res)
      notices == DiagnosticNotices(ds) \cup EvidenceNotices(ds, res)
                   \cup InteractionNotices(ds, an, tr)
  IN [findings |-> [r \in findings |-> Cites(ds, SpeaksFor(res, r))],
      warnings |-> [p \in warnings |-> Cites(ds, p)],
      missing |-> missing, notices |-> notices, analysed |-> an.complete,
      status |-> DeriveReportStatus(res, findings, warnings, missing, notices)]

AnswerReconciles(res, tr, a) ==
  /\ \A r \in DOMAIN a.findings : CitedRules(a.findings[r]) = SpeaksFor(res, r)
  /\ DOMAIN res \subseteq DOMAIN a.findings \cup UNION {n.rules : n \in a.notices}
  /\ \A n \in a.notices :
       n.kind \in {"override_evidence_incomplete", "interaction_evidence_incomplete"}
         => Cardinality(n.rules) = 2
  /\ \A x \in a.missing : x[1] \in DOMAIN res
  /\ a.analysed <=> ~\E n \in a.notices : n.kind = "interaction_analysis_incomplete"
  /\ a.analysed \/ \E p \in DOMAIN tr.outcomes : tr.outcomes[p].kind = "unreviewed"

WarningAccepted(pair, cites) == Cardinality(pair) = 2 /\ CitedRules(cites) = pair

AnswerAccepted(res, tr, a) ==
  /\ \A p \in DOMAIN a.warnings : WarningAccepted(p, a.warnings[p])
  /\ AnswerReconciles(res, tr, a)
  /\ a.status = DeriveReportStatus(res, DOMAIN a.findings, DOMAIN a.warnings, a.missing, a.notices)

=============================================================================
