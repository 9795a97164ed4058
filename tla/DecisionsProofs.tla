--------------------------- MODULE DecisionsProofs ---------------------------
(***************************************************************************)
(* What an applicant is told, for every value of the constants: any         *)
(* reviewed plans, profiles, questions and catalogs that the contracts      *)
(* allow (DecisionsAssumption, MentionsAssumption and QuestionAssumption),  *)
(* whatever the KB file becomes meanwhile and whatever a provider drafts;   *)
(* and for any form, on the reviewed plan of the demo (FormsAssumption).    *)
(*                                                                         *)
(* ReportInv says of each stage of a report what it would make again of     *)
(* what it was made from, and GroundedInv says it of an answer in words.    *)
(* The safety properties follow from the two: they are about operators of   *)
(* RuleDecisions and GroundedAnswer, not about steps.  Then no stage refuses *)
(* what another made: every validator accepts it.  The last part is about   *)
(* the demo: what is known of a form stays known when more is filled in, so *)
(* that each definite check is made again (ComparedInv, KeptOf).            *)
(***************************************************************************)
EXTENDS Decisions, FiniteSetTheorems, SequenceTheorems, WellFoundedInduction, TLAPS

(* The report.  Every stage validates what the one before handed it; what  *)
(* it hands on is still what it would make of its own input again.         *)

Posed == {"posed", "drafted", "grounded", "presented"}
Reported == {"reported", "projected"} \cup Posed
Answered == {"answered"} \cup Reported
Traced == {"traced"} \cup Answered
Analysed == {"analysed"} \cup Traced
Resolved == {"resolved"} \cup Analysed
Decided == {"decided"} \cup Resolved
Prepared == {"prepared", "compared"} \cup Decided
Stages == {"asked", "planned", "audited", "refused"} \cup Prepared

\* The plan was accepted before anything was read, and what the rules are bound
\* to is the reviewed text of the KB the plan was written for.
EvidenceHeld ==
  /\ stage \notin {"asked", "refused"} => PlanAccepted(plan) /\ PoliciesAccepted(plan)
  /\ stage \in Prepared /\ request.via = "corpus" =>
       /\ bundle.kb = plan.kb /\ bundle.records = Records(plan) /\ BundleAccepted(bundle.records)
       /\ \A f \in DOMAIN bundle.records : Contents[bundle.kb][f] = "reviewed"
  /\ stage \in Decided =>
       /\ \A r \in DOMAIN plan.rule : ~EvidenceRefused(Pack, plan.rule[r])
       /\ decisions = DecisionsFor(profile)
  /\ stage \in {"audited", "prepared", "compared"} => request.via = "corpus"

\* What each stage made is still what it would make again.
StagesHold ==
  /\ stage \in Resolved => resolution = Resolution(plan, decisions) /\ ~Ambiguous(plan, decisions)
  /\ stage \in Analysed => analysis = Analysis(plan, resolution)
  /\ stage \in Traced => trace = DeriveTrace(plan, analysis)
  /\ stage \in Answered => answer = CitedAnswer(plan, decisions, resolution, analysis, trace)
  /\ stage \in Reported => /\ report = BuiltReport /\ ReportReconciles(report)
                           /\ request.via = "corpus"

\* A resolution outlives a refusal.
ResolutionHolds ==
  resolution # <<>> =>
    /\ stage \in {"refused", "compared"} \cup Resolved
    /\ PlanAccepted(plan) /\ resolution = Resolution(plan, decisions)
    /\ decisions = DecisionsFor(profile)

ReportInv ==
  /\ stage \in Stages /\ request \in Requests
  /\ EvidenceHeld /\ StagesHold /\ ResolutionHolds

StageVars == <<refusal, decisions, resolution, analysis, trace, answer, report>>

-----------------------------------------------------------------------------
LEMMA InitReportInv == DecisionsInit => ReportInv
BY DEF DecisionsInit, GroundedInit, Init, ReportInv, EvidenceHeld, StagesHold, ResolutionHolds,
       Stages, Prepared, Decided, Resolved, Analysed, Traced, Answered, Reported, Posed

\* What a step that keeps the request keeps is read the same way.
LEMMA SameReading ==
  ASSUME UNCHANGED <<request, bundle>>
  PROVE  plan' = plan /\ profile' = profile /\ Pack' = Pack /\ DecisionsFor(profile)' = DecisionsFor(profile)
<1>1. plan' = plan /\ profile' = profile
  BY DEF plan, profile
<1>2. Pack' = Pack
  BY DEF Pack, DirectEvidence
<1> QED
  BY <1>1, <1>2 DEF DecisionsFor

\* A refusal keeps what was made.
LEMMA RefuseKeeps == ASSUME ReportInv, NEW reason, Refuse(reason) PROVE ReportInv'
<1>1. UNCHANGED <<request, bundle, decisions, resolution>> /\ stage' = "refused"
  BY DEF Refuse
<1>2. EvidenceHeld' /\ StagesHold'
  BY <1>1 DEF EvidenceHeld, StagesHold, Prepared, Decided, Resolved, Analysed, Traced, Answered, Reported, Posed
<1>3. ResolutionHolds'
  BY <1>1, SameReading DEF ReportInv, ResolutionHolds
<1> QED
  BY <1>1, <1>2, <1>3 DEF ReportInv, Stages

\* A step that leaves the report as it is, and what comes after it.
LEMMA LaterKeeps ==
  ASSUME ReportInv,
         UNCHANGED <<request, bundle, decisions, resolution, analysis, trace, answer, report>>,
         \/ stage' = stage
         \/ stage = "prepared" /\ stage' = "compared"
         \/ stage \in Reported /\ stage' \in {"compared", "projected"} \cup Posed
  PROVE  ReportInv'
<1>1. plan' = plan /\ profile' = profile /\ Pack' = Pack /\ DecisionsFor(profile)' = DecisionsFor(profile)
  BY SameReading
<1> USE DEF Stages, Prepared, Decided, Resolved, Analysed, Traced, Answered, Reported, Posed
<1>2. BuiltReport' = BuiltReport /\ (ReportReconciles(report))' = ReportReconciles(report)
  BY <1>1 DEF BuiltReport, ReportReconciles
<1>3. EvidenceHeld'
  BY <1>1 DEF ReportInv, EvidenceHeld, StagesHold
<1>4. StagesHold'
  BY <1>1, <1>2 DEF ReportInv, StagesHold
<1>5. ResolutionHolds'
  BY <1>1 DEF ReportInv, ResolutionHolds
<1> QED
  BY <1>3, <1>4, <1>5 DEF ReportInv

\* Up to the evidence: whatever is written to the KB file.
LEMMA ReadingKeeps ==
  ASSUME ReportInv, RewriteKb \/ LoadPlan \/ Audit \/ PrepareEvidence PROVE ReportInv'
<1> USE DEF Stages, Prepared, Decided, Resolved, Analysed, Traced, Answered, Reported, Posed
<1>1. ASSUME RewriteKb PROVE ReportInv'
  BY <1>1, LaterKeeps DEF RewriteKb
<1>2. ASSUME UNCHANGED <<request, bundle, decisions, resolution>>, stage \in {"asked", "planned"},
             stage' \in {"planned", "audited"}, stage' = "audited" => request.via = "corpus",
             PlanAccepted(plan), PoliciesAccepted(plan)
      PROVE  ReportInv'
  <2>1. plan' = plan
    BY <1>2, SameReading
  <2>2. EvidenceHeld' /\ StagesHold'
    BY <1>2, <2>1 DEF EvidenceHeld, StagesHold
  <2>3. ResolutionHolds'
    BY <1>2 DEF ReportInv, ResolutionHolds
  <2> QED
    BY <1>2, <2>2, <2>3 DEF ReportInv
<1>3. ASSUME LoadPlan PROVE ReportInv'
  BY <1>2, <1>3, RefuseKeeps DEF LoadPlan
<1>4. ASSUME Audit PROVE ReportInv'
  BY <1>2, <1>4, RefuseKeeps DEF Audit, ReportInv, EvidenceHeld
<1>5. ASSUME PrepareEvidence PROVE ReportInv'
  <2>1. CASE \E reason : Refuse(reason)
    BY <2>1, RefuseKeeps
  <2>2. CASE /\ kb = plan.kb /\ BundleAccepted(Records(plan))
             /\ \A f \in DOMAIN Records(plan) : Contents[kb][f] = "reviewed"
             /\ stage = "audited" /\ stage' = "prepared" /\ bundle' = [kb |-> kb, records |-> Records(plan)]
             /\ UNCHANGED <<request, decisions, resolution>>
    <3>1. plan' = plan
      BY <2>2 DEF plan
    <3>2. EvidenceHeld' /\ StagesHold'
      BY <2>2, <3>1 DEF ReportInv, EvidenceHeld, StagesHold
    <3>3. ResolutionHolds'
      BY <2>2 DEF ReportInv, ResolutionHolds
    <3> QED
      BY <2>2, <3>2, <3>3 DEF ReportInv
  <2> QED
    BY <1>5, <2>1, <2>2 DEF PrepareEvidence
<1> QED
  BY <1>1, <1>3, <1>4, <1>5

\* The validators of a stage need no knowledge: what passed them was made from
\* what the stage before handed on.
LEMMA DecideKeeps == ASSUME ReportInv, Decide PROVE ReportInv'
<1> USE DEF Stages, Prepared, Decided, Resolved, Analysed, Traced, Answered, Reported, Posed
<1>1. CASE \E reason : Refuse(reason)
  BY <1>1, RefuseKeeps
<1>2. CASE /\ \A r \in DOMAIN plan.rule : ~EvidenceRefused(Pack, plan.rule[r])
           /\ stage = IF request.via = "pack" THEN "planned" ELSE "prepared"
           /\ stage' = "decided" /\ decisions' = DecisionsFor(profile)
           /\ UNCHANGED <<request, bundle, resolution>>
  <2>1. plan' = plan /\ profile' = profile /\ Pack' = Pack /\ DecisionsFor(profile)' = DecisionsFor(profile)
    BY <1>2, SameReading
  <2>2. EvidenceHeld' /\ StagesHold'
    BY <1>2, <2>1 DEF ReportInv, EvidenceHeld, StagesHold
  <2>3. ResolutionHolds'
    BY <1>2 DEF ReportInv, ResolutionHolds
  <2> QED
    BY <1>2, <2>2, <2>3 DEF ReportInv
<1> QED
  BY <1>1, <1>2 DEF Decide, DecisionsFor

LEMMA ResolveKeeps == ASSUME ReportInv, Resolve PROVE ReportInv'
<1> USE DEF Stages, Prepared, Decided, Resolved, Analysed, Traced, Answered, Reported, Posed
<1>1. CASE \E reason : Refuse(reason)
  BY <1>1, RefuseKeeps
<1>2. CASE /\ ~Ambiguous(plan, decisions) /\ stage = "decided" /\ stage' = "resolved"
           /\ resolution' = Resolution(plan, decisions) /\ UNCHANGED <<request, bundle, decisions>>
  <2>1. plan' = plan /\ profile' = profile /\ Pack' = Pack /\ DecisionsFor(profile)' = DecisionsFor(profile)
    BY <1>2, SameReading
  <2>2. EvidenceHeld' /\ StagesHold'
    BY <1>2, <2>1 DEF ReportInv, EvidenceHeld, StagesHold
  <2>3. ResolutionHolds'
    BY <1>2, <2>1 DEF ReportInv, ResolutionHolds, EvidenceHeld
  <2> QED
    BY <1>2, <2>2, <2>3 DEF ReportInv
<1> QED
  BY <1>1, <1>2 DEF Resolve

\* The three stages that write the answer.
LEMMA WritingKeeps ==
  ASSUME ReportInv, Analyze \/ BuildTrace \/ BuildAnswer PROVE ReportInv'
<1> USE DEF Stages, Prepared, Decided, Resolved, Analysed, Traced, Answered, Reported, Posed
<1>1. CASE \E reason : Refuse(reason)
  BY <1>1, RefuseKeeps
<1>2. CASE /\ UNCHANGED <<request, bundle, decisions, resolution>>
           /\ \/ stage = "resolved" /\ stage' = "analysed" /\ analysis' = Analysis(plan, resolution)
              \/ /\ stage = "analysed" /\ stage' = "traced" /\ trace' = DeriveTrace(plan, analysis)
                 /\ UNCHANGED analysis
              \/ /\ stage = "traced" /\ stage' = "answered" /\ UNCHANGED <<analysis, trace>>
                 /\ answer' = CitedAnswer(plan, decisions, resolution, analysis, trace)
  <2>1. plan' = plan /\ profile' = profile /\ Pack' = Pack /\ DecisionsFor(profile)' = DecisionsFor(profile)
    BY <1>2, SameReading
  <2>2. EvidenceHeld'
    BY <1>2, <2>1 DEF ReportInv, EvidenceHeld
  <2>3. StagesHold'
    BY <1>2, <2>1 DEF ReportInv, StagesHold
  <2>4. ResolutionHolds'
    BY <1>2, <2>1 DEF ReportInv, ResolutionHolds
  <2> QED
    BY <1>2, <2>2, <2>3, <2>4 DEF ReportInv
<1> QED
  BY <1>1, <1>2 DEF Analyze, BuildTrace, BuildAnswer

LEMMA BuildReportKeeps == ASSUME ReportInv, BuildReport PROVE ReportInv'
<1> USE DEF Stages, Prepared, Decided, Resolved, Analysed, Traced, Answered, Reported, Posed
<1>1. CASE \E reason : Refuse(reason)
  BY <1>1, RefuseKeeps
<1>2. CASE /\ stage = "answered" /\ request.via = "corpus" /\ ReportReconciles(BuiltReport)
           /\ stage' = "reported" /\ report' = BuiltReport
           /\ UNCHANGED <<request, bundle, decisions, resolution, analysis, trace, answer>>
  <2>1. plan' = plan /\ profile' = profile /\ Pack' = Pack /\ DecisionsFor(profile)' = DecisionsFor(profile)
    BY <1>2, SameReading
  <2>2. EvidenceHeld'
    BY <1>2, <2>1 DEF ReportInv, EvidenceHeld
  <2>3. BuiltReport' = BuiltReport
    BY <1>2, <2>1 DEF BuiltReport
  <2>4. (ReportReconciles(report))' = ReportReconciles(BuiltReport)
    BY <1>2, <2>1 DEF ReportReconciles
  <2>5. StagesHold'
    BY <1>2, <2>1, <2>3, <2>4 DEF ReportInv, StagesHold
  <2>6. ResolutionHolds'
    BY <1>2, <2>1 DEF ReportInv, ResolutionHolds
  <2> QED
    BY <1>2, <2>2, <2>5, <2>6 DEF ReportInv
<1> QED
  BY <1>1, <1>2 DEF BuildReport

LEMMA ReportStepKeeps == ReportInv /\ Next => ReportInv'
BY ReadingKeeps, DecideKeeps, ResolveKeeps, WritingKeeps, BuildReportKeeps DEF Next

\* The search, the projection and the model leave the report as it is.
LEMMA GroundedStepKeeps == ReportInv /\ GroundedNext => ReportInv'
<1> SUFFICES ASSUME ReportInv, GroundedNext PROVE ReportInv'
  OBVIOUS
<1> USE DEF Posed, Reported
<1>1. CASE ReportStep
  BY <1>1, ReportStepKeeps DEF ReportStep
<1>2. CASE RewriteDuringSearch
  BY <1>2, LaterKeeps DEF RewriteDuringSearch
<1>3. CASE SearchDocument
  BY <1>3, LaterKeeps, RefuseKeeps DEF SearchDocument, Fail, vars
<1>4. CASE UnderstandQuestion
  BY <1>4, LaterKeeps, RefuseKeeps DEF UnderstandQuestion, Fail, vars
<1>5. CASE ProjectToRetrieval
  BY <1>5, LaterKeeps, RefuseKeeps DEF ProjectToRetrieval, Fail, Advance
<1>6. CASE EvidenceTooLong
  BY <1>6, RefuseKeeps DEF EvidenceTooLong, Fail
<1>7. CASE PrepareRequest
  BY <1>7, LaterKeeps, RefuseKeeps DEF PrepareRequest, Fail, Advance
<1>8. CASE Generate
  BY <1>8, LaterKeeps, RefuseKeeps DEF Generate, Fail, Advance
<1>9. CASE Ground
  BY <1>9, LaterKeeps, RefuseKeeps DEF Ground, Fail, Advance
<1>10. CASE Present
  BY <1>10, LaterKeeps, RefuseKeeps DEF Present, Fail, Advance
<1> QED
  BY <1>1, <1>2, <1>3, <1>4, <1>5, <1>6, <1>7, <1>8, <1>9, <1>10 DEF GroundedNext

\* The form of the demo asks for reports of its own.
LEMMA DemoStepKeeps == ReportInv /\ DemoNext => ReportInv'
<1> SUFFICES ASSUME ReportInv, DemoNext PROVE ReportInv'
  OBVIOUS
<1> USE DEF Posed, Reported
<1>1. CASE RefuseForm
  BY <1>1, RefuseKeeps DEF RefuseForm
<1>2. CASE ReportForForm
  BY <1>2, ReportStepKeeps DEF ReportForForm
<1>3. CASE ShowRequirements
  BY <1>3, LaterKeeps, RefuseKeeps DEF ShowRequirements, vars
<1>4. CASE CompareForm
  BY <1>4, LaterKeeps DEF CompareForm
<1> QED
  BY <1>1, <1>2, <1>3, <1>4 DEF DemoNext

LEMMA StepKeepsReport == ReportInv /\ [DecisionsNext]_<<allVars, demoVars>> => ReportInv'
<1>1. ReportInv /\ UNCHANGED <<allVars, demoVars>> => ReportInv'
  BY LaterKeeps DEF allVars, vars
<1> QED
  BY <1>1, GroundedStepKeeps, DemoStepKeeps DEF DecisionsNext

\* For every set of requests, plans, profiles and contents of the KB file that the
\* contracts allow, and whoever else writes that file (applicant_report.py,
\* service/app.py, demo).
THEOREM ReportInvariant == DecisionsSpec => []ReportInv
BY InitReportInv, StepKeepsReport, PTL DEF DecisionsSpec

-----------------------------------------------------------------------------
(* Evidence.                                                               *)

\* A fact a rule is bound to is recorded as evidence for that rule.
LEMMA BoundFactIsOwned ==
  ASSUME NEW p, NEW r \in DOMAIN p.rule, NEW f \in p.rule[r].bindings, f \in Facts
  PROVE  f \in DOMAIN Records(p) /\ Owner("rule", r) \in Records(p)[f]
BY DEF Records, Owners

\* The plan that is shown has the rules of the plan that was read.
LEMMA ShownRules ==
  ASSUME request \in Requests
  PROVE  LET seen == VisiblePlan(plan, profile)
         IN seen.rule = plan.rule /\ seen.subject = plan.subject /\ seen.edges = plan.edges
            /\ seen.reviewed = plan.reviewed
BY DecisionsAssumption DEF VisiblePlan, plan, PlanFields

\* What a report is built from is the reviewed text of the KB the plan was written
\* for, and each citation in it is in the evidence it shows, as evidence for the rule
\* that cites it, also when a program condition is hidden (reviewed_report_evidence.py,
\* applicant_report.py: _visible_plan, _build_report).
THEOREM EvidenceStaysReviewed == DecisionsSpec => []EvidenceReviewed
<1>1. ReportInv => EvidenceReviewed
  <2> SUFFICES ASSUME ReportInv, stage \notin {"asked", "planned", "audited", "refused"}, request.via = "corpus"
               PROVE  /\ bundle.kb = plan.kb
                      /\ \A f \in DOMAIN bundle.records : Contents[bundle.kb][f] = "reviewed"
                      /\ stage = "reported" => \A x \in Inventory(answer) :
                           x[2] \in DOMAIN report.records /\ Owner("rule", x[1]) \in report.records[x[2]]
    BY DEF EvidenceReviewed
  <2>1. stage \in Prepared
    BY DEF ReportInv, Stages
  <2>2. ASSUME stage = "reported", NEW x \in Inventory(answer)
        PROVE  x[2] \in DOMAIN report.records /\ Owner("rule", x[1]) \in report.records[x[2]]
    <3> DEFINE seen == VisiblePlan(plan, profile)
    <3>1. report.plan = seen /\ ReportReconciles(report)
      BY <2>2 DEF ReportInv, StagesHold, Reported, BuiltReport
    <3>2. report.records = Records(seen)
          /\ Inventory(answer) = UNION {{<<r, f>> : f \in seen.rule[r].bindings} : r \in DOMAIN seen.rule}
      BY <3>1 DEF ReportReconciles
    <3>3. PICK r \in DOMAIN seen.rule : \E f \in seen.rule[r].bindings : x = <<r, f>>
      BY <2>2, <3>2
    <3>4. PICK f \in seen.rule[r].bindings : x = <<r, f>>
      BY <3>3
    <3>5. f \in Facts
      BY <3>3, <3>4, ShownRules, DecisionsAssumption DEF ReportInv, plan
    <3> HIDE DEF seen
    <3> QED
      BY <3>2, <3>3, <3>4, <3>5, BoundFactIsOwned
  <2> QED
    BY <2>1, <2>2 DEF ReportInv, EvidenceHeld
<1> QED
  BY <1>1, ReportInvariant, PTL

-----------------------------------------------------------------------------
(* Overrides.                                                              *)

\* The edge an override is by, if there is one.
LEMMA OverriderIsConfirmed ==
  ASSUME NEW p, NEW ds, NEW r, Overrider(p, ds, r) # NoRule
  PROVE  /\ <<Overrider(p, ds, r), r>> \in {<<e[1], e[2]>> : e \in p.edges}
         /\ \E e \in Activated(p, ds) : e[2] = r /\ e[1] = Overrider(p, ds, r)
<1>1. \E e \in Activated(p, ds) : e[2] = r
  BY DEF Overrider
<1>2. Overrider(p, ds, r) = (CHOOSE e \in Activated(p, ds) : e[2] = r)[1]
  BY <1>1 DEF Overrider
<1> QED
  BY <1>1, <1>2 DEF Activated

\* The four types of scope are numbered.
LEMMA TypesAreOrdered ==
  /\ DOMAIN Specificity = {"global", "college", "department", "program"}
  /\ \A t \in DOMAIN Specificity : Specificity[t] \in 0..3
BY DEF Specificity

\* One rule up a chain of overrides.
LEMMA OverriderStands ==
  ASSUME NEW p, PlanAccepted(p), NEW ds, NEW r \in DOMAIN p.rule,
         Resolution(p, ds)[r].disposition = "overridden"
  PROVE  \E s \in DOMAIN p.rule :
           /\ Resolution(p, ds)[s].disposition \in {"active", "overridden"}
           /\ p.subject[s] = p.subject[r]
           /\ Specificity[p.rule[s].scope.type] > Specificity[p.rule[r].scope.type]
<1> DEFINE by == Overrider(p, ds, r)
<1>1. Disposition(ds[r].status, by) = "overridden"
  BY DEF Resolution
<1>2. by # NoRule
  BY <1>1 DEF Disposition
<1>3. PICK e \in p.edges : ds[e[1]].status = "confirmed" /\ e[2] = r
  BY <1>2, OverriderIsConfirmed DEF Activated
<1>4. /\ e[1] \in DOMAIN p.rule /\ p.subject[e[1]] = p.subject[r]
      /\ IsProvenNarrower(p.rule[e[1]].scope, p.rule[r].scope)
  BY <1>3 DEF PlanAccepted, PrecedenceAccepted
<1>5. Specificity[p.rule[e[1]].scope.type] > Specificity[p.rule[r].scope.type]
  BY <1>4 DEF IsProvenNarrower
<1>6. Disposition(ds[e[1]].status, Overrider(p, ds, e[1])) \in {"active", "overridden"}
  BY <1>3 DEF Disposition
<1>7. Resolution(p, ds)[e[1]].disposition \in {"active", "overridden"}
  BY <1>4, <1>6 DEF Resolution
<1> QED
  BY <1>4, <1>5, <1>7

\* Each override is by a narrower scope, so the chain that starts at a rule ends, and
\* it ends in a rule that nothing overrides.
LEMMA ChainEndsInForce ==
  ASSUME NEW p, PlanAccepted(p), NEW ds, NEW r \in DOMAIN p.rule,
         \A x \in DOMAIN p.rule : p.rule[x].scope.type \in DOMAIN Specificity,
         Resolution(p, ds)[r].disposition = "overridden"
  PROVE  \E s \in DOMAIN p.rule :
           /\ Resolution(p, ds)[s].disposition = "active" /\ p.subject[s] = p.subject[r]
           /\ Specificity[p.rule[s].scope.type] > Specificity[p.rule[r].scope.type]
<1> DEFINE Rank(x) == Specificity[p.rule[x].scope.type]
           Says(x, what) == x \in DOMAIN p.rule /\ Resolution(p, ds)[x].disposition = what
           Above(s, x) == p.subject[s] = p.subject[x] /\ Rank(s) > Rank(x)
<1>1. \A x \in DOMAIN p.rule : Rank(x) \in 0..3
  BY TypesAreOrdered
<1>2. \A x : Says(x, "overridden") => \E s : (Says(s, "active") \/ Says(s, "overridden")) /\ Above(s, x)
  BY OverriderStands
<1>3. \A x, y, z : x \in DOMAIN p.rule /\ y \in DOMAIN p.rule /\ z \in DOMAIN p.rule
                   /\ Above(z, y) /\ Above(y, x) => Above(z, x)
  BY <1>1
<1>4. \A x : Says(x, "active") \/ Says(x, "overridden") => x \in DOMAIN p.rule
  OBVIOUS
<1>5. \A x : Says(x, "overridden") /\ Rank(x) >= 3 => \E s : Says(s, "active") /\ Above(s, x)
  <2> HIDE DEF Says, Rank
  <2> QED
    BY <1>1, <1>2, <1>4
<1>6. \A x : Says(x, "overridden") /\ Rank(x) >= 2 => \E s : Says(s, "active") /\ Above(s, x)
  <2> SUFFICES ASSUME NEW x, Says(x, "overridden"), Rank(x) >= 2 PROVE \E s : Says(s, "active") /\ Above(s, x)
    OBVIOUS
  <2>1. PICK y : (Says(y, "active") \/ Says(y, "overridden")) /\ Above(y, x)
    BY <1>2
  <2>2. CASE Says(y, "overridden")
    <3>1. Rank(y) >= 3
      BY <1>1, <1>4, <2>1
    <3>2. PICK s : Says(s, "active") /\ Above(s, y)
      BY <1>5, <2>2, <3>1
    <3> HIDE DEF Says, Above
    <3> QED
      BY <1>3, <1>4, <2>1, <2>2, <3>2
  <2> QED
    BY <2>1, <2>2
<1>7. \A x : Says(x, "overridden") /\ Rank(x) >= 1 => \E s : Says(s, "active") /\ Above(s, x)
  <2> SUFFICES ASSUME NEW x, Says(x, "overridden"), Rank(x) >= 1 PROVE \E s : Says(s, "active") /\ Above(s, x)
    OBVIOUS
  <2>1. PICK y : (Says(y, "active") \/ Says(y, "overridden")) /\ Above(y, x)
    BY <1>2
  <2>2. CASE Says(y, "overridden")
    <3>1. Rank(y) >= 2
      BY <1>1, <1>4, <2>1
    <3>2. PICK s : Says(s, "active") /\ Above(s, y)
      BY <1>6, <2>2, <3>1
    <3> HIDE DEF Says, Above
    <3> QED
      BY <1>3, <1>4, <2>1, <2>2, <3>2
  <2> QED
    BY <2>1, <2>2
<1>8. \A x : Says(x, "overridden") => \E s : Says(s, "active") /\ Above(s, x)
  <2> SUFFICES ASSUME NEW x, Says(x, "overridden") PROVE \E s : Says(s, "active") /\ Above(s, x)
    OBVIOUS
  <2>1. PICK y : (Says(y, "active") \/ Says(y, "overridden")) /\ Above(y, x)
    BY <1>2
  <2>2. CASE Says(y, "overridden")
    <3>1. Rank(y) >= 1
      BY <1>1, <1>4, <2>1
    <3>2. PICK s : Says(s, "active") /\ Above(s, y)
      BY <1>7, <2>2, <3>1
    <3> HIDE DEF Says, Above
    <3> QED
      BY <1>3, <1>4, <2>1, <2>2, <3>2
  <2> QED
    BY <2>1, <2>2
<1> QED
  BY <1>8

-----------------------------------------------------------------------------
(* Conditions that contradict each other.                                  *)

\* One language result that is marked is the one that counts.
LEMMA OnlyResultCounts ==
  ASSUME NEW p, p.languages = <<"yes">> PROVE SelectedLanguageResult(p) = 1
<1>1. {i \in DOMAIN p.languages : p.languages[i] = "yes"} = {1}
  OBVIOUS
<1>2. Cardinality({1}) = 1
  BY FS_Singleton
<1> QED
  BY <1>1, <1>2 DEF SelectedLanguageResult

\* Values that are all the same are at most one.
LEMMA OfOneValue ==
  ASSUME NEW S, NEW v, \A x \in S : x = v PROVE Cardinality(S) <= 1
<1>1. S = {} \/ S = {v}
  OBVIOUS
<1>2. Cardinality({}) = 0 /\ Cardinality({v}) = 1
  BY FS_EmptySet, FS_Singleton
<1> QED
  BY <1>1, <1>2

\* What a field is asked to be by the conditions of some operators.
ValuesAsked(predicates, f, ops) == {p.value : p \in {x \in predicates : x.field = f /\ x.op \in ops}}

\* What a list of conditions must be to contradict itself nowhere.
LEMMA ConsistentWhen ==
  ASSUME NEW predicates,
         \A f \in {p.field : p \in predicates} :
           /\ Cardinality(ValuesAsked(predicates, f, {"equals"})) <= 1
           /\ ValuesAsked(predicates, f, {"equals"}) \cap ValuesAsked(predicates, f, {"not_equals"}) = {}
           /\ \A l \in ValuesAsked(predicates, f, {"minimum", "on_or_after"}) :
                \A u \in ValuesAsked(predicates, f, {"maximum", "on_or_before"})
                           \cup ValuesAsked(predicates, f, {"equals"}) : l <= u
           /\ \A u \in ValuesAsked(predicates, f, {"maximum", "on_or_before"}) :
                \A e \in ValuesAsked(predicates, f, {"equals"}) : e <= u
           /\ \/ ValuesAsked(predicates, f, {"is_empty"}) = {}
              \/ ValuesAsked(predicates, f, {"is_non_empty", "contains"}) = {}
  PROVE  PredicatesConsistent(predicates)
BY DEF PredicatesConsistent, ValuesAsked

\* All conditions of a rule are met by one profile: they do not contradict.
LEMMA MetIsConsistent ==
  ASSUME NEW predicates, NEW g,
         \A x \in predicates : Compare(g[x.field], x.op, x.value),
         \A x \in predicates : x.op \in OrderOperators => x.value \in Int /\ g[x.field] \in Int
  PROVE  PredicatesConsistent(predicates)
<1> SUFFICES ASSUME NEW f \in {p.field : p \in predicates}
             PROVE  /\ Cardinality(ValuesAsked(predicates, f, {"equals"})) <= 1
                    /\ ValuesAsked(predicates, f, {"equals"}) \cap ValuesAsked(predicates, f, {"not_equals"}) = {}
                    /\ \A l \in ValuesAsked(predicates, f, {"minimum", "on_or_after"}) :
                         \A u \in ValuesAsked(predicates, f, {"maximum", "on_or_before"})
                                    \cup ValuesAsked(predicates, f, {"equals"}) : l <= u
                    /\ \A u \in ValuesAsked(predicates, f, {"maximum", "on_or_before"}) :
                         \A e \in ValuesAsked(predicates, f, {"equals"}) : e <= u
                    /\ \/ ValuesAsked(predicates, f, {"is_empty"}) = {}
                       \/ ValuesAsked(predicates, f, {"is_non_empty", "contains"}) = {}
  BY ConsistentWhen
<1>1. \A v \in ValuesAsked(predicates, f, {"equals"}) : v = g[f]
  BY DEF Compare, ValuesAsked
<1>2. \A v \in ValuesAsked(predicates, f, {"not_equals"}) : v # g[f]
  BY DEF Compare, ValuesAsked
<1>3. \A v \in ValuesAsked(predicates, f, {"minimum", "on_or_after"}) : v \in Int /\ g[f] \in Int /\ v <= g[f]
  BY DEF Compare, OrderOperators, ValuesAsked
<1>4. \A v \in ValuesAsked(predicates, f, {"maximum", "on_or_before"}) : v \in Int /\ g[f] \in Int /\ g[f] <= v
  BY DEF Compare, OrderOperators, ValuesAsked
<1>5. ValuesAsked(predicates, f, {"is_empty"}) # {} => g[f] = {}
  BY DEF Compare, ValuesAsked
<1>6. ValuesAsked(predicates, f, {"is_non_empty", "contains"}) # {} => g[f] # {}
  BY DEF Compare, ValuesAsked
<1>7. Cardinality(ValuesAsked(predicates, f, {"equals"})) <= 1
  BY <1>1, OfOneValue
<1>8. \A l \in ValuesAsked(predicates, f, {"minimum", "on_or_after"}) :
        \A u \in ValuesAsked(predicates, f, {"maximum", "on_or_before"}) \cup ValuesAsked(predicates, f, {"equals"}) : l <= u
  BY <1>1, <1>3, <1>4
<1>9. \A u \in ValuesAsked(predicates, f, {"maximum", "on_or_before"}) : \A e \in ValuesAsked(predicates, f, {"equals"}) : e <= u
  BY <1>1, <1>4
<1>10. ValuesAsked(predicates, f, {"equals"}) \cap ValuesAsked(predicates, f, {"not_equals"}) = {}
  BY <1>1, <1>2
<1>11. ValuesAsked(predicates, f, {"is_empty"}) = {} \/ ValuesAsked(predicates, f, {"is_non_empty", "contains"}) = {}
  BY <1>5, <1>6
<1> QED
  BY <1>7, <1>8, <1>9, <1>10, <1>11

\* A rule that contradicts itself, which the contract of a plan refuses, no applicant
\* meets.
LEMMA RefusedRuleIsUnusable ==
  ASSUME request \in Requests, NEW r \in DOMAIN plan.rule, ~PredicatesConsistent(plan.rule[r].predicates),
         NEW g \in FactChoices[DOMAIN profile.facts]
  PROVE  Combine("all", Image(Outcomes([facts |-> g, credentials |-> 1, languages |-> <<"yes">>], plan.rule[r])))
           # "confirmed"
<1> DEFINE told == [facts |-> g, credentials |-> 1, languages |-> <<"yes">>]
           P == plan.rule[r].predicates
<1> SUFFICES ASSUME Combine("all", Image(Outcomes(told, plan.rule[r]))) = "confirmed" PROVE FALSE
  OBVIOUS
<1>1. \A f : ProfileValue(told, f) = g[f]
  BY OnlyResultCounts DEF ProfileValue
<1>2. ASSUME NEW x \in P PROVE g[x.field] # Unknown /\ Compare(g[x.field], x.op, x.value)
  <2>1. PredicateStatus(told, x) \in Image(Outcomes(told, plan.rule[r]))
    <3> HIDE DEF told
    <3> QED
      BY DEF Outcomes, Image
  <2>2. Image(Outcomes(told, plan.rule[r])) \subseteq {"confirmed"}
    BY DEF Combine
  <2>3. PredicateStatus(told, x) = "confirmed"
    BY <2>1, <2>2
  <2> HIDE DEF told
  <2> QED
    BY <1>1, <2>3 DEF PredicateStatus
<1>3. \A x \in P : x.op \in OrderOperators => x.value \in Int /\ g[x.field] \in Int
  BY <1>2, DecisionsAssumption DEF plan, profile
<1> HIDE DEF told
<1> QED
  BY <1>2, <1>3, MetIsConsistent

\* An overridden rule always has an active, narrower rule of its subject above it, and
\* the rules the contracts refuse for contradicting themselves are those no applicant
\* could meet (override_resolution.py, rule_contracts.py).
THEOREM NoRuleIsEverLost == DecisionsSpec => []NoRuleIsLost
<1>1. ReportInv => NoRuleIsLost
  <2> SUFFICES ASSUME ReportInv PROVE NoRuleIsLost
    OBVIOUS
  <2>1. ASSUME resolution # <<>>, NEW r \in DOMAIN resolution, resolution[r].disposition = "overridden"
        PROVE  \E s \in DOMAIN resolution :
                 /\ resolution[s].disposition = "active" /\ plan.subject[s] = plan.subject[r]
                 /\ Specificity[plan.rule[s].scope.type] > Specificity[plan.rule[r].scope.type]
    <3>1. PlanAccepted(plan) /\ resolution = Resolution(plan, decisions)
      BY <2>1 DEF ReportInv, ResolutionHolds
    <3>2. DOMAIN resolution = DOMAIN plan.rule
      BY <3>1 DEF Resolution
    <3>3. \A x \in DOMAIN plan.rule : plan.rule[x].scope.type \in DOMAIN Specificity
      BY DecisionsAssumption DEF ReportInv, plan
    <3> QED
      BY <2>1, <3>1, <3>2, <3>3, ChainEndsInForce
  <2>2. \A r \in DOMAIN plan.rule : plan.rule[r].mode = "all" /\ ~PredicatesConsistent(plan.rule[r].predicates) =>
          \A g \in FactChoices[DOMAIN profile.facts] :
            Combine("all", Image(Outcomes([facts |-> g, credentials |-> 1, languages |-> <<"yes">>], plan.rule[r])))
              # "confirmed"
    BY RefusedRuleIsUnusable DEF ReportInv
  <2> QED
    BY <2>1, <2>2 DEF NoRuleIsLost
<1> QED
  BY <1>1, ReportInvariant, PTL

-----------------------------------------------------------------------------
(* What more facts leave as it was.  A completed profile keeps what is      *)
(* known, so decided conditions, scopes and rules stay as they are.         *)

\* A completion is the profile but for what it fills in.
LEMMA CompletionKeepsOf ==
  ASSUME NEW q, ProfileFields \subseteq DOMAIN q
  PROVE  \A p \in Completions(q) :
           /\ p.target = q.target /\ p.college = q.college
           /\ p.credentials = q.credentials \/ (q.credentials = 0 /\ p.credentials = 1)
           /\ p.languages = q.languages \/ (q.languages = <<>> /\ p.languages = <<"yes">>)
           /\ \A f \in DOMAIN q.facts : ProfileValue(q, f) # Unknown => p.facts[f] = q.facts[f]
<1> DEFINE G == {x \in FactChoices[DOMAIN q.facts] : \A f \in DOMAIN q.facts :
                    ProfileValue(q, f) # Unknown => x[f] = q.facts[f]}
           C == IF q.credentials = 0 THEN {0, 1} ELSE {q.credentials}
           L == IF q.languages = <<>> THEN {<<>>, <<"yes">>} ELSE {q.languages}
           With(g, c, l) == [q EXCEPT !.facts = g, !.credentials = c, !.languages = l]
<1>1. Completions(q) = {With(g, c, l) : g \in G, c \in C, l \in L}
  BY SMT DEF Completions
<1> TAKE p \in Completions(q)
<1>2. PICK g \in G, c \in C, l \in L : p = With(g, c, l)
  <2> HIDE DEF G, C, L, With
  <2> QED
    BY <1>1
<1>3. p.facts = g /\ p.credentials = c /\ p.languages = l /\ p.target = q.target /\ p.college = q.college
  BY <1>2 DEF ProfileFields
<1> QED
  BY <1>2, <1>3

\* What a completed profile leaves as it was.
LEMMA CompletionKeeps ==
  ASSUME request \in Requests, NEW p \in Completions(profile)
  PROVE  /\ p.target = profile.target /\ p.college = profile.college
         /\ p.credentials = profile.credentials \/ (profile.credentials = 0 /\ p.credentials = 1)
         /\ p.languages = profile.languages \/ (profile.languages = <<>> /\ p.languages = <<"yes">>)
         /\ \A f \in DOMAIN profile.facts : ProfileValue(profile, f) # Unknown => p.facts[f] = profile.facts[f]
<1>1. ProfileFields \subseteq DOMAIN profile
  BY DecisionsAssumption DEF profile
<1>2. p \in Completions(profile)
  OBVIOUS
<1> QED
  BY <1>1, <1>2, CompletionKeepsOf

\* Without a language result none counts.
LEMMA NoResultCounts ==
  ASSUME NEW p, p.languages = <<>> PROVE SelectedLanguageResult(p) = 0
<1>1. {i \in DOMAIN p.languages : p.languages[i] = "yes"} = {}
  OBVIOUS
<1>2. Cardinality({}) = 0 /\ Len(p.languages) = 0
  BY FS_EmptySet
<1> QED
  BY <1>1, <1>2 DEF SelectedLanguageResult

LEMMA SameLanguagesSameResult ==
  ASSUME NEW p, NEW q, p.languages = q.languages PROVE SelectedLanguageResult(p) = SelectedLanguageResult(q)
<1> DEFINE F(l) == LET marked == {i \in DOMAIN l : l[i] = "yes"}
                   IN IF Cardinality(marked) = 1 THEN CHOOSE i \in marked : TRUE
                      ELSE IF Len(l) = 1 /\ l[1] # "no" THEN 1 ELSE 0
<1>1. SelectedLanguageResult(p) = F(p.languages) /\ SelectedLanguageResult(q) = F(q.languages)
  BY DEF SelectedLanguageResult
<1> HIDE DEF F
<1> QED
  BY <1>1

\* A combination that is decided is decided by what is known.
LEMMA CombinedStays ==
  ASSUME NEW S, NEW T, NEW mode \in {"all", "any"},
         S \subseteq {"confirmed", "not_applicable", "needs_information"},
         S \ {"needs_information"} \subseteq T,
         "needs_information" \notin S => T \subseteq S,
         Combine(mode, S) # "needs_information"
  PROVE  Combine(mode, T) = Combine(mode, S)
BY DEF Combine

LEMMA ImageOfOutcomes ==
  ASSUME NEW p, NEW rule PROVE Image(Outcomes(p, rule)) = {PredicateStatus(p, x) : x \in rule.predicates}
BY DEF Image, Outcomes

\* A profile is another one with more filled in: what is known stays, the first
\* credential and a language result that counts may be added.
FilledIn(p, q) ==
  /\ q.target = p.target /\ q.college = p.college
  /\ q.credentials = p.credentials \/ (p.credentials = 0 /\ q.credentials = 1)
  /\ q.languages = p.languages \/ (p.languages = <<>> /\ q.languages # <<>> /\ SelectedLanguageResult(q) # 0)
  /\ \A f \in DOMAIN p.facts : ProfileValue(p, f) # Unknown => q.facts[f] = p.facts[f]

\* What is known stays known, as what it was.
LEMMA ValueFilledIn ==
  ASSUME NEW p, NEW q, FilledIn(p, q), NEW f \in DOMAIN p.facts, ProfileValue(p, f) # Unknown
  PROVE  ProfileValue(q, f) = ProfileValue(p, f)
<1>1. f \in CredentialFields => q.credentials # 0
  BY DEF ProfileValue, FilledIn
<1>2. f \in LanguageFields => SelectedLanguageResult(q) # 0
  BY NoResultCounts, SameLanguagesSameResult DEF ProfileValue, FilledIn
<1>3. q.facts[f] = p.facts[f]
  BY DEF FilledIn
<1> QED
  BY <1>1, <1>2, <1>3 DEF ProfileValue

\* A condition that is decided stays decided, as it was.
LEMMA OutcomeFilledIn ==
  ASSUME NEW p, NEW q, FilledIn(p, q), NEW x, x.field \in DOMAIN p.facts
  PROVE  /\ PredicateStatus(q, x) \in {"confirmed", "not_applicable", "needs_information"}
         /\ PredicateStatus(p, x) \in {"confirmed", "not_applicable", "needs_information"}
         /\ PredicateStatus(p, x) # "needs_information" => PredicateStatus(q, x) = PredicateStatus(p, x)
         /\ ProfileValue(q, x.field) # Unknown => PredicateStatus(q, x) # "needs_information"
BY ValueFilledIn DEF PredicateStatus

\* The scope of a rule does not depend on the facts that are filled in.
LEMMA ScopeFilledIn ==
  ASSUME NEW p, NEW q, FilledIn(p, q), NEW query, NEW s
  PROVE  /\ EvaluateScope(q, query, s) = EvaluateScope(p, query, s)
         /\ ScopeInputConflict(q, query, s) <=> ScopeInputConflict(p, query, s)
<1>1. q.target = p.target /\ q.college = p.college
  BY DEF FilledIn
<1>2. ScopeInputConflict(q, query, s) <=> ScopeInputConflict(p, query, s)
  BY <1>1 DEF ScopeInputConflict
<1> QED
  BY <1>1, <1>2 DEF EvaluateScope

\* Of one decision: only missing facts may go.
LEMMA DiagnosticsFilledIn ==
  ASSUME NEW p, NEW q, FilledIn(p, q), NEW query, NEW pack, NEW rule,
         p.credentials \in Nat, \A x \in rule.predicates : x.field \in DOMAIN p.facts
  PROVE  Diagnostics(q, query, pack, rule) \ {"missing_profile_fact"}
           = Diagnostics(p, query, pack, rule) \ {"missing_profile_fact"}
<1>1. /\ EvaluateScope(q, query, rule.scope) = EvaluateScope(p, query, rule.scope)
      /\ ScopeInputConflict(q, query, rule.scope) <=> ScopeInputConflict(p, query, rule.scope)
  BY ScopeFilledIn
<1>2. q.credentials > 1 <=> p.credentials > 1
  BY DEF FilledIn
<1>3. (SelectedLanguageResult(q) = 0 /\ q.languages # <<>>)
        <=> (SelectedLanguageResult(p) = 0 /\ p.languages # <<>>)
  BY SameLanguagesSameResult DEF FilledIn
<1> QED
  BY <1>1, <1>2, <1>3 DEF Diagnostics

\* A decided rule stays decided, as it was.
LEMMA DecisionFilledIn ==
  ASSUME NEW p, NEW q, FilledIn(p, q), NEW query, NEW pack, NEW rule, p.credentials \in Nat,
         rule.mode \in {"all", "any"}, \A x \in rule.predicates : x.field \in DOMAIN p.facts
  PROVE  LET d == Decision(p, query, pack, rule)
             e == Decision(q, query, pack, rule)
         IN /\ e.evidence = d.evidence
            /\ e.diagnostics \ {"missing_profile_fact"} = d.diagnostics \ {"missing_profile_fact"}
            /\ d.status # "needs_information" => e.status = d.status
<1> DEFINE d == Decision(p, query, pack, rule)
           e == Decision(q, query, pack, rule)
           now == {PredicateStatus(p, x) : x \in rule.predicates}
           then == {PredicateStatus(q, x) : x \in rule.predicates}
           scope == EvaluateScope(p, query, rule.scope)
<1>1. e.evidence = d.evidence
  BY DEF Decision
<1>2. /\ d.diagnostics = Diagnostics(p, query, pack, rule) /\ e.diagnostics = Diagnostics(q, query, pack, rule)
      /\ d.status = DecidedStatus(rule.mode, now, scope, d.diagnostics)
      /\ e.status = DecidedStatus(rule.mode, then, scope, e.diagnostics)
  <2>1. EvaluateScope(q, query, rule.scope) = scope
    BY ScopeFilledIn
  <2>2. Image(Outcomes(p, rule)) = now /\ Image(Outcomes(q, rule)) = then
    BY ImageOfOutcomes
  <2>3. /\ d.diagnostics = Diagnostics(p, query, pack, rule)
        /\ d.status = DecidedStatus(rule.mode, Image(Outcomes(p, rule)), EvaluateScope(p, query, rule.scope), d.diagnostics)
    BY DEF Decision
  <2>4. /\ e.diagnostics = Diagnostics(q, query, pack, rule)
        /\ e.status = DecidedStatus(rule.mode, Image(Outcomes(q, rule)), EvaluateScope(q, query, rule.scope), e.diagnostics)
    BY DEF Decision
  <2> HIDE DEF d, e, now, then
  <2> QED
    BY <2>1, <2>2, <2>3, <2>4
<1>3. e.diagnostics \ {"missing_profile_fact"} = d.diagnostics \ {"missing_profile_fact"}
  BY <1>2, DiagnosticsFilledIn
<1>4. e.diagnostics \cap Undecided = d.diagnostics \cap Undecided
  BY <1>3 DEF Undecided
<1>5. Combine(rule.mode, now) # "needs_information" => Combine(rule.mode, then) = Combine(rule.mode, now)
  <2>1. /\ now \subseteq {"confirmed", "not_applicable", "needs_information"}
        /\ now \ {"needs_information"} \subseteq then
        /\ "needs_information" \notin now => then \subseteq now
    BY OutcomeFilledIn
  <2> HIDE DEF now, then
  <2> QED
    BY <2>1, CombinedStays
<1>6. d.status # "needs_information" => e.status = d.status
  <2> HIDE DEF d, e, now, then, scope
  <2> QED
    BY <1>2, <1>4, <1>5 DEF DecidedStatus, CombineWithScope
<1> QED
  BY <1>1, <1>3, <1>6

\* A completed profile has more filled in.
LEMMA CompletionIsFilledIn ==
  ASSUME request \in Requests, NEW p \in Completions(profile) PROVE FilledIn(profile, p)
<1>1. p.languages = <<"yes">> => p.languages # <<>> /\ SelectedLanguageResult(p) # 0
  BY OnlyResultCounts
<1> QED
  BY <1>1, CompletionKeeps DEF FilledIn

\* A condition that is decided stays decided, as it was.
LEMMA OutcomeStays ==
  ASSUME request \in Requests, NEW p \in Completions(profile), NEW x, x.field \in DOMAIN profile.facts
  PROVE  /\ PredicateStatus(p, x) \in {"confirmed", "not_applicable", "needs_information"}
         /\ PredicateStatus(profile, x) \in {"confirmed", "not_applicable", "needs_information"}
         /\ PredicateStatus(profile, x) # "needs_information" => PredicateStatus(p, x) = PredicateStatus(profile, x)
         /\ ProfileValue(p, x.field) # Unknown => PredicateStatus(p, x) # "needs_information"
BY CompletionIsFilledIn, OutcomeFilledIn

\* The scope of a rule does not depend on the facts that are filled in.
LEMMA ScopeStays ==
  ASSUME request \in Requests, NEW p \in Completions(profile), NEW q, NEW s
  PROVE  /\ EvaluateScope(p, q, s) = EvaluateScope(profile, q, s)
         /\ ScopeInputConflict(p, q, s) <=> ScopeInputConflict(profile, q, s)
BY CompletionIsFilledIn, ScopeFilledIn

\* A decided rule stays decided, as it was.
LEMMA DecisionIsFinal ==
  ASSUME request \in Requests, NEW p \in Completions(profile), NEW q, NEW pack, NEW rule,
         rule.mode \in {"all", "any"}, \A x \in rule.predicates : x.field \in DOMAIN profile.facts
  PROVE  LET d == Decision(profile, q, pack, rule)
             e == Decision(p, q, pack, rule)
         IN /\ e.evidence = d.evidence
            /\ e.diagnostics \ {"missing_profile_fact"} = d.diagnostics \ {"missing_profile_fact"}
            /\ d.status # "needs_information" => e.status = d.status
<1>1. profile.credentials \in Nat
  BY DecisionsAssumption DEF profile
<1> QED
  BY <1>1, CompletionIsFilledIn, DecisionFilledIn

-----------------------------------------------------------------------------
(* What an answer depends on.                                               *)

\* What is reported of a rule depends on its evidence and its diagnostics only,
\* once no rule is open.
LEMMA SameAnswer ==
  ASSUME NEW p, NEW d, NEW e, NEW res, NEW an, NEW tr,
         DOMAIN e = DOMAIN d, DOMAIN res = DOMAIN d,
         \A r \in DOMAIN d : /\ e[r].evidence = d[r].evidence
                             /\ e[r].diagnostics \ {"missing_profile_fact"} = d[r].diagnostics \ {"missing_profile_fact"},
         \A r \in DOMAIN d : res[r].disposition # "pending" /\ res[r].by \in DOMAIN d \cup {NoRule},
         \A pair \in DOMAIN tr.outcomes : pair \subseteq DOMAIN d
  PROVE  CitedAnswer(p, e, res, an, tr) = CitedAnswer(p, d, res, an, tr)
<1>1. \A rules \in SUBSET DOMAIN d : Cites(e, rules) = Cites(d, rules)
  <2> SUFFICES ASSUME NEW rules \in SUBSET DOMAIN d PROVE Cites(e, rules) = Cites(d, rules)
    OBVIOUS
  <2>1. \A r \in rules : {<<r, f>> : f \in e[r].evidence} = {<<r, f>> : f \in d[r].evidence}
    OBVIOUS
  <2> QED
    BY <2>1 DEF Cites
<1>2. \A r \in DOMAIN d : SpeaksFor(res, r) \in SUBSET DOMAIN d
  BY DEF SpeaksFor
<1>3. \A r \in DOMAIN d : HasFinding(e, res, r) <=> HasFinding(d, res, r)
  BY <1>2 DEF HasFinding
<1>4. MissingInformation(p, e, res) = {} /\ MissingInformation(p, d, res) = {}
  BY DEF MissingInformation
<1>5. DiagnosticNotices(e) = DiagnosticNotices(d)
  <2> DEFINE Of(x, r) == {Notice(k, {r}) : k \in x[r].diagnostics \ {"missing_profile_fact"}}
  <2>1. \A r \in DOMAIN d : Of(e, r) = Of(d, r)
    OBVIOUS
  <2>2. DiagnosticNotices(e) = UNION {Of(e, r) : r \in DOMAIN e} /\ DiagnosticNotices(d) = UNION {Of(d, r) : r \in DOMAIN d}
    BY DEF DiagnosticNotices
  <2> HIDE DEF Of
  <2> QED
    BY <2>1, <2>2
<1>6. EvidenceNotices(e, res) = EvidenceNotices(d, res)
  <2>1. {x \in DOMAIN e : e[x].evidence = {}} = {x \in DOMAIN d : d[x].evidence = {}}
    OBVIOUS
  <2>2. {x \in DOMAIN e : e[x].evidence # {} /\ ~HasFinding(e, res, x)}
          = {x \in DOMAIN d : d[x].evidence # {} /\ ~HasFinding(d, res, x)}
    BY <1>3
  <2> QED
    BY <2>1, <2>2 DEF EvidenceNotices
<1>7. Warned(tr) \subseteq SUBSET DOMAIN d
  BY DEF Warned
<1>8. InteractionNotices(e, an, tr) = InteractionNotices(d, an, tr)
  <2>1. {x \in Warned(tr) : CitedRules(Cites(e, x)) # x} = {x \in Warned(tr) : CitedRules(Cites(d, x)) # x}
    BY <1>1, <1>7
  <2> QED
    BY <2>1 DEF InteractionNotices
<1>9. {r \in DOMAIN res : HasFinding(e, res, r)} = {r \in DOMAIN res : HasFinding(d, res, r)}
  BY <1>3
<1>10. {x \in Warned(tr) : CitedRules(Cites(e, x)) = x} = {x \in Warned(tr) : CitedRules(Cites(d, x)) = x}
  BY <1>1, <1>7
<1> DEFINE F == {r \in DOMAIN res : HasFinding(d, res, r)}
           W == {x \in Warned(tr) : CitedRules(Cites(d, x)) = x}
<1>11. [r \in F |-> Cites(e, SpeaksFor(res, r))] = [r \in F |-> Cites(d, SpeaksFor(res, r))]
  BY <1>1, <1>2
<1>12. [x \in W |-> Cites(e, x)] = [x \in W |-> Cites(d, x)]
  BY <1>1, <1>7
<1> DEFINE Made(findings, warnings, cited, warned, missing, notices) ==
             [findings |-> cited, warnings |-> warned, missing |-> missing, notices |-> notices,
              analysed |-> an.complete,
              status |-> DeriveReportStatus(res, findings, warnings, missing, notices)]
           Notices(x) == DiagnosticNotices(x) \cup EvidenceNotices(x, res) \cup InteractionNotices(x, an, tr)
<1>13. CitedAnswer(p, d, res, an, tr)
         = Made(F, W, [r \in F |-> Cites(d, SpeaksFor(res, r))], [x \in W |-> Cites(d, x)],
                MissingInformation(p, d, res), Notices(d))
  BY DEF CitedAnswer
<1>14. CitedAnswer(p, e, res, an, tr)
         = Made({r \in DOMAIN res : HasFinding(e, res, r)}, {x \in Warned(tr) : CitedRules(Cites(e, x)) = x},
                [r \in {r \in DOMAIN res : HasFinding(e, res, r)} |-> Cites(e, SpeaksFor(res, r))],
                [x \in {x \in Warned(tr) : CitedRules(Cites(e, x)) = x} |-> Cites(e, x)],
                MissingInformation(p, e, res), Notices(e))
  BY DEF CitedAnswer
<1>15. Notices(e) = Notices(d)
  BY <1>5, <1>6, <1>8
<1> HIDE DEF Made, Notices
<1> QED
  BY <1>4, <1>9, <1>10, <1>11, <1>12, <1>13, <1>14, <1>15

\* The pairs a trace reports on are of rules of the plan.
LEMMA PairsAreOfRules ==
  ASSUME NEW p, PlanAccepted(p), NEW res, DOMAIN res = DOMAIN p.rule,
         NEW pair \in DOMAIN DeriveTrace(p, Analysis(p, res)).outcomes
  PROVE  pair \subseteq DOMAIN p.rule
<1> DEFINE an == Analysis(p, res)
<1>1. pair \in DOMAIN an.warnings \cup an.compatible \cup an.inactive
  <2>1. pair \in DOMAIN DeriveTrace(p, an).outcomes
    OBVIOUS
  <2> HIDE DEF an
  <2>2. DOMAIN DeriveTrace(p, an).outcomes = DOMAIN an.warnings \cup an.compatible \cup an.inactive
    BY DEF DeriveTrace
  <2> QED
    BY <2>1, <2>2
<1>2. DOMAIN an.warnings \subseteq LivePairs(p, res) /\ an.compatible \subseteq LivePairs(p, res)
      /\ an.inactive \subseteq DOMAIN p.reviewed
  BY DEF Analysis
<1>3. \A x \in LivePairs(p, res) : x \subseteq DOMAIN p.rule
  BY DEF LivePairs
<1>4. \A x \in DOMAIN p.reviewed : x \subseteq DOMAIN p.rule
  BY DEF PlanAccepted
<1> QED
  BY <1>1, <1>2, <1>3, <1>4

\* Decisions of the same status resolve to the same resolution.
LEMMA SameResolution ==
  ASSUME NEW p, PlanAccepted(p), NEW d, NEW e, \A r \in DOMAIN p.rule : e[r].status = d[r].status
  PROVE  Resolution(p, e) = Resolution(p, d)
<1>1. Activated(p, e) = Activated(p, d)
  BY DEF Activated, PlanAccepted, PrecedenceAccepted
<1> DEFINE By(edges, r) == IF \E x \in edges : x[2] = r THEN (CHOOSE x \in edges : x[2] = r)[1] ELSE NoRule
<1>2. \A r : Overrider(p, d, r) = By(Activated(p, d), r) /\ Overrider(p, e, r) = By(Activated(p, e), r)
  BY DEF Overrider
<1> HIDE DEF By
<1>3. \A r : Overrider(p, e, r) = Overrider(p, d, r)
  BY <1>1, <1>2
<1> QED
  BY <1>3 DEF Resolution

\* What overrides is a rule of the plan.
LEMMA OverriderIsARule ==
  ASSUME NEW p, PlanAccepted(p), NEW ds, NEW r
  PROVE  /\ Overrider(p, ds, r) \in DOMAIN p.rule \cup {NoRule}
         /\ Overrider(p, ds, r) # NoRule => ds[r].status = "confirmed"
<1>1. CASE Overrider(p, ds, r) # NoRule
  <2>1. PICK x \in Activated(p, ds) : x[2] = r /\ x[1] = Overrider(p, ds, r)
    BY <1>1, OverriderIsConfirmed
  <2> QED
    BY <2>1 DEF Activated, PlanAccepted, PrecedenceAccepted
<1> QED
  BY <1>1

\* An answer with an open rule is not complete.
LEMMA PendingIsNotComplete ==
  ASSUME NEW p, PlanAccepted(p), NEW ds, DOMAIN ds = DOMAIN p.rule, NEW an, NEW tr, NEW r \in DOMAIN p.rule,
         Resolution(p, ds)[r].disposition = "pending"
  PROVE  CitedAnswer(p, ds, Resolution(p, ds), an, tr).status # "complete"
<1> DEFINE res == Resolution(p, ds)
           findings == {x \in DOMAIN res : HasFinding(ds, res, x)}
           warnings == {x \in Warned(tr) : CitedRules(Cites(ds, x)) = x}
           missing == MissingInformation(p, ds, res)
           notices == DiagnosticNotices(ds) \cup EvidenceNotices(ds, res) \cup InteractionNotices(ds, an, tr)
<1>1. CitedAnswer(p, ds, res, an, tr).status = DeriveReportStatus(res, findings, warnings, missing, notices)
  BY DEF CitedAnswer
<1>2. DOMAIN res = DOMAIN p.rule
  BY DEF Resolution
<1>3. res[r].by = NoRule
  <2>1. res[r].by = Overrider(p, ds, r) /\ Disposition(ds[r].status, res[r].by) = "pending"
    BY DEF Resolution
  <2> QED
    BY <2>1, OverriderIsARule DEF Disposition
<1>4. CASE ds[r].evidence # {}
  <2>1. r \in findings
    BY <1>2, <1>3, <1>4 DEF HasFinding, SpeaksFor
  <2> HIDE DEF res, findings, warnings, missing, notices
  <2> QED
    BY <1>1, <2>1 DEF DeriveReportStatus, res
<1>5. CASE ds[r].evidence = {}
  <2>1. Notice("missing_official_evidence", {r}) \in notices
    BY <1>5 DEF EvidenceNotices
  <2>2. Notice("missing_official_evidence", {r}).kind \in ReviewNotices
    BY DEF Notice, ReviewNotices
  <2> HIDE DEF res, findings, warnings, missing, notices
  <2> QED
    BY <1>1, <2>1, <2>2 DEF DeriveReportStatus, res
<1> QED
  BY <1>4, <1>5

\* The conditions of a rule of the plan are about facts of the profile.
LEMMA RulesAreAboutFacts ==
  ASSUME request \in Requests, NEW r \in DOMAIN plan.rule
  PROVE  /\ plan.rule[r].mode \in {"all", "any"}
         /\ \A x \in plan.rule[r].predicates : x.field \in Fields /\ x.field \in DOMAIN profile.facts
BY DecisionsAssumption DEF plan, profile

\* Once more is told, the rules that were decided are decided as they were.
LEMMA CompletedDecisions ==
  ASSUME request \in Requests, NEW p \in Completions(profile)
  PROVE  /\ DOMAIN DecisionsFor(p) = DOMAIN plan.rule /\ DOMAIN DecisionsFor(profile) = DOMAIN plan.rule
         /\ \A r \in DOMAIN plan.rule :
              LET d == DecisionsFor(profile)[r]
                  e == DecisionsFor(p)[r]
              IN /\ e.evidence = d.evidence
                 /\ e.diagnostics \ {"missing_profile_fact"} = d.diagnostics \ {"missing_profile_fact"}
                 /\ d.status # "needs_information" => e.status = d.status
<1>1. /\ DOMAIN DecisionsFor(p) = DOMAIN plan.rule /\ DOMAIN DecisionsFor(profile) = DOMAIN plan.rule
      /\ \A r \in DOMAIN plan.rule :
           /\ DecisionsFor(profile)[r] = Decision(profile, request.query, Pack, plan.rule[r])
           /\ DecisionsFor(p)[r] = Decision(p, request.query, Pack, plan.rule[r])
  BY DEF DecisionsFor
<1>2. ASSUME NEW r \in DOMAIN plan.rule
      PROVE  LET d == Decision(profile, request.query, Pack, plan.rule[r])
                 e == Decision(p, request.query, Pack, plan.rule[r])
             IN /\ e.evidence = d.evidence
                /\ e.diagnostics \ {"missing_profile_fact"} = d.diagnostics \ {"missing_profile_fact"}
                /\ d.status # "needs_information" => e.status = d.status
  BY DecisionIsFinal, RulesAreAboutFacts
<1> QED
  BY <1>1, <1>2

\* What was decided of one rule is in the notices, or in what is asked for.
LEMMA NoticesNameTheRule ==
  ASSUME NEW p, NEW ds, NEW res, NEW an, NEW tr, NEW r \in DOMAIN ds,
         ~\E n \in CitedAnswer(p, ds, res, an, tr).notices : r \in n.rules
  PROVE  ds[r].diagnostics \subseteq {"missing_profile_fact"}
<1>1. DiagnosticNotices(ds) \subseteq CitedAnswer(p, ds, res, an, tr).notices
  BY DEF CitedAnswer
<1>2. ASSUME NEW k \in ds[r].diagnostics \ {"missing_profile_fact"}
      PROVE  Notice(k, {r}) \in DiagnosticNotices(ds)
  BY DEF DiagnosticNotices
<1>3. \A k : r \in Notice(k, {r}).rules
  BY DEF Notice
<1> QED
  BY <1>1, <1>2, <1>3

LEMMA AskedForTheRule ==
  ASSUME NEW p, NEW ds, NEW res, NEW an, NEW tr, NEW r \in DOMAIN res, res[r].disposition = "pending",
         ds[r].diagnostics \subseteq {"missing_profile_fact"}
  PROVE  {x[2] : x \in {y \in CitedAnswer(p, ds, res, an, tr).missing : y[1] = r}} = ds[r].missing
<1> DEFINE AskedOf(x) ==
             LET fields == ds[x].missing
                     \cup (IF "missing_scope" \in ds[x].diagnostics
                           THEN {ScopeFields[p.rule[x].scope.type]} ELSE {})
             IN IF "ambiguous_language_result_selection" \in ds[x].diagnostics
                THEN (fields \ LanguageFields) \cup {SelectionField} ELSE fields
<1>1. AskedOf(r) = ds[r].missing
  OBVIOUS
<1>2. CitedAnswer(p, ds, res, an, tr).missing = MissingInformation(p, ds, res)
  BY DEF CitedAnswer
<1>3. MissingInformation(p, ds, res)
        = UNION {{<<x, f>> : f \in AskedOf(x)} : x \in {y \in DOMAIN res : res[y].disposition = "pending"}}
  BY DEF MissingInformation
<1> HIDE DEF AskedOf
<1>4. {y \in MissingInformation(p, ds, res) : y[1] = r} = {<<r, f>> : f \in AskedOf(r)}
  BY <1>3
<1>5. \A S : {x[2] : x \in {<<r, f>> : f \in S}} = S
  <2> SUFFICES ASSUME NEW S PROVE {x[2] : x \in {<<r, f>> : f \in S}} = S
    OBVIOUS
  <2>1. \A y \in S : <<r, y>>[2] = y
    OBVIOUS
  <2>2. \A y \in S : y \in {x[2] : x \in {<<r, f>> : f \in S}}
    BY <2>1
  <2>3. \A x \in {<<r, f>> : f \in S} : x[2] \in S
    BY <2>1
  <2> QED
    BY <2>2, <2>3
<1> QED
  BY <1>1, <1>2, <1>4, <1>5

\* An open rule that no diagnostic names waits for facts; known, they decide it.
LEMMA OpenForFacts ==
  ASSUME request \in Requests, NEW q, NEW pack, NEW rule, rule.mode \in {"all", "any"},
         \A x \in rule.predicates : x.field \in Fields /\ x.field \in DOMAIN profile.facts,
         Decision(profile, q, pack, rule).status = "needs_information",
         Decision(profile, q, pack, rule).diagnostics \subseteq {"missing_profile_fact"},
         rule.scope.type \in DOMAIN Specificity
  PROVE  LET asked == Decision(profile, q, pack, rule).missing
         IN /\ asked # {}
            /\ \A p \in Completions(profile) : (\A f \in asked \cap Fields : ProfileValue(p, f) # Unknown)
                 => Decision(p, q, pack, rule).status # "needs_information"
<1> DEFINE d == Decision(profile, q, pack, rule)
           now == {PredicateStatus(profile, x) : x \in rule.predicates}
           scope == EvaluateScope(profile, q, rule.scope)
           Three == {"confirmed", "not_applicable", "needs_information"}
<1>1. /\ d.diagnostics = Diagnostics(profile, q, pack, rule)
      /\ d.status = DecidedStatus(rule.mode, now, scope, d.diagnostics)
      /\ d.missing = {x.field : x \in {y \in rule.predicates : PredicateStatus(profile, y) = "needs_information"}}
  BY ImageOfOutcomes DEF Decision, Outcomes
<1>2. scope # "needs_information"
  <2>1. rule.scope.type = "global" => scope = "confirmed"
    BY DEF EvaluateScope
  <2>2. rule.scope.type # "global" /\ ScopeInputConflict(profile, q, rule.scope)
          => "scope_input_conflict" \in Diagnostics(profile, q, pack, rule)
    BY DEF Diagnostics
  <2>3. rule.scope.type # "global" /\ ~ScopeInputConflict(profile, q, rule.scope) /\ scope = "needs_information"
          => "missing_scope" \in Diagnostics(profile, q, pack, rule)
    BY DEF Diagnostics
  <2> QED
    BY <1>1, <2>1, <2>2, <2>3
<1>3. d.diagnostics \cap Undecided = {}
  BY DEF Undecided
<1>4. scope = "confirmed" /\ Combine(rule.mode, now) = "needs_information"
  <2>1. CombineWithScope(Combine(rule.mode, now), scope) = "needs_information"
    BY <1>1, <1>3 DEF DecidedStatus
  <2>2. scope \in Three
    BY DEF EvaluateScope, MatchScope, CombineScopeComponents
  <2>3. Combine(rule.mode, now) \in Three
    BY DEF Combine
  <2> HIDE DEF scope, now
  <2> QED
    BY <1>2, <2>1, <2>2, <2>3 DEF CombineWithScope
<1>5. d.missing # {}
  <2>1. now \subseteq Three
    BY OutcomeStays DEF PredicateStatus
  <2>2. "needs_information" \in now
    <3> HIDE DEF now
    <3> QED
      BY <1>4, <2>1 DEF Combine
  <2> QED
    BY <1>1, <2>2
<1>6. ASSUME NEW p \in Completions(profile), \A f \in d.missing \cap Fields : ProfileValue(p, f) # Unknown
      PROVE  Decision(p, q, pack, rule).status # "needs_information"
  <2> DEFINE e == Decision(p, q, pack, rule)
             then == {PredicateStatus(p, x) : x \in rule.predicates}
  <2>1. then \subseteq {"confirmed", "not_applicable"}
    <3> SUFFICES ASSUME NEW x \in rule.predicates PROVE PredicateStatus(p, x) \in {"confirmed", "not_applicable"}
      OBVIOUS
    <3>1. CASE PredicateStatus(profile, x) = "needs_information"
      <4>1. x.field \in d.missing \cap Fields
        BY <1>1, <3>1
      <4> HIDE DEF d
      <4> QED
        BY <1>6, <4>1, OutcomeStays
    <3>2. CASE PredicateStatus(profile, x) # "needs_information"
      BY <3>2, OutcomeStays
    <3> QED
      BY <3>1, <3>2
  <2>2. Combine(rule.mode, then) \in {"confirmed", "not_applicable"}
    <3> HIDE DEF then
    <3> QED
      BY <2>1 DEF Combine
  <2>3. e.diagnostics \cap Undecided = {}
    <3>1. e.diagnostics \ {"missing_profile_fact"} = d.diagnostics \ {"missing_profile_fact"}
      BY DecisionIsFinal
    <3> HIDE DEF d, e
    <3> QED
      BY <1>3, <3>1 DEF Undecided
  <2>4. e.status = DecidedStatus(rule.mode, then, scope, e.diagnostics)
    BY ImageOfOutcomes, ScopeStays DEF Decision
  <2> HIDE DEF then, scope, e
  <2> QED
    BY <1>4, <2>2, <2>3, <2>4 DEF DecidedStatus, CombineWithScope, e
<1> QED
  BY <1>5, <1>6

\* An answer that says it is complete never has to be taken back; a rule that is open
\* is named by a notice or asks for facts that decide it (cited_answer.py: missing
\* information, status).
THEOREM AnswersSayWhatStaysOpen == DecisionsSpec => []AnswersSayWhatIsOpen
<1>1. ASSUME ReportInv, stage \in {"answered", "reported"}
      PROVE  /\ PlanAccepted(plan) /\ decisions = DecisionsFor(profile) /\ resolution = Resolution(plan, decisions)
             /\ request \in Requests /\ DOMAIN decisions = DOMAIN plan.rule /\ DOMAIN resolution = DOMAIN plan.rule
             /\ analysis = Analysis(plan, resolution) /\ trace = DeriveTrace(plan, analysis)
             /\ answer = CitedAnswer(plan, decisions, resolution, analysis, trace)
  <2>1. /\ PlanAccepted(plan) /\ decisions = DecisionsFor(profile) /\ resolution = Resolution(plan, decisions)
        /\ request \in Requests
        /\ analysis = Analysis(plan, resolution) /\ trace = DeriveTrace(plan, analysis)
        /\ answer = CitedAnswer(plan, decisions, resolution, analysis, trace)
    BY <1>1 DEF ReportInv, EvidenceHeld, StagesHold, Prepared, Decided, Resolved, Analysed, Traced, Answered, Reported
  <2>2. DOMAIN decisions = DOMAIN plan.rule
    BY <2>1 DEF DecisionsFor
  <2>3. DOMAIN resolution = DOMAIN plan.rule
    BY <2>1 DEF Resolution
  <2> QED
    BY <2>1, <2>2, <2>3
<1>2. ReportInv => CompleteAnswersAreFinal
  <2> SUFFICES ASSUME ReportInv, stage \in {"answered", "reported"}, answer.status = "complete",
                      NEW p \in Completions(profile)
               PROVE  LET ds == DecisionsFor(p)
                          res == Resolution(plan, ds)
                          an == Analysis(plan, res)
                      IN res = resolution /\ CitedAnswer(plan, ds, res, an, DeriveTrace(plan, an)) = answer
    BY DEF CompleteAnswersAreFinal
  <2> DEFINE ds == DecisionsFor(p)
  <2>1. \A r \in DOMAIN plan.rule : resolution[r].disposition # "pending"
    BY <1>1, PendingIsNotComplete
  <2>2. \A r \in DOMAIN plan.rule : decisions[r].status # "needs_information"
    BY <1>1, <2>1 DEF Resolution, Disposition
  <2>3. Resolution(plan, ds) = resolution
    <3>1. \A r \in DOMAIN plan.rule : ds[r].status = decisions[r].status
      BY <1>1, <2>2, CompletedDecisions
    <3> HIDE DEF ds
    <3> QED
      BY <1>1, <3>1, SameResolution
  <2>4. CitedAnswer(plan, ds, resolution, analysis, trace) = answer
    <3>1. \A r \in DOMAIN plan.rule : resolution[r].by \in DOMAIN plan.rule \cup {NoRule}
      BY <1>1, OverriderIsARule DEF Resolution
    <3>2. \A pair \in DOMAIN trace.outcomes : pair \subseteq DOMAIN plan.rule
      BY <1>1, PairsAreOfRules
    <3>3. DOMAIN ds = DOMAIN decisions
          /\ \A r \in DOMAIN decisions :
               /\ ds[r].evidence = decisions[r].evidence
               /\ ds[r].diagnostics \ {"missing_profile_fact"} = decisions[r].diagnostics \ {"missing_profile_fact"}
      BY <1>1, CompletedDecisions
    <3> HIDE DEF ds
    <3> QED
      BY <1>1, <2>1, <3>1, <3>2, <3>3, SameAnswer
  <2> HIDE DEF ds
  <2>5. Analysis(plan, Resolution(plan, ds)) = analysis
    BY <1>1, <2>3
  <2> QED
    BY <1>1, <2>3, <2>4, <2>5 DEF ds
<1>3. ReportInv => PendingIsExplained
  <2> SUFFICES ASSUME ReportInv, stage \in {"answered", "reported"},
                      NEW r \in DOMAIN resolution, resolution[r].disposition = "pending"
               PROVE  /\ answer.status # "complete"
                      /\ \/ \E n \in answer.notices : r \in n.rules
                         \/ LET asked == {x[2] : x \in {y \in answer.missing : y[1] = r}}
                            IN /\ asked # {}
                               /\ \A p \in Completions(profile) :
                                    (\A f \in asked \cap Fields : ProfileValue(p, f) # Unknown)
                                      => DecisionsFor(p)[r].status # "needs_information"
    BY DEF PendingIsExplained
  <2>1. answer.status # "complete"
    BY <1>1, PendingIsNotComplete
  <2>2. ASSUME ~\E n \in answer.notices : r \in n.rules
        PROVE  LET asked == {x[2] : x \in {y \in answer.missing : y[1] = r}}
               IN /\ asked # {}
                  /\ \A p \in Completions(profile) :
                       (\A f \in asked \cap Fields : ProfileValue(p, f) # Unknown)
                         => DecisionsFor(p)[r].status # "needs_information"
    <3> DEFINE d == Decision(profile, request.query, Pack, plan.rule[r])
               asked == {x[2] : x \in {y \in answer.missing : y[1] = r}}
    <3>1. r \in DOMAIN plan.rule /\ decisions[r] = d
      BY <1>1 DEF DecisionsFor
    <3>2. d.diagnostics \subseteq {"missing_profile_fact"}
      BY <1>1, <2>2, <3>1, NoticesNameTheRule
    <3>3. asked = d.missing
      <4> HIDE DEF d
      <4> QED
        BY <1>1, <3>1, <3>2, AskedForTheRule
    <3>4. d.status = "needs_information"
      <4> HIDE DEF d
      <4> QED
        BY <1>1, <3>1 DEF Resolution, Disposition
    <3>5. plan.rule[r].scope.type \in DOMAIN Specificity
      BY <1>1, <3>1, DecisionsAssumption DEF plan
    <3>6. /\ d.missing # {}
          /\ \A p \in Completions(profile) : (\A f \in d.missing \cap Fields : ProfileValue(p, f) # Unknown)
               => Decision(p, request.query, Pack, plan.rule[r]).status # "needs_information"
      BY <1>1, <3>1, <3>2, <3>4, <3>5, OpenForFacts, RulesAreAboutFacts
    <3>7. \A p : DecisionsFor(p)[r] = Decision(p, request.query, Pack, plan.rule[r])
      BY <3>1 DEF DecisionsFor
    <3> HIDE DEF d, asked
    <3> QED
      BY <3>3, <3>6, <3>7 DEF asked
  <2> QED
    BY <2>1, <2>2
<1> QED
  BY <1>2, <1>3, ReportInvariant, PTL DEF AnswersSayWhatIsOpen

-----------------------------------------------------------------------------
(* A question answered in words.  What is projected is of the report, what  *)
(* is posed of the projection, what is drafted of what was posed.           *)

Late == {"projected", "refused"} \cup Posed

\* The report the projection is of.
AnswerHeld ==
  /\ PlanAccepted(plan) /\ decisions = DecisionsFor(profile)
  /\ resolution = Resolution(plan, decisions) /\ ~Ambiguous(plan, decisions)
  /\ analysis = Analysis(plan, resolution) /\ trace = DeriveTrace(plan, analysis)
  /\ answer = CitedAnswer(plan, decisions, resolution, analysis, trace)

ProjectionHeld ==
  /\ Asked /\ stage \in Late /\ request \in Requests /\ AnswerHeld
  /\ projection = Projected(answer)

PosedHeld ==
  /\ posed = [findings |-> GenerationFindings(projection), evidence |-> found.facts]
  /\ found.kb = bundle.kb
  /\ \A id \in DOMAIN posed.findings : FindingAccepted(posed.findings[id]) /\ posed.findings[id].evidence \subseteq found.facts
  /\ \A r \in DOMAIN projection.findings :
       decisions[r].status # "not_applicable" => FindingScopeMatchesTarget(plan.rule[r].scope)

DraftHeld == draft = OfflineDraft(posed) \/ draft \in Drafts(posed)

GroundedHeld ==
  /\ GenerateChecked(posed, draft) = "accepted" /\ StateOfAnswerKept(draft)
  /\ grounded = [claims |-> {GroundClaim(c) : c \in draft.claims}, missing |-> draft.missing, review |-> draft.review]

GroundedInv ==
  /\ projection # <<>> \/ stage \in {"projected"} \cup Posed => ProjectionHeld
  /\ posed # <<>> \/ stage \in Posed => ProjectionHeld /\ PosedHeld
  /\ stage \in {"drafted", "grounded", "presented"} => DraftHeld
  /\ grounded # <<>> \/ stage \in {"grounded", "presented"} =>
       ProjectionHeld /\ PosedHeld /\ DraftHeld /\ GroundedHeld
  /\ posed # <<>> => stage \in Posed \cup {"refused"}
  /\ grounded # <<>> => stage \in {"grounded", "presented", "refused"}

LEMMA InitGroundedInv == DecisionsInit => GroundedInv
BY DEF DecisionsInit, GroundedInit, Init, GroundedInv, Posed

\* Before there is a projection.
LEMMA EarlyKeeps ==
  ASSUME GroundedInv, stage \notin Late, stage' \notin {"projected"} \cup Posed,
         projection' = projection, posed' = posed, grounded' = grounded
  PROVE  GroundedInv'
<1>1. projection = <<>> /\ posed = <<>> /\ grounded = <<>>
  BY DEF GroundedInv, ProjectionHeld
<1> QED
  BY <1>1 DEF GroundedInv, Posed

\* What each part is of, when nothing it is of changes.
LEMMA SameAnswerHeld ==
  ASSUME UNCHANGED <<request, bundle, decisions, resolution, analysis, trace, answer>>
  PROVE  AnswerHeld' = AnswerHeld
BY SameReading DEF AnswerHeld

LEMMA SameProjection ==
  ASSUME UNCHANGED <<request, resolution, answer, intent, found>>
  PROVE  Projected(answer)' = Projected(answer)
<1>1. plan' = plan
  BY DEF plan
<1>2. Candidates(answer)' = Candidates(answer)
  BY <1>1 DEF Candidates, AskedSubjects
<1>3. Kept(answer)' = Kept(answer)
  BY <1>1, <1>2 DEF Kept, FamiliesOf, FamilyOf, NamedFamilies
<1> QED
  BY <1>1, <1>3 DEF Projected

LEMMA SameProjectionHeld ==
  ASSUME ProjectionHeld, UNCHANGED <<request, bundle, decisions, resolution, analysis, trace, answer, intent, found, projection>>,
         stage' \in Late
  PROVE  ProjectionHeld'
BY SameAnswerHeld, SameProjection DEF ProjectionHeld, Asked

LEMMA SamePosedHeld ==
  ASSUME PosedHeld, UNCHANGED <<request, bundle, decisions, found, projection, posed>>
  PROVE  PosedHeld'
<1>1. plan' = plan /\ profile' = profile
  BY DEF plan, profile
<1>2. GenerationFindings(projection)' = GenerationFindings(projection)
  BY DEF GenerationFindings, StatusForModel
<1> QED
  BY <1>1, <1>2 DEF PosedHeld, FindingScopeMatchesTarget

LEMMA SameDraftHeld == ASSUME DraftHeld, UNCHANGED <<posed, draft>> PROVE DraftHeld'
BY DEF DraftHeld

LEMMA SameGroundedHeld ==
  ASSUME GroundedHeld, UNCHANGED <<projection, posed, draft, grounded>> PROVE GroundedHeld'
BY DEF GroundedHeld, StateOfAnswerKept, GroundClaim

\* A step that leaves what was made as it is.
LEMMA LateKeeps ==
  ASSUME GroundedInv, UNCHANGED <<request, bundle, decisions, resolution, analysis, trace, answer, gvars>>,
         \/ stage' = stage
         \/ stage' = "refused" 
         \/ stage = "grounded" /\ stage' = "presented"
  PROVE  GroundedInv'
<1> USE DEF Late, Posed
<1>1. UNCHANGED <<intent, found, projection, posed, draft, grounded>>
  BY DEF gvars
<1>2. ProjectionHeld => ProjectionHeld'
  <2> SUFFICES ASSUME ProjectionHeld PROVE ProjectionHeld'
    OBVIOUS
  <2>1. stage' \in Late
    BY DEF ProjectionHeld
  <2> QED
    BY <1>1, <2>1, SameProjectionHeld
<1>3. PosedHeld => PosedHeld'
  BY <1>1, SamePosedHeld
<1>4. DraftHeld => DraftHeld'
  BY <1>1, SameDraftHeld
<1>5. GroundedHeld => GroundedHeld'
  BY <1>1, SameGroundedHeld
<1> QED
  BY <1>1, <1>2, <1>3, <1>4, <1>5 DEF GroundedInv

LEMMA FailKeeps == ASSUME GroundedInv, NEW reason, Fail(reason) PROVE GroundedInv'
BY LateKeeps DEF Fail, Refuse

\* A report is built before any of it.
LEMMA ReportKeepsGrounded == ASSUME GroundedInv, Next, UNCHANGED gvars PROVE GroundedInv'
<1>1. stage \notin Late /\ stage' \notin {"projected"} \cup Posed
  BY DEF Next, RewriteKb, LoadPlan, Audit, PrepareEvidence, Decide, Resolve, Analyze, BuildTrace, BuildAnswer,
         BuildReport, Refuse, Late, Posed
<1> QED
  BY <1>1, EarlyKeeps DEF gvars

\* The four steps that hand something on: each checks what it hands on.
LEMMA ProjectKeeps == ASSUME ReportInv, GroundedInv, ProjectToRetrieval PROVE GroundedInv'
<1>1. CASE \E reason : Fail(reason)
  BY <1>1, FailKeeps
<1>2. CASE projection' = Projected(answer) /\ Advance("projected") /\ UNCHANGED <<intent, found, posed, draft, grounded>>
  <2>1. Asked /\ stage = "reported"
    BY DEF ProjectToRetrieval
  <2>2. AnswerHeld /\ request \in Requests
    BY <2>1 DEF ReportInv, EvidenceHeld, StagesHold, AnswerHeld, Prepared, Decided, Resolved, Analysed, Traced, Answered, Reported
  <2>3. UNCHANGED <<request, bundle, decisions, resolution, analysis, trace, answer>> /\ stage' = "projected"
    BY <1>2 DEF Advance
  <2>4. AnswerHeld' /\ Projected(answer)' = Projected(answer) /\ Asked'
    BY <1>2, <2>1, <2>2, <2>3, SameAnswerHeld, SameProjection DEF Asked
  <2>5. ProjectionHeld'
    BY <1>2, <2>2, <2>3, <2>4 DEF ProjectionHeld, Late
  <2>6. posed = <<>> /\ grounded = <<>>
    BY <2>1 DEF GroundedInv, Posed
  <2> QED
    BY <1>2, <2>3, <2>5, <2>6 DEF GroundedInv, Posed
<1> QED
  BY <1>1, <1>2 DEF ProjectToRetrieval

LEMMA PrepareKeeps == ASSUME GroundedInv, PrepareRequest PROVE GroundedInv'
<1> DEFINE fs == GenerationFindings(projection)
<1>1. CASE \E reason : Fail(reason)
  BY <1>1, FailKeeps
<1>2. CASE /\ posed' = [findings |-> fs, evidence |-> found.facts] /\ Advance("posed")
           /\ UNCHANGED <<intent, found, projection, draft, grounded>>
           /\ found.kb = bundle.kb
           /\ \A id \in DOMAIN fs : FindingAccepted(fs[id]) /\ fs[id].evidence \subseteq found.facts
           /\ \A r \in DOMAIN projection.findings :
                decisions[r].status # "not_applicable" => FindingScopeMatchesTarget(plan.rule[r].scope)
  <2>1. stage = "projected" /\ stage' = "posed"
    BY <1>2 DEF PrepareRequest, Advance
  <2>2. UNCHANGED <<request, bundle, decisions, resolution, analysis, trace, answer>>
    BY <1>2 DEF Advance
  <2>3. ProjectionHeld /\ grounded = <<>>
    BY <2>1 DEF GroundedInv
  <2>4. ProjectionHeld'
    BY <1>2, <2>1, <2>2, <2>3, SameProjectionHeld DEF Late, Posed
  <2>5. plan' = plan /\ profile' = profile /\ fs' = fs
    BY <1>2, <2>2 DEF plan, profile, GenerationFindings, StatusForModel
  <2>6. posed'.findings = fs
    BY <1>2
  <2> HIDE DEF fs
  <2>7. PosedHeld'
    BY <1>2, <2>2, <2>5, <2>6 DEF PosedHeld, FindingScopeMatchesTarget, fs
  <2> QED
    BY <1>2, <2>1, <2>3, <2>4, <2>7 DEF GroundedInv, Posed
<1> QED
  BY <1>1, <1>2 DEF PrepareRequest

LEMMA GenerateKeeps == ASSUME GroundedInv, Generate PROVE GroundedInv'
<1>1. CASE \E reason : Fail(reason)
  BY <1>1, FailKeeps
<1>2. CASE /\ draft' = OfflineDraft(posed) \/ draft' \in Drafts(posed)
           /\ Advance("drafted") /\ UNCHANGED <<intent, found, projection, posed, grounded>>
  <2>1. stage = "posed" /\ stage' = "drafted"
    BY <1>2 DEF Generate, Advance
  <2>2. UNCHANGED <<request, bundle, decisions, resolution, analysis, trace, answer>>
    BY <1>2 DEF Advance
  <2>3. ProjectionHeld /\ PosedHeld /\ grounded = <<>>
    BY <2>1 DEF GroundedInv, Posed
  <2>4. ProjectionHeld'
    BY <1>2, <2>1, <2>2, <2>3, SameProjectionHeld DEF Late, Posed
  <2>5. PosedHeld'
    BY <1>2, <2>2, <2>3, SamePosedHeld
  <2>6. OfflineDraft(posed)' = OfflineDraft(posed) /\ Drafts(posed)' = Drafts(posed)
    BY <1>2
  <2>7. DraftHeld'
    BY <1>2, <2>6 DEF DraftHeld
  <2> QED
    BY <1>2, <2>1, <2>3, <2>4, <2>5, <2>7 DEF GroundedInv, Posed
<1> QED
  BY <1>1, <1>2 DEF Generate

LEMMA GroundKeeps == ASSUME GroundedInv, Ground PROVE GroundedInv'
<1>1. CASE \E reason : Fail(reason)
  BY <1>1, FailKeeps
<1>2. CASE /\ GenerateChecked(posed, draft) = "accepted" /\ StateOfAnswerKept(draft)
           /\ grounded' = [claims |-> {GroundClaim(c) : c \in draft.claims},
                           missing |-> draft.missing, review |-> draft.review]
           /\ Advance("grounded") /\ UNCHANGED <<intent, found, projection, posed, draft>>
  <2>1. stage = "drafted" /\ stage' = "grounded"
    BY <1>2 DEF Ground, Advance
  <2>2. UNCHANGED <<request, bundle, decisions, resolution, analysis, trace, answer>>
    BY <1>2 DEF Advance
  <2>3. ProjectionHeld /\ PosedHeld /\ DraftHeld
    BY <2>1 DEF GroundedInv, Posed
  <2>4. ProjectionHeld'
    BY <1>2, <2>1, <2>2, <2>3, SameProjectionHeld DEF Late, Posed
  <2>5. PosedHeld' /\ DraftHeld'
    BY <1>2, <2>2, <2>3, SamePosedHeld, SameDraftHeld
  <2>6. GroundedHeld'
    BY <1>2 DEF GroundedHeld, StateOfAnswerKept, GroundClaim
  <2> QED
    BY <1>2, <2>1, <2>3, <2>4, <2>5, <2>6 DEF GroundedInv, Posed
<1> QED
  BY <1>1, <1>2 DEF Ground

LEMMA GroundedKeepsGrounded == ASSUME ReportInv, GroundedInv, GroundedNext PROVE GroundedInv'
<1>1. CASE ReportStep
  BY <1>1, ReportKeepsGrounded DEF ReportStep
<1>2. CASE RewriteDuringSearch
  BY <1>2, LateKeeps DEF RewriteDuringSearch
<1>3. CASE SearchDocument
  <2>1. CASE \E reason : Fail(reason)
    BY <2>1, FailKeeps
  <2>2. CASE UNCHANGED vars /\ UNCHANGED <<intent, projection, posed, draft, grounded>>
    BY <1>3, <2>2, EarlyKeeps DEF SearchDocument, vars, Late, Posed
  <2> QED
    BY <1>3, <2>1, <2>2 DEF SearchDocument
<1>4. CASE UnderstandQuestion
  <2>1. CASE \E reason : Fail(reason)
    BY <2>1, FailKeeps
  <2>2. CASE UNCHANGED vars /\ UNCHANGED <<found, projection, posed, draft, grounded>>
    BY <1>4, <2>2, EarlyKeeps DEF UnderstandQuestion, vars, Late, Posed
  <2> QED
    BY <1>4, <2>1, <2>2 DEF UnderstandQuestion
<1>5. CASE EvidenceTooLong
  BY <1>5, FailKeeps DEF EvidenceTooLong
<1>6. CASE Present
  <2>1. CASE \E reason : Fail(reason)
    BY <2>1, FailKeeps
  <2>2. CASE stage = "grounded" /\ Advance("presented") /\ UNCHANGED gvars
    BY <2>2, LateKeeps DEF Advance
  <2> QED
    BY <1>6, <2>1, <2>2 DEF Present
<1> QED
  BY <1>1, <1>2, <1>3, <1>4, <1>5, <1>6, ProjectKeeps, PrepareKeeps, GenerateKeeps, GroundKeeps DEF GroundedNext

LEMMA DemoKeepsGrounded == ASSUME GroundedInv, DemoNext, UNCHANGED gvars PROVE GroundedInv'
<1>1. CASE RefuseForm
  BY <1>1, LateKeeps DEF RefuseForm, Refuse
<1>2. CASE ReportForForm
  BY <1>2, ReportKeepsGrounded DEF ReportForForm
<1>3. CASE ShowRequirements
  BY <1>3, LateKeeps DEF ShowRequirements, Refuse, vars
<1>4. CASE CompareForm
  BY <1>4, EarlyKeeps DEF CompareForm, gvars, Late, Posed
<1> QED
  BY <1>1, <1>2, <1>3, <1>4 DEF DemoNext

LEMMA StepKeepsGrounded == ReportInv /\ GroundedInv /\ [DecisionsNext]_<<allVars, demoVars>> => GroundedInv'
<1>1. GroundedInv /\ UNCHANGED <<allVars, demoVars>> => GroundedInv'
  BY LateKeeps DEF allVars, vars
<1> QED
  BY <1>1, GroundedKeepsGrounded, DemoKeepsGrounded DEF DecisionsNext

\* Whatever the provider drafts and whenever a stage gives up: what is projected,
\* posed, drafted and grounded is of the report it was made from (service/app.py,
\* generation/grounded_rag.py).
THEOREM GroundedInvariant == DecisionsSpec => [](ReportInv /\ GroundedInv)
BY InitReportInv, InitGroundedInv, StepKeepsReport, StepKeepsGrounded, PTL DEF DecisionsSpec

-----------------------------------------------------------------------------
(* Settled answers.  Overrides are within a family, so the rules of one     *)
(* that was retrieved as a whole are decided by what was retrieved.         *)

\* Without rivals, the override of a rule depends on the edges to it only.
LEMMA OverriderIsLocal ==
  ASSUME NEW p, NEW d, NEW e, ~Ambiguous(p, d), NEW r,
         \A x \in p.edges : x[2] = r => (x \in Activated(p, e) <=> x \in Activated(p, d))
  PROVE  Overrider(p, e, r) = Overrider(p, d, r)
<1> DEFINE Is(ds, x) == x \in Activated(p, ds) /\ x[2] = r
<1>1. \A x : Is(e, x) <=> Is(d, x)
  BY DEF Activated
<1>2. \A x, y : Is(d, x) /\ Is(d, y) => x = y
  BY DEF Ambiguous
<1>3. CASE \E x : Is(d, x)
  <2>1. Is(d, CHOOSE x \in Activated(p, d) : x[2] = r)
    BY <1>3
  <2>2. Is(e, CHOOSE x \in Activated(p, e) : x[2] = r)
    BY <1>1, <1>3
  <2>3. (CHOOSE x \in Activated(p, e) : x[2] = r) = (CHOOSE x \in Activated(p, d) : x[2] = r)
    <3> HIDE DEF Is
    <3> QED
      BY <1>1, <1>2, <2>1, <2>2
  <2> QED
    BY <1>1, <1>3, <2>3 DEF Overrider
<1>4. CASE ~\E x : Is(d, x)
  BY <1>1, <1>4 DEF Overrider
<1> QED
  BY <1>3, <1>4

\* Of a family that is kept, every rule that was retrieved is.
LEMMA WholeFamilyIsKept ==
  ASSUME NEW r \in Kept(answer), NEW s \in Candidates(answer), FamilyOf(s) = FamilyOf(r)
  PROVE  s \in Kept(answer)
<1>1. r \in Kept(answer)
  OBVIOUS
<1> QED
  BY <1>1 DEF Kept

\* What a grounded answer that needs no review says of the rules it kept.
LEMMA SettledIsComplete ==
  ASSUME GroundedInv, grounded # <<>>, ~grounded.review
  PROVE  /\ ProjectionHeld /\ DOMAIN projection.findings = Kept(answer)
         /\ \A r \in Kept(answer) : resolution[r].disposition # "pending"
<1>1. ProjectionHeld /\ GroundedHeld
  BY DEF GroundedInv
<1>2. projection.status = "complete"
  BY <1>1 DEF GroundedHeld, StateOfAnswerKept
<1> DEFINE kept == Kept(answer)
           warnings == {p \in DOMAIN answer.warnings : p \subseteq kept /\ CitedFacts(answer.warnings[p]) \subseteq found.facts}
           missing == {x \in answer.missing : x[1] \in kept}
           notices == {n \in answer.notices : n.rules # {} /\ n.rules \subseteq kept}
<1>3. DOMAIN projection.findings = kept
      /\ projection.status = DeriveReportStatus(resolution, kept, warnings, missing, notices)
  BY <1>1 DEF ProjectionHeld, Projected
<1> HIDE DEF kept, warnings, missing, notices
<1>4. \A r \in kept : resolution[r].disposition # "pending"
  BY <1>2, <1>3 DEF DeriveReportStatus
<1> QED
  BY <1>1, <1>3, <1>4 DEF kept

\* A grounded answer that asks for no review stays what it is, whatever else the
\* applicant tells, for every family that was retrieved as a whole
\* (generation/grounded_rag.py: project_answer_to_retrieval).
THEOREM SettledStaysFinal == DecisionsSpec => []SettledAnswersAreFinal
<1>1. GroundedInv => SettledAnswersAreFinal
  <2> SUFFICES ASSUME GroundedInv, grounded # <<>>, ~grounded.review, NEW p \in Completions(profile),
                      NEW r \in DOMAIN projection.findings,
                      \A s \in DOMAIN resolution : FamilyOf(s) = FamilyOf(r) => s \in Candidates(answer)
               PROVE  Resolution(plan, DecisionsFor(p))[r] = resolution[r]
    BY DEF SettledAnswersAreFinal
  <2> DEFINE ds == DecisionsFor(p)
  <2>1. /\ ProjectionHeld /\ r \in Kept(answer)
        /\ \A x \in Kept(answer) : resolution[x].disposition # "pending"
    BY SettledIsComplete
  <2>2. /\ PlanAccepted(plan) /\ decisions = DecisionsFor(profile) /\ resolution = Resolution(plan, decisions)
        /\ ~Ambiguous(plan, decisions) /\ request \in Requests
    BY <2>1 DEF ProjectionHeld, AnswerHeld
  <2>3. DOMAIN resolution = DOMAIN plan.rule
    BY <2>2 DEF Resolution
  <2>4. r \in DOMAIN plan.rule
    <3>1. Kept(answer) \subseteq DOMAIN answer.findings
      BY DEF Kept, Candidates
    <3>2. DOMAIN answer.findings \subseteq DOMAIN resolution
      <4>1. answer = CitedAnswer(plan, decisions, resolution, analysis, trace)
        BY <2>1 DEF ProjectionHeld, AnswerHeld
      <4>2. DOMAIN answer.findings = {x \in DOMAIN resolution : HasFinding(decisions, resolution, x)}
        BY <4>1 DEF CitedAnswer
      <4> QED
        BY <4>2
    <3> QED
      BY <2>1, <2>3, <3>1, <3>2
  <2>5. ASSUME NEW s \in DOMAIN plan.rule, FamilyOf(s) = FamilyOf(r) PROVE ds[s].status = decisions[s].status
    <3>1. s \in Kept(answer)
      BY <2>1, <2>3, <2>5, WholeFamilyIsKept
    <3>2. decisions[s].status # "needs_information"
      BY <2>1, <2>2, <3>1 DEF Resolution, Disposition
    <3> QED
      BY <2>2, <3>2, CompletedDecisions
  <2>6. \A x \in plan.edges : x[2] = r => (x \in Activated(plan, ds) <=> x \in Activated(plan, decisions))
    <3> SUFFICES ASSUME NEW x \in plan.edges, x[2] = r
                 PROVE  x \in Activated(plan, ds) <=> x \in Activated(plan, decisions)
      OBVIOUS
    <3>1. x[1] \in DOMAIN plan.rule /\ plan.subject[x[1]] = plan.subject[r]
      BY <2>2 DEF PlanAccepted, PrecedenceAccepted
    <3>2. ds[x[1]].status = decisions[x[1]].status /\ ds[r].status = decisions[r].status
      <4>1. FamilyOf(x[1]) = FamilyOf(r)
        BY <3>1 DEF FamilyOf
      <4> HIDE DEF ds
      <4> QED
        BY <2>4, <2>5, <3>1, <4>1
    <3> HIDE DEF ds
    <3> QED
      BY <3>2 DEF Activated
  <2>7. Overrider(plan, ds, r) = Overrider(plan, decisions, r)
    <3> HIDE DEF ds
    <3> QED
      BY <2>2, <2>6, OverriderIsLocal
  <2>8. ds[r].status = decisions[r].status
    BY <2>4, <2>5
  <2> HIDE DEF ds
  <2>9. Resolution(plan, ds)[r] = Resolution(plan, decisions)[r]
    BY <2>4, <2>7, <2>8 DEF Resolution
  <2> QED
    BY <2>2, <2>9 DEF ds
<1> QED
  BY <1>1, GroundedInvariant, PTL

-----------------------------------------------------------------------------
(* What is posed to a provider.                                             *)

\* A warning is of two rules, and cites what both of them cite.
LEMMA WarningsAreOfTwo ==
  ASSUME ProjectionHeld, NEW w, w \in DOMAIN answer.warnings
  PROVE  /\ \E a, b \in DOMAIN plan.rule : a # b /\ w = {a, b}
         /\ answer.warnings[w] = Cites(decisions, w)
<1>1. /\ resolution = Resolution(plan, decisions) /\ analysis = Analysis(plan, resolution)
      /\ trace = DeriveTrace(plan, analysis)
      /\ answer = CitedAnswer(plan, decisions, resolution, analysis, trace)
  BY DEF ProjectionHeld, AnswerHeld
<1>2. w \in Warned(trace) /\ answer.warnings[w] = Cites(decisions, w)
  <2> DEFINE W == {p \in Warned(trace) : CitedRules(Cites(decisions, p)) = p}
  <2>1. answer.warnings = [p \in W |-> Cites(decisions, p)]
    BY <1>1 DEF CitedAnswer
  <2> HIDE DEF W
  <2>2. w \in W /\ answer.warnings[w] = Cites(decisions, w)
    BY <2>1
  <2> QED
    BY <2>2 DEF W
<1>3. w \in DOMAIN analysis.warnings
  <2> DEFINE pairs == DOMAIN analysis.warnings \cup analysis.compatible \cup analysis.inactive
  <2>1. trace.outcomes = [pair \in pairs |-> InteractionOutcome(analysis, pair)]
    BY <1>1 DEF DeriveTrace
  <2> HIDE DEF pairs
  <2>2. trace.outcomes[w] = InteractionOutcome(analysis, w) /\ trace.outcomes[w].kind \notin {"compatible", "inactive"}
    BY <1>2, <2>1 DEF Warned
  <2> QED
    BY <2>2 DEF InteractionOutcome
<1>4. w \in LivePairs(plan, resolution)
  BY <1>1, <1>3 DEF Analysis
<1>5. PICK a, b \in DOMAIN resolution : w = {a, b} /\ Cardinality(w) = 2
  BY <1>4 DEF LivePairs
<1>6. a # b
  BY <1>5, FS_Singleton
<1>7. DOMAIN resolution = DOMAIN plan.rule
  BY <1>1 DEF Resolution
<1> QED
  BY <1>2, <1>5, <1>6, <1>7

\* A finding cites the evidence of its own rule at least.
LEMMA FindingsCite ==
  ASSUME ProjectionHeld
  PROVE  /\ Kept(answer) \subseteq Candidates(answer) /\ Candidates(answer) \subseteq DOMAIN answer.findings
         /\ DOMAIN answer.findings \subseteq DOMAIN plan.rule
         /\ \A r \in DOMAIN answer.findings : Cites(decisions, {r}) \subseteq answer.findings[r]
<1>1. /\ resolution = Resolution(plan, decisions)
      /\ answer = CitedAnswer(plan, decisions, resolution, analysis, trace)
  BY DEF ProjectionHeld, AnswerHeld
<1> DEFINE F == {r \in DOMAIN resolution : HasFinding(decisions, resolution, r)}
<1>2. answer.findings = [r \in F |-> Cites(decisions, SpeaksFor(resolution, r))]
  BY <1>1 DEF CitedAnswer
<1>3. F \subseteq DOMAIN plan.rule
  BY <1>1 DEF Resolution
<1> HIDE DEF F
<1>4. \A r \in F : Cites(decisions, {r}) \subseteq Cites(decisions, SpeaksFor(resolution, r))
  BY DEF Cites, SpeaksFor
<1> QED
  BY <1>2, <1>3, <1>4 DEF Kept, Candidates

\* What was kept was retrieved, warnings with their rules.
LEMMA WarningsAreRetrieved ==
  ASSUME ProjectionHeld, NEW w, w \in DOMAIN answer.warnings, w \subseteq Kept(answer)
  PROVE  CitedFacts(answer.warnings[w]) \subseteq found.facts
<1>1. \A r \in w : CitedFacts(Cites(decisions, {r})) \subseteq found.facts
  BY FindingsCite DEF Candidates, CitedFacts
<1>2. answer.warnings[w] = Cites(decisions, w)
  BY WarningsAreOfTwo
<1> QED
  BY <1>1, <1>2 DEF CitedFacts, Cites

\* The findings that are posed to the model.
LEMMA PosedFindings ==
  ASSUME ProjectionHeld, PosedHeld
  PROVE  /\ DOMAIN projection.findings = Kept(answer)
         /\ DOMAIN posed.findings = {{r} : r \in Kept(answer)} \cup {w \in DOMAIN answer.warnings : w \subseteq Kept(answer)}
         /\ \A r \in Kept(answer) : posed.findings[{r}].evidence = CitedFacts(answer.findings[r])
         /\ \A w \in DOMAIN answer.warnings : w \subseteq Kept(answer) =>
              posed.findings[w].evidence = CitedFacts(answer.warnings[w])
<1> DEFINE kept == Kept(answer)
           W == {p \in DOMAIN answer.warnings : p \subseteq kept /\ CitedFacts(answer.warnings[p]) \subseteq found.facts}
<1>1. W = {w \in DOMAIN answer.warnings : w \subseteq kept}
  BY WarningsAreRetrieved
<1>2. /\ projection.findings = [r \in kept |-> answer.findings[r]]
      /\ projection.warnings = [p \in W |-> answer.warnings[p]]
  BY DEF ProjectionHeld, Projected
<1>3. posed.findings = GenerationFindings(projection)
  BY DEF PosedHeld
<1> DEFINE ids == {{r} : r \in DOMAIN projection.findings} \cup DOMAIN projection.warnings
<1>4. DOMAIN posed.findings = ids
  BY <1>3 DEF GenerationFindings
<1>5. \A w \in DOMAIN projection.warnings : posed.findings[w].evidence = CitedFacts(projection.warnings[w])
  BY <1>3 DEF GenerationFindings
<1>6. ASSUME NEW r \in kept PROVE posed.findings[{r}].evidence = CitedFacts(answer.findings[r])
  <2>1. {r} \notin DOMAIN projection.warnings
    <3>1. DOMAIN projection.warnings = W /\ W \subseteq DOMAIN answer.warnings
      BY <1>2
    <3>2. \A w \in DOMAIN answer.warnings : \E a, b : a # b /\ w = {a, b}
      BY WarningsAreOfTwo
    <3> HIDE DEF kept, W
    <3> QED
      BY <3>1, <3>2
  <2>2. (CHOOSE x \in {r} : TRUE) = r
    OBVIOUS
  <2>3. {r} \in ids /\ r \in DOMAIN projection.findings /\ projection.findings[r] = answer.findings[r]
    BY <1>2
  <2>4. posed.findings[{r}].evidence = CitedFacts(projection.findings[CHOOSE x \in {r} : TRUE])
    BY <1>3, <2>1, <2>3 DEF GenerationFindings
  <2> QED
    BY <2>2, <2>3, <2>4
<1>7. \A w \in DOMAIN answer.warnings : w \subseteq kept => posed.findings[w].evidence = CitedFacts(answer.warnings[w])
  <2> HIDE DEF kept
  <2> QED
    BY <1>1, <1>2, <1>5
<1> HIDE DEF W, kept
<1> QED
  BY <1>1, <1>2, <1>4, <1>6, <1>7 DEF kept

-----------------------------------------------------------------------------
(* The selection of mentions.  It is a CHOOSE, so that something fits has   *)
(* to be shown: the mentions are finitely many and SortsBefore orders them. *)

\* Texts agree up to a place when they do segment by segment.
LEMMA SamePrefix ==
  ASSUME NEW S, NEW a \in Seq(S), NEW b \in Seq(S), NEW k \in Nat, k <= Len(a), k <= Len(b)
  PROVE  SubSeq(a, 1, k) = SubSeq(b, 1, k) <=> \A j \in 1..k : a[j] = b[j]
<1>1. \A j \in 1..k : a[j] \in S /\ b[j] \in S
  OBVIOUS
<1>2. /\ SubSeq(a, 1, k) \in Seq(S) /\ Len(SubSeq(a, 1, k)) = k
      /\ \A j \in 1..k : SubSeq(a, 1, k)[j] = a[j]
  BY <1>1, SubSeqProperties
<1>3. /\ SubSeq(b, 1, k) \in Seq(S) /\ Len(SubSeq(b, 1, k)) = k
      /\ \A j \in 1..k : SubSeq(b, 1, k)[j] = b[j]
  BY <1>1, SubSeqProperties
<1>4. ASSUME \A j \in 1..k : a[j] = b[j] PROVE SubSeq(a, 1, k) = SubSeq(b, 1, k)
  BY <1>2, <1>3, <1>4, SeqEqual
<1> QED
  BY <1>2, <1>3, <1>4

\* Texts are sorted in a strict order,
LEMMA TextOrder ==
  ASSUME \A x \in DOMAIN Code : Code[x] \in Int
  PROVE  /\ \A a \in Seq(DOMAIN Code) : ~TextBefore(a, a)
         /\ \A a, b, c \in Seq(DOMAIN Code) : TextBefore(a, b) /\ TextBefore(b, c) => TextBefore(a, c)
<1>1. ASSUME NEW a \in Seq(DOMAIN Code), TextBefore(a, a) PROVE FALSE
  <2>1. PICK k \in DOMAIN a : k = Len(a) + 1 \/ Code[a[k]] < Code[a[k]]
    BY <1>1 DEF TextBefore
  <2>2. k \in 1..Len(a) /\ a[k] \in DOMAIN Code
    OBVIOUS
  <2> QED
    BY <2>1, <2>2
<1>2. ASSUME NEW a \in Seq(DOMAIN Code), NEW b \in Seq(DOMAIN Code), NEW c \in Seq(DOMAIN Code),
             TextBefore(a, b), TextBefore(b, c)
      PROVE  TextBefore(a, c)
  <2>1. PICK k \in DOMAIN b : /\ k <= Len(a) + 1 /\ SubSeq(a, 1, k - 1) = SubSeq(b, 1, k - 1)
                              /\ k = Len(a) + 1 \/ Code[a[k]] < Code[b[k]]
    BY <1>2 DEF TextBefore
  <2>2. PICK l \in DOMAIN c : /\ l <= Len(b) + 1 /\ SubSeq(b, 1, l - 1) = SubSeq(c, 1, l - 1)
                              /\ l = Len(b) + 1 \/ Code[b[l]] < Code[c[l]]
    BY <1>2 DEF TextBefore
  <2>3. k \in 1..Len(b) /\ l \in 1..Len(c) /\ Len(a) \in Nat /\ Len(b) \in Nat /\ Len(c) \in Nat
    OBVIOUS
  <2>4. \A j \in 1..(k - 1) : a[j] = b[j]
    BY <2>1, <2>3, SamePrefix
  <2>5. \A j \in 1..(l - 1) : b[j] = c[j]
    BY <2>2, <2>3, SamePrefix
  <2> DEFINE m == IF k < l THEN k ELSE l
  <2>6. m \in 1..Len(c) /\ m <= Len(a) + 1 /\ m <= k /\ m <= l /\ m \in DOMAIN c
    <3>0. k <= Len(a) + 1
      BY <2>1
    <3>1. k \in Nat /\ l \in Nat /\ 1 <= k /\ 1 <= l /\ k <= Len(a) + 1 /\ l <= Len(c)
      BY <3>0, <2>3
    <3>2. (m = k /\ k < l) \/ (m = l /\ l <= k)
      BY <3>1
    <3> HIDE DEF m
    <3>3. m \in 1..Len(c) /\ m <= Len(a) + 1 /\ m <= k /\ m <= l
      BY <3>1, <3>2, <2>3
    <3> QED
      BY <3>3
  <2>7. SubSeq(a, 1, m - 1) = SubSeq(c, 1, m - 1)
    <3>1. \A j \in 1..(m - 1) : a[j] = c[j]
      BY <2>3, <2>4, <2>5, <2>6
    <3> HIDE DEF m
    <3>2. m - 1 <= Len(a) /\ m - 1 <= Len(c) /\ m - 1 \in Nat
      BY <2>3, <2>6
    <3> QED
      BY <3>1, <3>2, SamePrefix
  <2>8. m = Len(a) + 1 \/ Code[a[m]] < Code[c[m]]
    <3>1. CASE k < l
      <4>1. m = k /\ b[k] = c[k]
        BY <3>1, <2>3, <2>5, <2>6
      <4> QED
        BY <4>1, <2>1
    <3>2. CASE k = l
      <4>1. m = k /\ k # Len(b) + 1 /\ Code[b[k]] < Code[c[k]]
        BY <3>2, <2>2, <2>3
      <4>2. CASE k = Len(a) + 1
        BY <4>1, <4>2
      <4>3. CASE k # Len(a) + 1
        <5>1. Code[a[k]] < Code[b[k]] /\ a[k] \in DOMAIN Code /\ b[k] \in DOMAIN Code /\ c[k] \in DOMAIN Code
          BY <4>3, <2>1, <2>3, <3>2
        <5> QED
          BY <5>1, <4>1
      <4> QED
        BY <4>2, <4>3
    <3>3. CASE l < k
      <4>0. m = l /\ l \in Nat /\ k \in Nat /\ k <= Len(b) /\ 1 <= l
        BY <3>3, <2>3
      <4>1. m = l /\ l # Len(b) + 1 /\ a[l] = b[l]
        <5>1. l \in 1..(k - 1) /\ l # Len(b) + 1
          BY <3>3, <4>0, <2>3
        <5> QED
          BY <4>0, <5>1, <2>4
      <4>2. Code[b[l]] < Code[c[l]]
        BY <4>1, <2>2
      <4> QED
        BY <4>1, <4>2
    <3> QED
      BY <3>1, <3>2, <3>3, <2>3
  <2> QED
    BY <2>6, <2>7, <2>8 DEF TextBefore
<1> QED
  BY <1>1, <1>2

MentionsTyped(C) == \A c \in C : c.from \in Int /\ c.to \in Int /\ c.value \in Seq(DOMAIN Code)

\* and so are the mentions of a question.
LEMMA MentionOrder ==
  ASSUME \A x \in DOMAIN Code : Code[x] \in Int, NEW C, MentionsTyped(C)
  PROVE  /\ \A a \in C : ~SortsBefore(a, a)
         /\ \A a, b, c \in C : SortsBefore(a, b) /\ SortsBefore(b, c) => SortsBefore(a, c)
<1>1. ASSUME NEW a \in C PROVE ~SortsBefore(a, a)
  BY TextOrder DEF SortsBefore, MentionsTyped
<1>2. ASSUME NEW a \in C, NEW b \in C, NEW c \in C, SortsBefore(a, b), SortsBefore(b, c) PROVE SortsBefore(a, c)
  <2>1. /\ {a.from, a.to, b.from, b.to, c.from, c.to} \subseteq Int
        /\ TextBefore(a.value, b.value) /\ TextBefore(b.value, c.value) => TextBefore(a.value, c.value)
    BY TextOrder DEF MentionsTyped
  <2> QED
    BY <1>2, <2>1 DEF SortsBefore
<1> QED
  BY <1>1, <1>2

\* In the order of SortsBefore, whatever overlaps nothing kept of its kind.
Selected(C, kept) ==
  \A c \in C : c \in kept <=> \A s \in kept : s.kind = c.kind /\ SortsBefore(s, c) => ~Overlap(s, c)

\* Of finitely many mentions, one is first.
LEMMA SomeMentionIsFirst ==
  ASSUME \A x \in DOMAIN Code : Code[x] \in Int, NEW C, IsFiniteSet(C), MentionsTyped(C),
         NEW R, R \subseteq C, R # {}
  PROVE  \E x \in R : \A y \in R : ~SortsBefore(y, x)
<1> DEFINE Before(x) == {y \in R : SortsBefore(y, x)}
           T == {Before(x) : x \in R}
<1>1. T \subseteq SUBSET R /\ T # {}
  OBVIOUS
<1>2. IsFiniteSet(R)
  BY FS_Subset
<1>3. IsWellFoundedOn(StrictSubsetOrdering(R), SUBSET R)
  BY <1>2, FS_StrictSubsetOrderingWellFounded, FS_FiniteSubsetsOfFinite
<1>4. PICK B \in T : \A D \in T : <<D, B>> \notin StrictSubsetOrdering(R)
  <2> HIDE DEF T
  <2> QED
    BY <1>1, <1>3, WFMin
<1>5. PICK x \in R : B = Before(x)
  BY <1>4
<1>6. ASSUME NEW y \in R, SortsBefore(y, x) PROVE FALSE
  <2>1. Before(y) \subseteq Before(x)
    BY <1>6, MentionOrder
  <2>2. y \in Before(x) /\ y \notin Before(y)
    BY <1>6, MentionOrder
  <2>3. Before(y) \in T /\ Before(y) \in SUBSET R /\ B \in SUBSET R
    BY <1>1, <1>4
  <2>4. <<Before(y), B>> \in StrictSubsetOrdering(R)
    <3> HIDE DEF T, Before
    <3> QED
      BY <1>5, <2>1, <2>2, <2>3 DEF StrictSubsetOrdering
  <2> QED
    BY <1>4, <2>3, <2>4
<1> QED
  BY <1>6

\* So what is to be selected of them exists: the largest part of the mentions, closed
\* under what sorts before it, for which it does is all of them.
LEMMA SelectionExists ==
  ASSUME \A x \in DOMAIN Code : Code[x] \in Int, NEW C, IsFiniteSet(C), MentionsTyped(C)
  PROVE  \E kept \in SUBSET C : Selected(C, kept)
<1> DEFINE Done(S) == /\ \A s \in S : \A c \in C : SortsBefore(c, s) => c \in S
                      /\ \E kept \in SUBSET S : Selected(S, kept)
           T == {C \ S : S \in {X \in SUBSET C : Done(X)}}
<1>1. Done({})
  BY DEF Selected
<1>2. T \subseteq SUBSET C /\ T # {}
  BY <1>1
<1>3. IsWellFoundedOn(StrictSubsetOrdering(C), SUBSET C)
  BY FS_StrictSubsetOrderingWellFounded, FS_FiniteSubsetsOfFinite
<1>4. PICK R \in T : \A D \in T : <<D, R>> \notin StrictSubsetOrdering(C)
  <2> HIDE DEF T
  <2> QED
    BY <1>2, <1>3, WFMin
<1>5. PICK S \in SUBSET C : Done(S) /\ R = C \ S
  BY <1>4
<1>6. CASE S = C
  BY <1>5, <1>6
<1>7. CASE S # C
  <2>1. R \subseteq C /\ R # {}
    BY <1>5, <1>7
  <2>2. PICK x \in R : \A y \in R : ~SortsBefore(y, x)
    BY <2>1, SomeMentionIsFirst
  <2>3. x \in C /\ x \notin S
    BY <1>5
  <2>4. PICK kept \in SUBSET S : Selected(S, kept)
    BY <1>5
  <2> DEFINE U == S \cup {x}
             fits == \A s \in kept : s.kind = x.kind /\ SortsBefore(s, x) => ~Overlap(s, x)
             more == IF fits THEN kept \cup {x} ELSE kept
  <2>5. \A s \in S : ~SortsBefore(x, s)
    BY <1>5, <2>3
  <2>6. \A s \in U : \A c \in C : SortsBefore(c, s) => c \in U
    BY <1>5, <2>2
  <2>7. more \in SUBSET U /\ more \cap S = kept /\ (x \in more <=> fits)
    BY <2>3
  <2>8. Selected(U, more)
    <3>1. ~SortsBefore(x, x)
      BY <2>3, MentionOrder
    <3>2. ASSUME NEW c \in U, NEW s \in more \ kept PROVE ~SortsBefore(s, c)
      <4>1. s = x
        OBVIOUS
      <4> QED
        BY <4>1, <2>5, <3>1
    <3>3. ASSUME NEW c \in U
          PROVE  (\A s \in more : s.kind = c.kind /\ SortsBefore(s, c) => ~Overlap(s, c))
                   <=> (\A s \in kept : s.kind = c.kind /\ SortsBefore(s, c) => ~Overlap(s, c))
      <4>1. kept \subseteq more
        OBVIOUS
      <4> HIDE DEF more
      <4> QED
        BY <3>2, <4>1
    <3>4. ASSUME NEW c \in S
          PROVE  c \in more <=> \A s \in kept : s.kind = c.kind /\ SortsBefore(s, c) => ~Overlap(s, c)
      <4> HIDE DEF more
      <4> QED
        BY <2>4, <2>7 DEF Selected
    <3>5. x \in more <=> \A s \in kept : s.kind = x.kind /\ SortsBefore(s, x) => ~Overlap(s, x)
      BY <2>7
    <3> HIDE DEF more
    <3> QED
      BY <3>3, <3>4, <3>5 DEF Selected
  <2>9. Done(U) /\ U \in SUBSET C
    <3> HIDE DEF more
    <3>1. \E k \in SUBSET U : Selected(U, k)
      BY <2>7, <2>8
    <3> QED
      BY <2>6, <3>1, <2>3
  <2>10. C \ U \in T
    BY <2>9
  <2>11. <<C \ U, R>> \in StrictSubsetOrdering(C)
    <3>1. C \ U \in SUBSET C /\ R \in SUBSET C /\ C \ U \subseteq R /\ x \in R /\ x \notin C \ U
      BY <1>5
    <3> QED
      BY <3>1 DEF StrictSubsetOrdering
  <2> QED
    BY <1>4, <2>10, <2>11
<1> QED
  BY <1>6, <1>7

-----------------------------------------------------------------------------
(* The target of a question.                                                *)

\* However they overlap, a target that is plainly named is among the targets of
\* the intent.
LEMMA PlainNamesAreTargets ==
  ASSUME NEW q \in {r.question : r \in {x \in Requests : x.retrieves # {}}}
  PROVE  PlainlyNamed(q, Catalog) \subseteq ParseQueryIntent(q, Catalog).targets
<1> DEFINE C == MentionCandidates(q, Catalog)
           kept == SelectLongestNonOverlapping(C)
<1>1. MentionsTyped(C) /\ IsFiniteSet(C) /\ \A x \in DOMAIN Code : Code[x] \in Int
  BY MentionsAssumption DEF MentionsTyped
<1>2. kept \in SUBSET C /\ Selected(C, kept)
  <2> HIDE DEF C
  <2>1. \E k \in SUBSET C : Selected(C, k)
    BY <1>1, SelectionExists
  <2> QED
    BY <2>1 DEF SelectLongestNonOverlapping, Selected
<1>3. ParseQueryIntent(q, Catalog).targets = Values(kept, "scope_target")
  BY DEF ParseQueryIntent
<1> SUFFICES ASSUME NEW value \in PlainlyNamed(q, Catalog) PROVE value \in Values(kept, "scope_target")
  BY <1>3
<1> DEFINE Within(d, r) == r.from <= d.from /\ d.to <= r.to /\ <<d.from, d.to>> # <<r.from, r.to>>
<1>4. PICK e \in Catalog.entities :
        /\ e.value = value /\ e.kind = "scope_target"
        /\ \E r \in Names(q, e) \ AmbiguousRanges(q, Catalog) : \A d \in C :
             d.kind = e.kind /\ Overlap(r, d) => d.value = e.value \/ Within(d, r)
  BY DEF PlainlyNamed
<1>5. PICK r \in Names(q, e) \ AmbiguousRanges(q, Catalog) :
        \A d \in C : d.kind = e.kind /\ Overlap(r, d) => d.value = e.value \/ Within(d, r)
  BY <1>4
<1> DEFINE c == Mention(r, e.kind, e.value)
<1>6. c \in C
  <2> DEFINE Of(x) == {Mention(y, x.kind, x.value) : y \in Names(q, x) \ AmbiguousRanges(q, Catalog)}
  <2>1. c \in Of(e)
    BY <1>5
  <2>2. UNION {Of(x) : x \in Catalog.entities} \subseteq C
    BY DEF MentionCandidates
  <2> HIDE DEF C, c, Of
  <2> QED
    BY <2>1, <2>2
<1>7. c.from = r.from /\ c.to = r.to /\ c.kind = "scope_target" /\ c.value = value
  BY <1>4 DEF Mention
<1> HIDE DEF C, c
<1>8. CASE c \in kept
  <2> HIDE DEF kept
  <2> QED
    BY <1>7, <1>8 DEF Values
<1>9. CASE c \notin kept
  <2> HIDE DEF kept
  <2>1. PICK s \in kept : s.kind = c.kind /\ SortsBefore(s, c) /\ Overlap(s, c)
    BY <1>2, <1>6, <1>9 DEF Selected
  <2>2. s \in C /\ Overlap(r, s)
    BY <1>2, <1>7, <2>1 DEF Overlap
  <2>3. s.value = e.value \/ Within(s, r)
    BY <1>4, <1>5, <1>7, <2>1, <2>2
  <2>4. ~Within(s, r)
    <3>1. {s.from, s.to, r.from, r.to} \subseteq Int
      BY <1>1, <1>6, <1>7, <2>2 DEF MentionsTyped
    <3>2. \/ s.from < r.from
          \/ s.from = r.from /\ s.to > r.to
          \/ s.from = r.from /\ s.to = r.to
      BY <1>7, <2>1 DEF SortsBefore
    <3> QED
      BY <3>1, <3>2
  <2>5. s.value = value /\ s.kind = "scope_target"
    BY <1>4, <1>7, <2>1, <2>3, <2>4
  <2> QED
    BY <2>5 DEF Values
<1> QED
  BY <1>8, <1>9

\* The rules of a department that are confirmed agree with the question.
LEMMA ConfirmedInScope ==
  ASSUME ProjectionHeld, NEW r \in DOMAIN plan.rule,
         plan.rule[r].scope.type \in {"department", "program"}, decisions[r].status = "confirmed"
  PROVE  request.query.targets \subseteq {profile.target}
<1>1. decisions[r] = Decision(profile, request.query, Pack, plan.rule[r])
  BY DEF ProjectionHeld, AnswerHeld, DecisionsFor
<1> DEFINE scope == EvaluateScope(profile, request.query, plan.rule[r].scope)
<1>2. scope = "confirmed"
  <2> HIDE DEF scope
  <2>1. \E mode, outcomes, diagnostics : decisions[r].status = DecidedStatus(mode, outcomes, scope, diagnostics)
    BY <1>1 DEF Decision, scope
  <2>2. \A mode, outcomes, diagnostics :
          DecidedStatus(mode, outcomes, scope, diagnostics) = "confirmed" => scope = "confirmed"
    <3> SUFFICES ASSUME NEW p, CombineWithScope(p, scope) = "confirmed" PROVE scope = "confirmed"
      BY DEF DecidedStatus
    <3>1. {p, scope} = {"confirmed"}
      BY DEF CombineWithScope
    <3> QED
      BY <3>1
  <2> QED
    BY <2>1, <2>2
<1>3. ~ScopeInputConflict(profile, request.query, plan.rule[r].scope)
  BY <1>2 DEF EvaluateScope
<1>4. ~Disagree(Set(profile.target), request.query.targets)
  BY <1>3 DEF ScopeInputConflict
<1>5. profile.target # NoName
  BY DecisionsAssumption DEF ProjectionHeld, Asked, profile
<1> QED
  BY <1>4, <1>5 DEF Disagree, Set

LEMMA ConfirmedAgreesWithQuestion ==
  ASSUME ProjectionHeld, NEW r \in DOMAIN plan.rule,
         plan.rule[r].scope.type \in {"department", "program"}, decisions[r].status = "confirmed"
  PROVE  Called(PlainlyNamed(request.question, Catalog)) \subseteq {profile.target}
<1>1. request \in Requests /\ request.retrieves # {}
  BY DEF ProjectionHeld, Asked
<1> DEFINE i == ParseQueryIntent(request.question, Catalog)
<1>2. request.query.targets = Called(i.targets)
  <2>1. request.query = [targets |-> Called(i.targets), colleges |-> Called(i.colleges),
                         categories |-> Called(i.categories)]
    BY <1>1, QuestionAssumption
  <2> QED
    BY <2>1
<1>3. PlainlyNamed(request.question, Catalog) \subseteq i.targets
  BY <1>1, PlainNamesAreTargets
<1> HIDE DEF i
<1>4. Called(PlainlyNamed(request.question, Catalog)) \subseteq Called(i.targets)
  BY <1>3 DEF Called
<1> QED
  BY <1>2, <1>4, ConfirmedInScope

-----------------------------------------------------------------------------
(* Claims.  A provider may draft anything; what it drafts is accepted only  *)
(* if it words every finding that was posed, once.                          *)

\* A claim that is not a fact of its own is about a finding.
ClaimTyped(c) == c.kind \in {"rule", "disposition", "official"} /\ (c.kind = "official" => c.finding = NoFinding)

LEMMA RuleClaimTyped ==
  ASSUME NEW q, NEW id PROVE ClaimTyped(RuleClaim(q, id)) /\ ClaimTyped([RuleClaim(q, id) EXCEPT !.copy = 2])
<1>1. \E kind \in {"rule", "disposition"} : \E evidence : RuleClaim(q, id) = Claim(kind, id, evidence, 1)
  BY DEF RuleClaim
<1> QED
  BY <1>1 DEF ClaimTyped, Claim

\* The parts of DraftClaims.
Faithful(q) == {RuleClaim(q, id) : id \in DOMAIN q.findings}
Otherwise(q, id) ==
  {{}, {RuleClaim(q, id), [RuleClaim(q, id) EXCEPT !.copy = 2]},
   {Claim("disposition", id, {}, 1)}, {Claim("rule", id, {UnknownRef}, 1)}}
  \cup {{Claim("rule", id, {f}, 1)} : f \in q.evidence}
ChangedDrafts(q, id) == {(Faithful(q) \ {RuleClaim(q, id)}) \cup other : other \in Otherwise(q, id)}
AllChanged(q) == UNION {ChangedDrafts(q, id) : id \in DOMAIN q.findings}
ExtendedDrafts(q) ==
  {Faithful(q) \cup {Claim("official", NoFinding, evidence, 1)} :
     evidence \in {{f} : f \in q.evidence \cup {UnknownRef}} \cup {q.evidence}}

LEMMA PartsOfDrafts ==
  ASSUME NEW q
  PROVE  DraftClaims(q) = {Faithful(q), {}} \cup AllChanged(q) \cup ExtendedDrafts(q)
<1>1. DraftClaims(q) = {Faithful(q), {}} \cup (UNION {ChangedDrafts(q, id) : id \in DOMAIN q.findings})
                       \cup ExtendedDrafts(q)
  BY Zenon DEF DraftClaims, Faithful, Otherwise, ChangedDrafts, ExtendedDrafts
<1> QED
  BY Zenon, <1>1 DEF AllChanged

\* Whatever the model drafts is of that kind.
LEMMA DraftsTyped == ASSUME DraftHeld PROVE \A c \in draft.claims : ClaimTyped(c)
<1>1. \A c \in Faithful(posed) : ClaimTyped(c)
  BY RuleClaimTyped DEF Faithful
<1>2. ASSUME NEW id, NEW other \in Otherwise(posed, id), NEW c \in other PROVE ClaimTyped(c)
  <2>1. ClaimTyped(Claim("disposition", id, {}, 1)) /\ \A evidence : ClaimTyped(Claim("rule", id, evidence, 1))
    BY DEF ClaimTyped, Claim
  <2>2. ClaimTyped(RuleClaim(posed, id)) /\ ClaimTyped([RuleClaim(posed, id) EXCEPT !.copy = 2])
    BY RuleClaimTyped
  <2>3. \/ other = {} \/ other = {RuleClaim(posed, id), [RuleClaim(posed, id) EXCEPT !.copy = 2]}
        \/ other = {Claim("disposition", id, {}, 1)} \/ \E evidence : other = {Claim("rule", id, evidence, 1)}
    BY DEF Otherwise
  <2>4. CASE other = {RuleClaim(posed, id), [RuleClaim(posed, id) EXCEPT !.copy = 2]}
    BY <2>2, <2>4
  <2>5. CASE other = {Claim("disposition", id, {}, 1)}
    BY <2>1, <2>5
  <2>6. CASE \E evidence : other = {Claim("rule", id, evidence, 1)}
    BY <2>1, <2>6
  <2> QED
    BY <2>3, <2>4, <2>5, <2>6
<1>3. ASSUME NEW id, NEW claims \in ChangedDrafts(posed, id), NEW c \in claims PROVE ClaimTyped(c)
  <2>1. PICK other \in Otherwise(posed, id) : claims = (Faithful(posed) \ {RuleClaim(posed, id)}) \cup other
    BY DEF ChangedDrafts
  <2> QED
    BY <1>1, <1>2, <2>1
<1>4. ASSUME NEW claims \in ExtendedDrafts(posed), NEW c \in claims PROVE ClaimTyped(c)
  <2>1. PICK evidence : claims = Faithful(posed) \cup {Claim("official", NoFinding, evidence, 1)}
    BY DEF ExtendedDrafts
  <2>2. ClaimTyped(Claim("official", NoFinding, evidence, 1))
    BY DEF ClaimTyped, Claim
  <2> QED
    BY <1>1, <2>1, <2>2
<1>5. draft.claims = Faithful(posed) \/ draft.claims = {} \/ draft.claims \in DraftClaims(posed)
  <2>1. CASE draft = OfflineDraft(posed)
    BY <2>1 DEF OfflineDraft, Faithful
  <2>2. CASE draft \in [claims : DraftClaims(posed), missing : {MissingFields(posed), {}, {UnknownRef}},
                        refused : {FALSE}, review : BOOLEAN]
    BY <2>2
  <2>3. CASE draft = [claims |-> {}, missing |-> {}, refused |-> TRUE, review |-> TRUE]
    BY <2>3
  <2> QED
    BY <2>1, <2>2, <2>3 DEF DraftHeld, Drafts
<1>6. ASSUME NEW claims \in DraftClaims(posed), NEW c \in claims PROVE ClaimTyped(c)
  <2>1. claims \in {Faithful(posed), {}} \cup AllChanged(posed) \cup ExtendedDrafts(posed)
    BY PartsOfDrafts
  <2>2. CASE claims \in {Faithful(posed), {}}
    BY <1>1, <1>6, <2>2
  <2>3. CASE claims \in AllChanged(posed)
    BY <1>3, <1>6, <2>3 DEF AllChanged
  <2>4. CASE claims \in ExtendedDrafts(posed)
    BY <1>4, <1>6, <2>4
  <2> QED
    BY <2>1, <2>2, <2>3, <2>4
<1> QED
  BY <1>1, <1>5, <1>6

\* What an accepted draft claims of a finding is said on exactly its evidence.
LEMMA AcceptedClaims ==
  ASSUME DraftHeld, GroundedHeld
  PROVE  /\ \A c \in grounded.claims :
              /\ c.citations \subseteq posed.evidence
              /\ c.finding \in DOMAIN posed.findings \cup {NoFinding}
              /\ c.finding # NoFinding => c.citations = posed.findings[c.finding].evidence
         /\ grounded.claims # {} => \A id \in DOMAIN posed.findings : \E c \in grounded.claims : c.finding = id
         /\ grounded.claims = {} => grounded.review
<1>1. /\ DraftWellFormed(draft) /\ ~draft.refused /\ KnownReferences(posed, draft)
      /\ \A c \in draft.claims : ClaimSupported(posed, c)
      /\ StateKept(posed, draft)
  BY DEF GroundedHeld, GenerateChecked
<1>2. /\ grounded.claims = {GroundClaim(c) : c \in draft.claims} /\ grounded.review = draft.review
  BY DEF GroundedHeld
<1>3. ASSUME NEW c \in draft.claims
      PROVE  /\ GroundClaim(c).finding = c.finding
             /\ c.finding \in DOMAIN posed.findings \cup {NoFinding}
             /\ GroundClaim(c).citations \subseteq posed.evidence
             /\ c.finding # NoFinding => GroundClaim(c).citations = posed.findings[c.finding].evidence
  <2>1. ClaimTyped(c) /\ ClaimSupported(posed, c) /\ c.evidence \subseteq posed.evidence
        /\ c.finding \in DOMAIN posed.findings \cup {NoFinding}
    BY <1>1, DraftsTyped DEF KnownReferences
  <2>2. c.kind = "disposition" => c.evidence = {}
    BY <1>1 DEF DraftWellFormed
  <2> QED
    BY <2>1, <2>2 DEF GroundClaim, ClaimTyped, ClaimSupported
<1>4. ASSUME draft.claims # {}, NEW id \in DOMAIN posed.findings PROVE \E c \in draft.claims : c.finding = id
  <2> DEFINE about == {c \in draft.claims : c.kind # "official" /\ c.finding = id}
  <2>1. Cardinality(about) = 1
    BY <1>1, <1>4 DEF StateKept, EachFindingOnce
  <2>2. about # {}
    <3> HIDE DEF about
    <3> QED
      BY <2>1, FS_EmptySet
  <2> QED
    BY <2>2
<1>5. draft.claims = {} => draft.review
  BY <1>1 DEF DraftWellFormed
<1>6. grounded.claims = {} <=> draft.claims = {}
  BY <1>2
<1> QED
  BY <1>2, <1>3, <1>4, <1>5, <1>6

\* What needs an answer of the reviewers or of the applicant is said to be open.
LEMMA WarningsAreOpen ==
  ASSUME ProjectionHeld, NEW w \in DOMAIN answer.warnings, w \subseteq Kept(answer)
  PROVE  projection.status # "complete"
<1> DEFINE kept == Kept(answer)
           warnings == {p \in DOMAIN answer.warnings : p \subseteq kept /\ CitedFacts(answer.warnings[p]) \subseteq found.facts}
           missing == {x \in answer.missing : x[1] \in kept}
           notices == {n \in answer.notices : n.rules # {} /\ n.rules \subseteq kept}
<1>1. projection.status = DeriveReportStatus(resolution, kept, warnings, missing, notices)
  BY DEF ProjectionHeld, Projected
<1>2. w \in warnings
  BY WarningsAreRetrieved
<1> HIDE DEF kept, warnings, missing, notices
<1> QED
  BY <1>1, <1>2 DEF DeriveReportStatus

\* Whatever a provider drafts, what is answered is what was reviewed: each kept
\* finding and conflict, on exactly its evidence, all of it retrieved; what is open is
\* said to be; and a rule of a department is confirmed only for the target the question
\* plainly names (generation/grounded_rag.py, provider.py, query_intent.py).
THEOREM AnswersStayReviewed == DecisionsSpec => []AnswerStaysReviewed
<1>1. GroundedInv => AnswerStaysReviewed
  <2> SUFFICES ASSUME GroundedInv, grounded # <<>> PROVE AnswerStaysReviewed
    BY DEF AnswerStaysReviewed
  <2>1. ProjectionHeld /\ PosedHeld /\ DraftHeld /\ GroundedHeld
    BY DEF GroundedInv
  <2> DEFINE About(rules) == {c \in grounded.claims : c.finding = rules}
             kept == DOMAIN projection.findings
  <2>2. /\ kept = Kept(answer) /\ kept \subseteq DOMAIN plan.rule
        /\ posed.evidence = found.facts /\ found.kb = bundle.kb
    BY <2>1, PosedFindings, FindingsCite DEF PosedHeld
  <2>3. /\ \A r \in kept : {r} \in DOMAIN posed.findings /\ posed.findings[{r}].evidence = CitedFacts(answer.findings[r])
        /\ \A w \in DOMAIN answer.warnings : w \subseteq kept =>
             w \in DOMAIN posed.findings /\ posed.findings[w].evidence = CitedFacts(answer.warnings[w])
        /\ \A id \in DOMAIN posed.findings : id \subseteq kept
    BY <2>1, <2>2, PosedFindings
  <2>4. \A id \in DOMAIN posed.findings : id # NoFinding
    <3> SUFFICES ASSUME NEW id \in DOMAIN posed.findings PROVE id # NoFinding
      OBVIOUS
    <3>1. \E a, b \in DOMAIN plan.rule : id = {a, b}
      <4>1. CASE \E r \in Kept(answer) : id = {r}
        BY <4>1, <2>2
      <4>2. CASE id \in DOMAIN answer.warnings
        BY <4>2, <2>1, WarningsAreOfTwo
      <4> QED
        BY <4>1, <4>2, <2>1, PosedFindings
    <3>2. request \in Requests
      BY <2>1 DEF ProjectionHeld
    <3> QED
      BY <3>1, <3>2, DecisionsAssumption DEF plan
  <2> HIDE DEF About, kept
  <2>5. ASSUME NEW id \in DOMAIN posed.findings, grounded.claims # {}
        PROVE  {c.citations : c \in About(id)} = {posed.findings[id].evidence}
    <3>1. \A c \in About(id) : c.citations = posed.findings[id].evidence
      BY <2>1, <2>4, AcceptedClaims DEF About
    <3>2. About(id) # {}
      BY <2>1, <2>5, AcceptedClaims DEF About
    <3> QED
      BY <3>1, <3>2
  <2>6. IF grounded.claims = {} THEN grounded.review
        ELSE /\ \A r \in kept : {c.citations : c \in About({r})} = {CitedFacts(answer.findings[r])}
             /\ \A p \in DOMAIN answer.warnings : p \subseteq kept =>
                  {c.citations : c \in About(p)} = {CitedFacts(answer.warnings[p])}
    <3>1. CASE grounded.claims = {}
      BY <3>1, <2>1, AcceptedClaims
    <3>2. CASE grounded.claims # {}
      BY <3>2, <2>3, <2>5
    <3> QED
      BY <3>1, <3>2
  <2>7. \A c \in grounded.claims : /\ c.citations \subseteq found.facts
                                   /\ c.citations # {} => found.kb = bundle.kb
                                   /\ c.finding # NoFinding => c.finding \subseteq kept
    BY <2>1, <2>2, <2>3, AcceptedClaims
  <2>8. \A r \in kept : resolution[r].disposition = "pending" =>
          /\ grounded.review
          /\ {x[2] : x \in {y \in answer.missing : y[1] = r}} \subseteq grounded.missing
    <3> SUFFICES ASSUME NEW r \in kept, resolution[r].disposition = "pending"
                 PROVE  /\ grounded.review
                        /\ {x[2] : x \in {y \in answer.missing : y[1] = r}} \subseteq grounded.missing
      OBVIOUS
    <3>1. grounded.review
      BY <2>2, SettledIsComplete
    <3>2. grounded.missing = {x[2] : x \in projection.missing}
      BY <2>1 DEF GroundedHeld, StateOfAnswerKept
    <3>3. projection.missing = {x \in answer.missing : x[1] \in kept}
      BY <2>1, <2>2 DEF ProjectionHeld, Projected
    <3> QED
      BY <3>1, <3>2, <3>3
  <2>9. (\E p \in DOMAIN answer.warnings : p \subseteq kept) => grounded.review
    BY <2>1, <2>2, WarningsAreOpen DEF GroundedHeld, StateOfAnswerKept
  <2>10. (\E r \in kept : plan.rule[r].scope.type \in {"department", "program"} /\ decisions[r].status = "confirmed")
            => Called(PlainlyNamed(request.question, Catalog)) \subseteq {profile.target}
    BY <2>1, <2>2, ConfirmedAgreesWithQuestion
  <2> QED
    BY <2>6, <2>7, <2>8, <2>9, <2>10 DEF AnswerStaysReviewed, About, kept
<1> QED
  BY <1>1, GroundedInvariant, PTL

-----------------------------------------------------------------------------
(* The validators.  Every stage validates what the one before handed it;   *)
(* what the stages make, the validators accept.                            *)

\* The names of the diagnostics.
DiagnosticKinds == {"missing_profile_fact", "missing_official_evidence", "scope_input_conflict", "missing_scope",
                    "multiple_academic_credentials", "ambiguous_language_result_selection"}

\* Diagnostics have one of six names, and decisions one of three states.
LEMMA DiagnosticsAreNamed ==
  ASSUME NEW p, NEW q, NEW pack, NEW rule PROVE Diagnostics(p, q, pack, rule) \subseteq DiagnosticKinds
BY DEF Diagnostics, DiagnosticKinds

LEMMA ThreeStatuses ==
  ASSUME NEW mode, NEW outcomes, NEW scope, NEW diagnostics
  PROVE  DecidedStatus(mode, outcomes, scope, diagnostics) \in {"confirmed", "not_applicable", "needs_information"}
BY DEF DecidedStatus, CombineWithScope

\* Exactly one of the two diagnostics of scope is there when the scope is open.
LEMMA OneScopeDiagnostic ==
  ASSUME NEW p, NEW q, NEW pack, NEW rule
  PROVE  Cardinality(Diagnostics(p, q, pack, rule) \cap {"missing_scope", "scope_input_conflict"})
           = IF EvaluateScope(p, q, rule.scope) = "needs_information" THEN 1 ELSE 0
<1> DEFINE conflict == rule.scope.type # "global" /\ ScopeInputConflict(p, q, rule.scope)
           scope == EvaluateScope(p, q, rule.scope)
           here == Diagnostics(p, q, pack, rule) \cap {"missing_scope", "scope_input_conflict"}
<1>1. conflict => scope = "needs_information"
  BY DEF EvaluateScope
<1>2. /\ "scope_input_conflict" \in Diagnostics(p, q, pack, rule) <=> conflict
      /\ "missing_scope" \in Diagnostics(p, q, pack, rule) <=> ~conflict /\ scope = "needs_information"
  <2> HIDE DEF scope
  <2> QED
    BY DEF Diagnostics, scope
<1>3. CASE scope = "needs_information"
  <2>1. here = {"missing_scope"} \/ here = {"scope_input_conflict"}
    BY <1>2, <1>3
  <2> QED
    BY <1>3, <2>1, FS_Singleton
<1>4. CASE scope # "needs_information"
  <2>1. here = {}
    BY <1>1, <1>2, <1>4
  <2> QED
    BY <1>4, <2>1, FS_EmptySet
<1> QED
  BY <1>3, <1>4

\* A decision is accepted by the contract of decisions, and fits its rule.
LEMMA DecisionIsAccepted ==
  ASSUME NEW p, NEW q, NEW pack, NEW rule, rule.bindings # {}
  PROVE  /\ DecisionReconciles(rule, Decision(p, q, pack, rule))
         /\ EvidenceReconciles(rule, Decision(p, q, pack, rule))
         /\ DOMAIN Decision(p, q, pack, rule).outcomes = rule.predicates
<1> DEFINE d == Decision(p, q, pack, rule)
           outcomes == Outcomes(p, rule)
           diagnostics == Diagnostics(p, q, pack, rule)
<1>1. /\ d.outcomes = outcomes /\ d.diagnostics = diagnostics
      /\ d.missing = {x.field : x \in {y \in rule.predicates : outcomes[y] = "needs_information"}}
      /\ d.scope = EvaluateScope(p, q, rule.scope) /\ d.evidence = BindOfficialEvidence(pack, rule)
      /\ d.status = DecidedStatus(rule.mode, Image(outcomes), EvaluateScope(p, q, rule.scope), diagnostics)
  BY DEF Decision
<1>2. DOMAIN outcomes = rule.predicates
  BY DEF Outcomes
<1>3. "missing_profile_fact" \in diagnostics <=> "needs_information" \in Image(outcomes)
  BY DEF Diagnostics
<1>4. "missing_official_evidence" \in diagnostics <=> BindOfficialEvidence(pack, rule) # rule.bindings
  BY DEF Diagnostics
<1>5. BindOfficialEvidence(pack, rule) \subseteq rule.bindings
  BY DEF BindOfficialEvidence
<1>6. "needs_information" \in Image(outcomes) <=> d.missing # {}
  <2>1. "needs_information" \in Image(outcomes) <=> \E y \in rule.predicates : outcomes[y] = "needs_information"
    BY <1>2 DEF Image
  <2> QED
    BY <1>1, <2>1
<1>7. Cardinality(d.diagnostics \cap {"missing_scope", "scope_input_conflict"})
        = IF d.scope = "needs_information" THEN 1 ELSE 0
  BY <1>1, OneScopeDiagnostic
<1> HIDE DEF d, outcomes, diagnostics
<1>8. DecisionReconciles(rule, d)
  BY <1>1, <1>2, <1>3, <1>4, <1>6, <1>7 DEF DecisionReconciles
<1>9. EvidenceReconciles(rule, d)
  BY <1>1, <1>4, <1>5 DEF EvidenceReconciles
<1> QED
  BY <1>1, <1>2, <1>8, <1>9 DEF d

\* What is read of the decisions of a plan.
DecisionsRead(p, ds) ==
  /\ DOMAIN ds = DOMAIN p.rule
  /\ \A r \in DOMAIN p.rule :
       /\ DecisionReconciles(p.rule[r], ds[r]) /\ EvidenceReconciles(p.rule[r], ds[r])
       /\ DOMAIN ds[r].outcomes = p.rule[r].predicates
       /\ ds[r].diagnostics \subseteq DiagnosticKinds
       /\ ds[r].status \in {"confirmed", "not_applicable", "needs_information"}
       /\ ds[r].status = "confirmed" => ds[r].evidence = p.rule[r].bindings /\ ds[r].evidence # {}

\* What is decided for an accepted plan, its validators accept.
LEMMA DecisionsAreRead ==
  ASSUME PlanAccepted(plan), NEW p PROVE DecisionsRead(plan, DecisionsFor(p))
<1>1. DOMAIN DecisionsFor(p) = DOMAIN plan.rule
  BY DEF DecisionsFor
<1>2. ASSUME NEW r \in DOMAIN plan.rule
      PROVE  LET d == DecisionsFor(p)[r]
             IN /\ DecisionReconciles(plan.rule[r], d) /\ EvidenceReconciles(plan.rule[r], d)
                /\ DOMAIN d.outcomes = plan.rule[r].predicates /\ d.diagnostics \subseteq DiagnosticKinds
                /\ d.status \in {"confirmed", "not_applicable", "needs_information"}
                /\ d.status = "confirmed" => d.evidence = plan.rule[r].bindings /\ d.evidence # {}
  <2> DEFINE d == Decision(p, request.query, Pack, plan.rule[r])
  <2>1. plan.rule[r].bindings # {}
    BY DEF PlanAccepted, RuleAccepted
  <2>2. /\ DecisionReconciles(plan.rule[r], d) /\ EvidenceReconciles(plan.rule[r], d)
        /\ DOMAIN d.outcomes = plan.rule[r].predicates
    BY <2>1, DecisionIsAccepted
  <2>3. d.diagnostics \subseteq DiagnosticKinds
    BY DiagnosticsAreNamed DEF Decision
  <2>4. d.status = DecidedStatus(plan.rule[r].mode, Image(d.outcomes), d.scope, d.diagnostics)
    BY <2>2 DEF DecisionReconciles
  <2>5. DecisionsFor(p)[r] = d
    BY DEF DecisionsFor
  <2> HIDE DEF d
  <2>6. d.status = "confirmed" => d.evidence = plan.rule[r].bindings
    <3>1. d.status = "confirmed" => d.diagnostics \cap Undecided = {}
      BY <2>4 DEF DecidedStatus
    <3> QED
      BY <2>2, <3>1 DEF EvidenceReconciles, Undecided
  <2> QED
    BY <2>1, <2>2, <2>3, <2>4, <2>5, <2>6, ThreeStatuses
<1> QED
  BY <1>1, <1>2 DEF DecisionsRead

\* Resolution.
LEMMA ResolutionIsAccepted ==
  ASSUME NEW p, NEW ds, PlanAccepted(p), DecisionsRead(p, ds), NoRule \notin DOMAIN p.rule
  PROVE  DecisionsFit(p, ds) /\ ResolutionReconciles(p, ds, Resolution(p, ds))
<1>1. DecisionsFit(p, ds)
  BY DEF DecisionsFit, DecisionsRead
<1> DEFINE res == Resolution(p, ds)
<1>2. DOMAIN res = DOMAIN p.rule
  BY DEF Resolution
<1>3. ASSUME NEW r \in DOMAIN p.rule
      PROVE  /\ res[r].disposition = "overridden" <=> res[r].by # NoRule
             /\ res[r].by # r
             /\ ds[r].status = "needs_information" <=> res[r].disposition = "pending"
             /\ ds[r].status = "not_applicable" <=> res[r].disposition = "not_applicable"
             /\ ds[r].status = "confirmed" => ds[r].evidence # {}
             /\ res[r].by # NoRule =>
                  /\ res[r].by \in DOMAIN res
                  /\ p.subject[res[r].by] = p.subject[r]
                  /\ ds[res[r].by].status = "confirmed"
                  /\ IsProvenNarrower(p.rule[res[r].by].scope, p.rule[r].scope)
  <2> DEFINE by == Overrider(p, ds, r)
  <2>1. res[r].by = by /\ res[r].disposition = Disposition(ds[r].status, by)
    BY DEF Resolution
  <2>2. ds[r].status \in {"confirmed", "not_applicable", "needs_information"}
        /\ (ds[r].status = "confirmed" => ds[r].evidence # {})
    BY DEF DecisionsRead
  <2>3. ASSUME by # NoRule
        PROVE  /\ by # r /\ by \in DOMAIN p.rule /\ p.subject[by] = p.subject[r]
               /\ ds[by].status = "confirmed" /\ ds[r].status = "confirmed"
               /\ IsProvenNarrower(p.rule[by].scope, p.rule[r].scope)
    <3>1. PICK e \in Activated(p, ds) : e[2] = r /\ e[1] = by
      BY <2>3, OverriderIsConfirmed
    <3>2. e \in p.edges /\ ds[e[1]].status = "confirmed" /\ ds[e[2]].status = "confirmed"
      BY <3>1 DEF Activated
    <3> HIDE DEF by
    <3> QED
      BY <3>1, <3>2 DEF PlanAccepted, PrecedenceAccepted
  <2> HIDE DEF by, res
  <2> QED
    BY <1>2, <2>1, <2>2, <2>3 DEF Disposition
<1> HIDE DEF res
<1>4. ResolutionReconciles(p, ds, res)
  BY <1>2, <1>3 DEF ResolutionReconciles
<1> QED
  BY <1>1, <1>4 DEF res

\* Interactions.
LEMMA AnalysisParts ==
  ASSUME NEW p, NEW res
  PROVE  LET an == Analysis(p, res)
         IN /\ DOMAIN an.warnings \subseteq LivePairs(p, res) /\ an.compatible \subseteq LivePairs(p, res)
            /\ DOMAIN an.warnings \cap an.compatible = {}
            /\ DOMAIN an.warnings \cup an.compatible = LivePairs(p, res)
            /\ an.inactive \subseteq DOMAIN p.reviewed /\ an.inactive \cap LivePairs(p, res) = {}
            /\ \A pair \in DOMAIN an.warnings : an.warnings[pair].kind = Relationship(p, pair)
            /\ \A pair \in an.compatible : Relationship(p, pair) = "compatible"
            /\ \A pair \in DOMAIN an.warnings : Relationship(p, pair) # "compatible"
            /\ an.complete = (LivePairs(p, res) \subseteq DOMAIN p.reviewed)
<1> DEFINE live == LivePairs(p, res)
           compatible == {pair \in live : Relationship(p, pair) = "compatible"}
           warnings == [pair \in live \ compatible |->
                           [kind |-> Relationship(p, pair),
                            certainty |-> IF \A r \in pair : res[r].disposition = "active"
                                          THEN "confirmed" ELSE "potential"]]
<1>1. Analysis(p, res) = [warnings |-> warnings, compatible |-> compatible,
                           inactive |-> DOMAIN p.reviewed \ live, complete |-> live \subseteq DOMAIN p.reviewed]
  BY DEF Analysis
<1>2. DOMAIN warnings = live \ compatible /\ \A pair \in live \ compatible : warnings[pair].kind = Relationship(p, pair)
  OBVIOUS
<1> HIDE DEF warnings, live
<1> QED
  BY <1>1, <1>2 DEF live

\* Only two different rules are in force together.
LEMMA LivePairsAreOfTwo ==
  ASSUME NEW p, NEW res, DOMAIN res = DOMAIN p.rule, NEW pair \in LivePairs(p, res)
  PROVE  Cardinality(pair) = 2 /\ pair \subseteq DOMAIN p.rule
BY DEF LivePairs

\* A report of interactions is accepted.
LEMMA AnalysisIsAccepted ==
  ASSUME NEW p, NEW res, PlanAccepted(p), DOMAIN res = DOMAIN p.rule,
         \A pair \in DOMAIN p.reviewed : p.reviewed[pair] \notin {"unreviewed", "inactive"}
  PROVE  AnalysisReconciles(p, res, Analysis(p, res))
<1> DEFINE an == Analysis(p, res)
<1>1. \A pair \in DOMAIN p.reviewed :
        pair \subseteq DOMAIN res /\ \A a, b \in pair : p.subject[a] = p.subject[b]
  BY DEF PlanAccepted
<1>2. ASSUME NEW pair \in DOMAIN an.warnings
      PROVE  /\ Cardinality(pair) = 2
             /\ an.warnings[pair].kind = "unreviewed" <=> pair \notin DOMAIN p.reviewed
  <2>1. pair \in LivePairs(p, res) /\ an.warnings[pair].kind = Relationship(p, pair)
    BY AnalysisParts
  <2> HIDE DEF an
  <2> QED
    BY <2>1, LivePairsAreOfTwo DEF Relationship
<1> HIDE DEF an
<1> QED
  BY <1>1, <1>2 DEF AnalysisReconciles, an

-----------------------------------------------------------------------------
(* The trace and the cited answer.                                         *)

\* The trace: its steps are of rules, of resolutions and of pairs of rules.
TracePairs(an) == DOMAIN an.warnings \cup an.compatible \cup an.inactive
Interactions(an) == {Step("interaction", pair) : pair \in TracePairs(an)}
ResolutionSteps(p) == {Step("resolution", {r}) : r \in DOMAIN p.rule}
ApplicabilitySteps(p) == {Step("applicability", {r}) : r \in DOMAIN p.rule}

\* The parts of a trace.
LEMMA TraceParts ==
  ASSUME NEW p, NEW an
  PROVE  LET tr == DeriveTrace(p, an)
         IN /\ tr.steps = ApplicabilitySteps(p) \cup ResolutionSteps(p) \cup Interactions(an)
            /\ tr.terminals \subseteq ResolutionSteps(p) \cup Interactions(an)
            /\ tr.outcomes = [pair \in TracePairs(an) |-> InteractionOutcome(an, pair)]
            /\ DOMAIN tr.outcomes = TracePairs(an)
            /\ \A pair \in TracePairs(an) : tr.outcomes[pair] = InteractionOutcome(an, pair)
<1> DEFINE pairs == DOMAIN an.warnings \cup an.compatible \cup an.inactive
           interactions == {Step("interaction", pair) : pair \in pairs}
           used == UNION {Dependencies(s) : s \in interactions}
           resolutions == {Step("resolution", {r}) : r \in DOMAIN p.rule}
           outcomes == [pair \in pairs |-> InteractionOutcome(an, pair)]
<1>1. DeriveTrace(p, an) = [steps |-> {Step("applicability", {r}) : r \in DOMAIN p.rule}
                              \cup resolutions \cup interactions,
                            terminals |-> (resolutions \ used) \cup interactions, outcomes |-> outcomes]
  BY DEF DeriveTrace
<1>2. pairs = TracePairs(an) /\ interactions = Interactions(an) /\ resolutions = ResolutionSteps(p)
  BY DEF TracePairs, Interactions, ResolutionSteps
<1>3. DOMAIN outcomes = pairs /\ \A pair \in pairs : outcomes[pair] = InteractionOutcome(an, pair)
  OBVIOUS
<1>4. outcomes = [pair \in TracePairs(an) |-> InteractionOutcome(an, pair)]
  BY <1>2
<1> HIDE DEF pairs, interactions, used, resolutions, outcomes
<1> QED
  BY <1>1, <1>2, <1>3, <1>4 DEF ApplicabilitySteps

\* Each pair that is traced is of rules of the plan.
LEMMA TracePairsAreOfRules ==
  ASSUME NEW p, PlanAccepted(p), NEW res, DOMAIN res = DOMAIN p.rule
  PROVE  \A pair \in TracePairs(Analysis(p, res)) : pair \subseteq DOMAIN p.rule /\ Cardinality(pair) = 2
<1> DEFINE an == Analysis(p, res)
<1>1. DOMAIN an.warnings \subseteq LivePairs(p, res) /\ an.compatible \subseteq LivePairs(p, res)
      /\ an.inactive \subseteq DOMAIN p.reviewed
  BY AnalysisParts
<1>2. \A x \in LivePairs(p, res) : x \subseteq DOMAIN p.rule /\ Cardinality(x) = 2
  BY LivePairsAreOfTwo
<1>3. \A x \in DOMAIN p.reviewed : x \subseteq DOMAIN p.rule /\ Cardinality(x) = 2
  BY DEF PlanAccepted
<1> HIDE DEF an
<1> QED
  BY <1>1, <1>2, <1>3 DEF TracePairs, an

\* A trace is accepted, with the sources it holds.
LEMMA TraceIsAccepted ==
  ASSUME NEW p, NEW ds, PlanAccepted(p), DecisionsRead(p, ds),
         \A pair \in DOMAIN p.reviewed : p.reviewed[pair] \notin {"unreviewed", "inactive"}
  PROVE  LET res == Resolution(p, ds)
             an == Analysis(p, res)
         IN TraceAccepted(p, ds, res, an, DeriveTrace(p, an))
<1> DEFINE res == Resolution(p, ds)
           an == Analysis(p, res)
           tr == DeriveTrace(p, an)
<1>1. DOMAIN res = DOMAIN p.rule
  BY DEF Resolution
<1>2. SnapshotsAccepted(p) /\ TraceSourcesFit(p, ds, res)
  BY <1>1 DEF SnapshotsAccepted, TraceSourcesFit, PlanAccepted, DecisionsRead
<1>3. AnalysisReconciles(p, res, an)
  BY <1>1, AnalysisIsAccepted
<1>4. \A pair \in TracePairs(an) : pair \subseteq DOMAIN p.rule
  BY <1>1, TracePairsAreOfRules
<1>5. \A s \in tr.steps : Dependencies(s) \subseteq tr.steps
  <2> SUFFICES ASSUME NEW s \in ApplicabilitySteps(p) \cup ResolutionSteps(p) \cup Interactions(an)
               PROVE  Dependencies(s) \subseteq ApplicabilitySteps(p) \cup ResolutionSteps(p) \cup Interactions(an)
    BY TraceParts
  <2> HIDE DEF an, res, tr
  <2>1. CASE s \in ApplicabilitySteps(p)
    BY <2>1 DEF ApplicabilitySteps, Step, Dependencies
  <2>2. CASE s \in ResolutionSteps(p)
    <3>1. PICK r \in DOMAIN p.rule : s = Step("resolution", {r})
      BY <2>2 DEF ResolutionSteps
    <3>2. Dependencies(s) = {Step("applicability", {r})}
      BY <3>1 DEF Dependencies, Step
    <3> QED
      BY <3>2 DEF ApplicabilitySteps
  <2>3. CASE s \in Interactions(an)
    <3>1. PICK pair \in TracePairs(an) : s = Step("interaction", pair)
      BY <2>3 DEF Interactions
    <3>2. Dependencies(s) = {Step("resolution", {r}) : r \in pair}
      BY <3>1 DEF Dependencies, Step
    <3> QED
      BY <1>4, <3>2 DEF ResolutionSteps
  <2> QED
    BY <2>1, <2>2, <2>3
<1>6. tr.terminals \subseteq tr.steps
  <2>1. tr.steps = ApplicabilitySteps(p) \cup ResolutionSteps(p) \cup Interactions(an)
    BY TraceParts
  <2>2. tr.terminals \subseteq ResolutionSteps(p) \cup Interactions(an)
    BY TraceParts
  <2> HIDE DEF tr, an
  <2> QED
    BY <2>1, <2>2
<1>7. \A pair \in DOMAIN tr.outcomes \ DOMAIN an.warnings :
        /\ pair \in DOMAIN p.reviewed
        /\ pair \in an.inactive \/ p.reviewed[pair] = "compatible"
  <2> SUFFICES ASSUME NEW pair \in TracePairs(an) \ DOMAIN an.warnings
               PROVE  pair \in DOMAIN p.reviewed /\ (pair \in an.inactive \/ p.reviewed[pair] = "compatible")
    <3>1. DOMAIN tr.outcomes = TracePairs(an)
      BY TraceParts
    <3> HIDE DEF tr, an
    <3> QED
      BY <3>1
  <2>1. pair \in an.inactive \/ pair \in an.compatible
    BY DEF TracePairs
  <2>2. pair \in an.inactive => pair \in DOMAIN p.reviewed
    BY AnalysisParts
  <2>3. pair \in an.compatible => Relationship(p, pair) = "compatible"
    BY AnalysisParts
  <2> HIDE DEF an
  <2> QED
    BY <2>1, <2>2, <2>3 DEF Relationship
<1>8. TraceReconciles(p, res, an, tr)
  <2> HIDE DEF res, an, tr
  <2> QED
    BY <1>1, <1>5, <1>6, <1>7 DEF TraceReconciles
<1> HIDE DEF res, an
<1> QED
  BY <1>2, <1>3, <1>8 DEF TraceAccepted, res, an

\* The cited answer.
LEMMA CitedRulesOf ==
  ASSUME NEW ds, NEW rules, \A r \in rules : ds[r].evidence # {} PROVE CitedRules(Cites(ds, rules)) = rules
<1> DEFINE Of(r) == {<<r, f>> : f \in ds[r].evidence}
<1>1. Cites(ds, rules) = UNION {Of(r) : r \in rules}
  BY DEF Cites
<1>2. \A c \in Cites(ds, rules) : c[1] \in rules
  BY DEF Cites
<1>3. ASSUME NEW r \in rules PROVE \E c \in Cites(ds, rules) : c[1] = r
  <2>1. PICK f \in ds[r].evidence : TRUE
    OBVIOUS
  <2>2. <<r, f>> \in Of(r)
    BY <2>1
  <2>3. <<r, f>> \in Cites(ds, rules)
    <3> HIDE DEF Of
    <3> QED
      BY <1>1, <2>2
  <2> QED
    BY <2>3
<1> QED
  BY <1>2, <1>3 DEF CitedRules

AnswerFindings(ds, res) == {r \in DOMAIN res : HasFinding(ds, res, r)}
AnswerWarnings(ds, tr) == {p \in Warned(tr) : CitedRules(Cites(ds, p)) = p}
AnswerNotices(ds, res, an, tr) == DiagnosticNotices(ds) \cup EvidenceNotices(ds, res) \cup InteractionNotices(ds, an, tr)

\* The parts of a cited answer.
LEMMA AnswerParts ==
  ASSUME NEW p, NEW ds, NEW res, NEW an, NEW tr
  PROVE  LET a == CitedAnswer(p, ds, res, an, tr)
         IN /\ DOMAIN a.findings = AnswerFindings(ds, res) /\ DOMAIN a.warnings = AnswerWarnings(ds, tr)
            /\ \A r \in AnswerFindings(ds, res) : a.findings[r] = Cites(ds, SpeaksFor(res, r))
            /\ \A x \in AnswerWarnings(ds, tr) : a.warnings[x] = Cites(ds, x)
            /\ a.missing = MissingInformation(p, ds, res) /\ a.notices = AnswerNotices(ds, res, an, tr)
            /\ a.analysed = an.complete
            /\ a.status = DeriveReportStatus(res, AnswerFindings(ds, res), AnswerWarnings(ds, tr),
                                             a.missing, a.notices)
<1> DEFINE F == AnswerFindings(ds, res)
           W == AnswerWarnings(ds, tr)
           M == MissingInformation(p, ds, res)
           N == AnswerNotices(ds, res, an, tr)
           cited == [r \in F |-> Cites(ds, SpeaksFor(res, r))]
           warned == [x \in W |-> Cites(ds, x)]
<1>1. CitedAnswer(p, ds, res, an, tr)
        = [findings |-> cited, warnings |-> warned, missing |-> M, notices |-> N, analysed |-> an.complete,
           status |-> DeriveReportStatus(res, F, W, M, N)]
  BY DEF CitedAnswer, AnswerFindings, AnswerWarnings, AnswerNotices
<1>2. DOMAIN cited = F /\ DOMAIN warned = W /\ (\A r \in F : cited[r] = Cites(ds, SpeaksFor(res, r)))
      /\ \A x \in W : warned[x] = Cites(ds, x)
  OBVIOUS
<1> HIDE DEF F, W, M, N, cited, warned
<1> QED
  BY <1>1, <1>2 DEF F, W, M, N

\* Only pending rules ask for facts.
LEMMA MissingIsOfRules ==
  ASSUME NEW p, NEW ds, NEW res, NEW x \in MissingInformation(p, ds, res)
  PROVE  x[1] \in DOMAIN res /\ res[x[1]].disposition = "pending"
BY DEF MissingInformation

\* The notices, by kind.
OfSomeKind(n, ds, res, an, tr) ==
  \/ n \in DiagnosticNotices(ds)
  \/ \E r \in DOMAIN ds : n = Notice("missing_official_evidence", {r}) /\ ds[r].evidence = {}
  \/ \E r \in DOMAIN ds : /\ n = Notice("override_evidence_incomplete", SpeaksFor(res, r))
                          /\ ds[r].evidence # {} /\ ~HasFinding(ds, res, r)
  \/ \E x \in Warned(tr) : n = Notice("interaction_evidence_incomplete", x)
  \/ n = Notice("interaction_analysis_incomplete", {}) /\ ~an.complete

LEMMA NoticeKinds ==
  ASSUME NEW ds, NEW res, NEW an, NEW tr, NEW n \in AnswerNotices(ds, res, an, tr)
  PROVE  OfSomeKind(n, ds, res, an, tr)
<1> USE DEF OfSomeKind
<1>1. CASE n \in DiagnosticNotices(ds)
  BY <1>1
<1>2. CASE n \in EvidenceNotices(ds, res)
  BY <1>2 DEF EvidenceNotices
<1>3. CASE n \in InteractionNotices(ds, an, tr)
  <2>1. an.complete => {Notice("interaction_evidence_incomplete", x) : x \in {y \in Warned(tr) : CitedRules(Cites(ds, y)) # y}}
          = InteractionNotices(ds, an, tr)
    BY DEF InteractionNotices
  <2> QED
    BY <1>3, <2>1 DEF InteractionNotices
<1> QED
  BY <1>1, <1>2, <1>3 DEF AnswerNotices

\* What overrides a rule was confirmed on evidence: whatever has evidence is reported.
LEMMA EvidenceIsReported ==
  ASSUME NEW p, NEW ds, PlanAccepted(p), DecisionsRead(p, ds), NEW r \in DOMAIN p.rule
  PROVE  /\ HasFinding(ds, Resolution(p, ds), r) <=> ds[r].evidence # {}
         /\ SpeaksFor(Resolution(p, ds), r) \subseteq DOMAIN p.rule
<1> DEFINE by == Overrider(p, ds, r)
<1>1. Resolution(p, ds)[r].by = by
  BY DEF Resolution
<1>2. by # NoRule => by \in DOMAIN p.rule /\ ds[by].evidence # {}
  <2> SUFFICES ASSUME by # NoRule PROVE by \in DOMAIN p.rule /\ ds[by].evidence # {}
    OBVIOUS
  <2>1. PICK e \in Activated(p, ds) : e[2] = r /\ e[1] = by
    BY OverriderIsConfirmed
  <2>2. e \in p.edges /\ ds[e[1]].status = "confirmed"
    BY <2>1 DEF Activated
  <2>3. e[1] \in DOMAIN p.rule
    BY <2>2 DEF PlanAccepted, PrecedenceAccepted
  <2> HIDE DEF by
  <2> QED
    BY <2>1, <2>2, <2>3 DEF DecisionsRead
<1> HIDE DEF by
<1> QED
  BY <1>1, <1>2 DEF HasFinding, SpeaksFor

\* Only a conflict that is not cited whole names two rules.
LEMMA NoticesNamePairs ==
  ASSUME NEW ds, NEW res, NEW an, NEW tr, NEW n \in AnswerNotices(ds, res, an, tr), DOMAIN ds = DOMAIN res,
         \A r \in DOMAIN ds : ds[r].diagnostics \subseteq DiagnosticKinds,
         \A r \in DOMAIN res : HasFinding(ds, res, r) <=> ds[r].evidence # {},
         \A pair \in Warned(tr) : Cardinality(pair) = 2
  PROVE  /\ n.kind \in {"override_evidence_incomplete", "interaction_evidence_incomplete"}
              => Cardinality(n.rules) = 2
         /\ n.kind = "interaction_analysis_incomplete" => ~an.complete
<1>1. CASE n \in DiagnosticNotices(ds)
  <2>1. PICK r \in DOMAIN ds : \E k \in ds[r].diagnostics : n = Notice(k, {r})
    BY <1>1 DEF DiagnosticNotices
  <2>2. n.kind \in DiagnosticKinds
    BY <2>1 DEF Notice
  <2> QED
    BY <2>2 DEF DiagnosticKinds
<1>2. CASE \E r \in DOMAIN ds : n = Notice("missing_official_evidence", {r}) /\ ds[r].evidence = {}
  BY <1>2 DEF Notice
<1>3. CASE \E r \in DOMAIN ds : /\ n = Notice("override_evidence_incomplete", SpeaksFor(res, r))
                                /\ ds[r].evidence # {} /\ ~HasFinding(ds, res, r)
  BY <1>3
<1>4. CASE \E x \in Warned(tr) : n = Notice("interaction_evidence_incomplete", x)
  BY <1>4 DEF Notice
<1>5. CASE n = Notice("interaction_analysis_incomplete", {}) /\ ~an.complete
  BY <1>5 DEF Notice
<1> DEFINE Here == /\ n.kind \in {"override_evidence_incomplete", "interaction_evidence_incomplete"}
                        => Cardinality(n.rules) = 2
                   /\ n.kind = "interaction_analysis_incomplete" => ~an.complete
           Uncited(r) == /\ n = Notice("override_evidence_incomplete", SpeaksFor(res, r))
                         /\ ds[r].evidence # {} /\ ~HasFinding(ds, res, r)
           Bare(r) == n = Notice("missing_official_evidence", {r}) /\ ds[r].evidence = {}
           Cut(x) == n = Notice("interaction_evidence_incomplete", x)
           Unread == n = Notice("interaction_analysis_incomplete", {}) /\ ~an.complete
<1>6. \/ n \in DiagnosticNotices(ds)
      \/ \E r \in DOMAIN ds : Bare(r)
      \/ \E r \in DOMAIN ds : Uncited(r)
      \/ \E x \in Warned(tr) : Cut(x)
      \/ Unread
  <2>1. OfSomeKind(n, ds, res, an, tr)
    BY NoticeKinds
  <2> QED
    BY <2>1 DEF OfSomeKind
<1>7. /\ (\E r \in DOMAIN ds : Bare(r)) => Here
      /\ (\E r \in DOMAIN ds : Uncited(r)) => Here
      /\ (\E x \in Warned(tr) : Cut(x)) => Here
      /\ Unread => Here
      /\ n \in DiagnosticNotices(ds) => Here
  BY <1>1, <1>2, <1>3, <1>4, <1>5
<1> HIDE DEF Here, Uncited, Bare, Cut, Unread
<1>8. Here
  BY <1>6, <1>7
<1> QED
  BY <1>8 DEF Here

\* A cited answer is accepted.
LEMMA AnswerIsAccepted ==
  ASSUME NEW p, NEW ds, PlanAccepted(p), DecisionsRead(p, ds)
  PROVE  LET res == Resolution(p, ds)
             an == Analysis(p, res)
             tr == DeriveTrace(p, an)
         IN AnswerAccepted(res, tr, CitedAnswer(p, ds, res, an, tr))
<1> DEFINE res == Resolution(p, ds)
           an == Analysis(p, res)
           tr == DeriveTrace(p, an)
           a == CitedAnswer(p, ds, res, an, tr)
<1>1. DOMAIN res = DOMAIN p.rule
  BY DEF Resolution
<1>2. \A pair \in Warned(tr) : pair \in TracePairs(an) /\ Cardinality(pair) = 2
  <2>1. \A pair \in TracePairs(an) : Cardinality(pair) = 2
    BY <1>1, TracePairsAreOfRules
  <2>2. DOMAIN tr.outcomes = TracePairs(an)
    BY TraceParts
  <2> HIDE DEF tr, an
  <2> QED
    BY <2>1, <2>2 DEF Warned
<1>3. /\ DOMAIN a.findings = AnswerFindings(ds, res) /\ DOMAIN a.warnings = AnswerWarnings(ds, tr)
      /\ \A r \in AnswerFindings(ds, res) : a.findings[r] = Cites(ds, SpeaksFor(res, r))
      /\ \A x \in AnswerWarnings(ds, tr) : a.warnings[x] = Cites(ds, x)
      /\ a.missing = MissingInformation(p, ds, res) /\ a.notices = AnswerNotices(ds, res, an, tr)
      /\ a.analysed = an.complete
      /\ a.status = DeriveReportStatus(res, AnswerFindings(ds, res), AnswerWarnings(ds, tr), a.missing, a.notices)
  BY AnswerParts
<1>4. \A r \in DOMAIN res : HasFinding(ds, res, r) <=> ds[r].evidence # {}
  BY <1>1, EvidenceIsReported
<1>5. ~an.complete => \E pair \in DOMAIN tr.outcomes : tr.outcomes[pair].kind = "unreviewed"
  <2> SUFFICES ASSUME ~an.complete PROVE \E pair \in DOMAIN tr.outcomes : tr.outcomes[pair].kind = "unreviewed"
    OBVIOUS
  <2>1. PICK pair \in LivePairs(p, res) : pair \notin DOMAIN p.reviewed
    BY AnalysisParts
  <2>2. Relationship(p, pair) = "unreviewed"
    BY <2>1 DEF Relationship
  <2>3. pair \in DOMAIN an.warnings /\ an.warnings[pair].kind = "unreviewed"
    <3>1. pair \in DOMAIN an.warnings \cup an.compatible
      BY <2>1, AnalysisParts
    <3>2. pair \notin an.compatible
      BY <2>2, AnalysisParts
    <3>3. pair \in DOMAIN an.warnings => an.warnings[pair].kind = Relationship(p, pair)
      BY AnalysisParts
    <3> HIDE DEF an
    <3> QED
      BY <2>2, <3>1, <3>2, <3>3
  <2>4. /\ DOMAIN tr.outcomes = TracePairs(an)
        /\ \A x \in TracePairs(an) : tr.outcomes[x] = InteractionOutcome(an, x)
    BY TraceParts
  <2> HIDE DEF an, tr
  <2> QED
    BY <2>3, <2>4 DEF TracePairs, InteractionOutcome
<1> HIDE DEF a, res, an, tr
<1>6. \A x \in AnswerWarnings(ds, tr) : WarningAccepted(x, a.warnings[x])
  BY <1>2, <1>3 DEF WarningAccepted, AnswerWarnings
<1>7. \A r \in AnswerFindings(ds, res) : CitedRules(a.findings[r]) = SpeaksFor(res, r)
  BY <1>3, CitedRulesOf DEF AnswerFindings, HasFinding
<1>8. ASSUME NEW r \in DOMAIN res, r \notin AnswerFindings(ds, res)
      PROVE  \E n \in AnswerNotices(ds, res, an, tr) : r \in n.rules
  <2>1. ds[r].evidence = {} /\ r \in DOMAIN ds
    BY <1>1, <1>4, <1>8 DEF AnswerFindings, DecisionsRead
  <2>2. Notice("missing_official_evidence", {r}) \in EvidenceNotices(ds, res)
    BY <2>1 DEF EvidenceNotices
  <2>3. r \in Notice("missing_official_evidence", {r}).rules
    BY DEF Notice
  <2> QED
    BY <2>2, <2>3 DEF AnswerNotices
<1>9. ASSUME NEW n \in AnswerNotices(ds, res, an, tr)
      PROVE  /\ n.kind \in {"override_evidence_incomplete", "interaction_evidence_incomplete"}
                  => Cardinality(n.rules) = 2
             /\ n.kind = "interaction_analysis_incomplete" => ~an.complete
  <2>1. DOMAIN ds = DOMAIN res /\ \A r \in DOMAIN ds : ds[r].diagnostics \subseteq DiagnosticKinds
    BY <1>1 DEF DecisionsRead
  <2> HIDE DEF res, an, tr
  <2> QED
    BY <1>2, <1>4, <2>1, NoticesNamePairs
<1>10. ~an.complete => \E n \in AnswerNotices(ds, res, an, tr) : n.kind = "interaction_analysis_incomplete"
  <2> SUFFICES ASSUME ~an.complete
               PROVE  Notice("interaction_analysis_incomplete", {}) \in InteractionNotices(ds, an, tr)
    BY DEF AnswerNotices, Notice
  <2> QED
    BY DEF InteractionNotices
<1>11. an.complete \in BOOLEAN
  BY AnalysisParts DEF an
<1>12. AnswerReconciles(res, tr, a)
  <2>1. DOMAIN res \subseteq DOMAIN a.findings \cup UNION {n.rules : n \in a.notices}
    BY <1>3, <1>8
  <2>2. \A x \in a.missing : x[1] \in DOMAIN res
    BY <1>3, MissingIsOfRules
  <2>3. a.analysed <=> ~\E n \in a.notices : n.kind = "interaction_analysis_incomplete"
    BY <1>3, <1>9, <1>10, <1>11
  <2>4. a.analysed \/ \E x \in DOMAIN tr.outcomes : tr.outcomes[x].kind = "unreviewed"
    BY <1>3, <1>5
  <2> QED
    BY <1>3, <1>7, <1>9, <2>1, <2>2, <2>3, <2>4 DEF AnswerReconciles
<1>13. AnswerAccepted(res, tr, a)
  BY <1>3, <1>6, <1>12 DEF AnswerAccepted
<1> QED
  BY <1>13 DEF a, res, an, tr

-----------------------------------------------------------------------------
(* The report.  It shows the plan without a program condition that could   *)
(* not be confirmed, and validates again what it shows.                     *)

\* Two plans with the same rules, subjects, edges and reviewed relations: what is
\* decided, resolved, traced and answered of one is that of the other.
SameRules(s, p) == s.rule = p.rule /\ s.subject = p.subject /\ s.edges = p.edges /\ s.reviewed = p.reviewed

LEMMA SameRulesSameAnswer ==
  ASSUME NEW p, NEW s, SameRules(s, p), NEW ds
  PROVE  /\ PlanAccepted(p) => PlanAccepted(s)
         /\ Resolution(s, ds) = Resolution(p, ds)
         /\ \A res : Analysis(s, res) = Analysis(p, res)
         /\ \A an : DeriveTrace(s, an) = DeriveTrace(p, an)
         /\ \A res, an, tr : CitedAnswer(s, ds, res, an, tr) = CitedAnswer(p, ds, res, an, tr)
<1> USE DEF SameRules
<1>1. PlanAccepted(p) => PlanAccepted(s)
  BY DEF PlanAccepted, PrecedenceAccepted
<1>2. Resolution(s, ds) = Resolution(p, ds)
  <2>1. Activated(s, ds) = Activated(p, ds)
    BY DEF Activated
  <2> DEFINE By(edges, r) == IF \E x \in edges : x[2] = r THEN (CHOOSE x \in edges : x[2] = r)[1] ELSE NoRule
  <2>2. \A r : Overrider(p, ds, r) = By(Activated(p, ds), r) /\ Overrider(s, ds, r) = By(Activated(s, ds), r)
    BY DEF Overrider
  <2> HIDE DEF By
  <2>3. \A r : Overrider(s, ds, r) = Overrider(p, ds, r)
    BY <2>1, <2>2
  <2> QED
    BY <2>3 DEF Resolution
<1>3. ASSUME NEW res PROVE Analysis(s, res) = Analysis(p, res)
  <2>1. LivePairs(s, res) = LivePairs(p, res)
    BY DEF LivePairs
  <2>2. \A pair : Relationship(s, pair) = Relationship(p, pair)
    BY DEF Relationship
  <2> DEFINE F(live, kind, reviewed) ==
               LET compatible == {pair \in live : kind[pair] = "compatible"}
               IN [warnings |->
                     [pair \in live \ compatible |->
                        [kind |-> kind[pair],
                         certainty |-> IF \A r \in pair : res[r].disposition = "active"
                                       THEN "confirmed" ELSE "potential"]],
                   compatible |-> compatible, inactive |-> reviewed \ live, complete |-> live \subseteq reviewed]
  <2>3. ASSUME NEW q
        PROVE  Analysis(q, res) = F(LivePairs(q, res), [pair \in LivePairs(q, res) |-> Relationship(q, pair)], DOMAIN q.reviewed)
    BY DEF Analysis
  <2> HIDE DEF F
  <2>4. [pair \in LivePairs(s, res) |-> Relationship(s, pair)] = [pair \in LivePairs(p, res) |-> Relationship(p, pair)]
    BY <2>1, <2>2
  <2> QED
    BY <2>1, <2>3, <2>4
<1>4. ASSUME NEW an PROVE DeriveTrace(s, an) = DeriveTrace(p, an)
  BY DEF DeriveTrace
<1>5. ASSUME NEW res, NEW an, NEW tr PROVE CitedAnswer(s, ds, res, an, tr) = CitedAnswer(p, ds, res, an, tr)
  <2>1. MissingInformation(s, ds, res) = MissingInformation(p, ds, res)
    <3> DEFINE Asks(rule, r) ==
                 LET fields == ds[r].missing
                         \cup (IF "missing_scope" \in ds[r].diagnostics
                               THEN {ScopeFields[rule[r].scope.type]} ELSE {})
                 IN IF "ambiguous_language_result_selection" \in ds[r].diagnostics
                    THEN (fields \ LanguageFields) \cup {SelectionField} ELSE fields
               M(rule) == UNION {{<<r, f>> : f \in Asks(rule, r)} : r \in {x \in DOMAIN res : res[x].disposition = "pending"}}
    <3>1. MissingInformation(s, ds, res) = M(s.rule) /\ MissingInformation(p, ds, res) = M(p.rule)
      BY DEF MissingInformation
    <3> HIDE DEF M
    <3> QED
      BY <3>1
  <2> DEFINE Made(missing) ==
        LET findings == {r \in DOMAIN res : HasFinding(ds, res, r)}
            warnings == {x \in Warned(tr) : CitedRules(Cites(ds, x)) = x}
            notices == DiagnosticNotices(ds) \cup EvidenceNotices(ds, res) \cup InteractionNotices(ds, an, tr)
        IN [findings |-> [r \in findings |-> Cites(ds, SpeaksFor(res, r))],
            warnings |-> [x \in warnings |-> Cites(ds, x)],
            missing |-> missing, notices |-> notices, analysed |-> an.complete,
            status |-> DeriveReportStatus(res, findings, warnings, missing, notices)]
  <2>2. /\ CitedAnswer(s, ds, res, an, tr) = Made(MissingInformation(s, ds, res))
        /\ CitedAnswer(p, ds, res, an, tr) = Made(MissingInformation(p, ds, res))
    BY DEF CitedAnswer
  <2> HIDE DEF Made
  <2> QED
    BY <2>1, <2>2
<1> QED
  BY <1>1, <1>2, <1>3, <1>4, <1>5

\* What is hidden with a program condition: its policy, and the records that are
\* evidence for nothing else.
LEMMA ShownOwners ==
  ASSUME NEW p, PlanFields \subseteq DOMAIN p, NEW f
  PROVE  Owners([p EXCEPT !.program = {}], f) = {o \in Owners(p, f) : o.policy # "program"}
<1> DEFINE s == [p EXCEPT !.program = {}]
<1>1. /\ s.rule = p.rule /\ s.conversion = p.conversion /\ s.materials = p.materials
      /\ s.allocation = p.allocation /\ s.evaluation = p.evaluation /\ s.program = {}
  BY DEF PlanFields
<1> HIDE DEF s
<1> DEFINE Kept1(q) == {Owner("rule", r) : r \in {x \in DOMAIN q.rule : f \in q.rule[x].bindings}}
           Kept2(q) == {Owner("conversion", NoName) : x \in {q.conversion} \cap {f}}
           Kept3(q) == {Owner("materials", NoName) : x \in {q.materials} \cap {f}}
           Kept4(q) == {Owner("allocation", e.target) : e \in {x \in q.allocation : x.fact = f}}
           Kept5(q) == {Owner("evaluation", e.target) : e \in {x \in q.evaluation : x.fact = f}}
           Program(q) == {Owner("program", e.route) : e \in {x \in q.program : x.fact = f}}
<1>2. /\ Owners(s, f) = Kept1(s) \cup Kept2(s) \cup Kept3(s) \cup Kept4(s) \cup Kept5(s) \cup Program(s)
      /\ Owners(p, f) = Kept1(p) \cup Kept2(p) \cup Kept3(p) \cup Kept4(p) \cup Kept5(p) \cup Program(p)
  BY DEF Owners
<1>3. /\ Kept1(s) = Kept1(p) /\ Kept2(s) = Kept2(p) /\ Kept3(s) = Kept3(p)
      /\ Kept4(s) = Kept4(p) /\ Kept5(s) = Kept5(p) /\ Program(s) = {}
  BY <1>1
<1>4. /\ \A o \in Kept1(p) : o.policy # "program"
      /\ \A o \in Kept2(p) : o.policy # "program"
      /\ \A o \in Kept3(p) : o.policy # "program"
      /\ \A o \in Kept4(p) : o.policy # "program"
      /\ \A o \in Kept5(p) : o.policy # "program"
      /\ \A o \in Program(p) : o.policy = "program"
  BY DEF Owner
<1> HIDE DEF Kept1, Kept2, Kept3, Kept4, Kept5, Program
<1>5. Owners(s, f) = {o \in Owners(p, f) : o.policy # "program"}
  BY <1>2, <1>3, <1>4
<1> QED
  BY <1>5 DEF s

\* The records that are shown are those the shown plan needs.
LEMMA ShownRecords ==
  ASSUME NEW p, PlanFields \subseteq DOMAIN p, NEW app
  PROVE  VisibleRecords(p, app, Records(p)) = Records(VisiblePlan(p, app))
<1>1. CASE ~ProgramHidden(p, app)
  BY <1>1 DEF VisibleRecords, VisiblePlan
<1>2. CASE ProgramHidden(p, app)
  <2> DEFINE s == [p EXCEPT !.program = {}]
             Shown(f) == {o \in Records(p)[f] : o.policy # "program"}
  <2>1. VisiblePlan(p, app) = s
    BY <1>2 DEF VisiblePlan
  <2>2. VisibleRecords(p, app, Records(p)) = [f \in {x \in DOMAIN Records(p) : Shown(x) # {}} |-> Shown(f)]
    BY <1>2 DEF VisibleRecords
  <2>3. \A f : Owners(s, f) = {o \in Owners(p, f) : o.policy # "program"}
    BY ShownOwners
  <2> HIDE DEF s
  <2>4. DOMAIN Records(p) = {x \in Facts : Owners(p, x) # {}} /\ \A f \in DOMAIN Records(p) : Records(p)[f] = Owners(p, f)
    BY DEF Records
  <2>5. {x \in DOMAIN Records(p) : Shown(x) # {}} = {x \in Facts : Owners(s, x) # {}}
    BY <2>3, <2>4
  <2>6. \A f \in {x \in DOMAIN Records(p) : Shown(x) # {}} : Shown(f) = Owners(s, f)
    BY <2>3, <2>4
  <2> HIDE DEF Shown
  <2>7. VisibleRecords(p, app, Records(p)) = [f \in {x \in Facts : Owners(s, x) # {}} |-> Owners(s, f)]
    BY <2>2, <2>5, <2>6
  <2> QED
    BY <2>1, <2>7 DEF Records
<1> QED
  BY <1>1, <1>2

\* Every rule is evidence, so there is always something to show.
LEMMA RecordsAreAccepted ==
  ASSUME NEW p, PlanAccepted(p), \A r \in DOMAIN p.rule : p.rule[r].bindings \subseteq Facts
  PROVE  BundleAccepted(Records(p))
<1>1. PICK r \in DOMAIN p.rule : TRUE
  BY DEF PlanAccepted
<1>2. PICK f \in p.rule[r].bindings : TRUE
  BY <1>1 DEF PlanAccepted, RuleAccepted
<1>3. f \in DOMAIN Records(p)
  BY <1>1, <1>2, BoundFactIsOwned
<1>4. \A x \in DOMAIN Records(p) : Records(p)[x] # {}
  BY DEF Records
<1> QED
  BY <1>3, <1>4 DEF BundleAccepted, RecordAccepted

\* The policies of the plan that is shown say the same.
LEMMA ShownPolicies ==
  ASSUME NEW p, PlanFields \subseteq DOMAIN p, NEW app
  PROVE  LET s == VisiblePlan(p, app)
         IN /\ LanguageScoreAllocation(s, app) = LanguageScoreAllocation(p, app)
            /\ LanguageEvaluation(s, app) = LanguageEvaluation(p, app)
            /\ s.program # {} => s = p
            /\ s.allocation = p.allocation /\ s.evaluation = p.evaluation
            /\ s.conversion = p.conversion /\ s.materials = p.materials
            /\ PoliciesAccepted(p) => PoliciesAccepted(s)
<1>1. CASE VisiblePlan(p, app) = p
  BY <1>1
<1>2. CASE VisiblePlan(p, app) = [p EXCEPT !.program = {}]
  <2> DEFINE s == [p EXCEPT !.program = {}]
  <2>1. /\ s.allocation = p.allocation /\ s.evaluation = p.evaluation
        /\ s.conversion = p.conversion /\ s.materials = p.materials /\ s.program = {}
    BY DEF PlanFields
  <2> HIDE DEF s
  <2> DEFINE Allocated(entries) ==
               Lookup(entries, NoName \notin {app.target, app.college}, LAMBDA e : e \in InScope(entries, app))
             Evaluated(entries) ==
               LET scoped == InScope(entries, app)
                   routeNeeded == app.route = NoName /\ \E e \in scoped : e.route # NoName
               IN Lookup(scoped, NoName \notin {app.target, app.college} /\ ~routeNeeded,
                         LAMBDA e : e.route \in {NoName, app.route})
  <2>2. /\ LanguageScoreAllocation(s, app) = Allocated(s.allocation)
        /\ LanguageScoreAllocation(p, app) = Allocated(p.allocation)
    BY DEF LanguageScoreAllocation
  <2>3. /\ LanguageEvaluation(s, app) = Evaluated(s.evaluation)
        /\ LanguageEvaluation(p, app) = Evaluated(p.evaluation)
    BY DEF LanguageEvaluation
  <2> HIDE DEF Allocated, Evaluated
  <2>4. PoliciesAccepted(p) => PoliciesAccepted(s)
    BY <2>1 DEF PoliciesAccepted, OverlapFree
  <2> QED
    BY <1>2, <2>1, <2>2, <2>3, <2>4 DEF s
<1> QED
  BY <1>1, <1>2 DEF VisiblePlan

\* What the rules of a report on the whole corpus are bound to is complete.
LEMMA BoundInFull ==
  ASSUME ReportInv, stage \in Decided, request.via = "corpus", NEW r \in DOMAIN plan.rule
  PROVE  decisions[r].evidence = plan.rule[r].bindings
<1>1. Pack.via = "direct"
  BY DEF Pack, DirectEvidence
<1>2. \A f \in plan.rule[r].bindings : Pack.roles[f] = "primary"
  BY <1>1 DEF ReportInv, EvidenceHeld, EvidenceRefused
<1>3. decisions[r].evidence = BindOfficialEvidence(Pack, plan.rule[r])
  BY DEF ReportInv, EvidenceHeld, DecisionsFor, Decision
<1> QED
  BY <1>2, <1>3 DEF BindOfficialEvidence

\* A cited answer cites every reviewed fact that a rule rests on, once the rules
\* are bound in full.
LEMMA InventoryIsWhole ==
  ASSUME NEW p, NEW ds, PlanAccepted(p), DecisionsRead(p, ds), NEW an, NEW tr,
         \A r \in DOMAIN p.rule : ds[r].evidence = p.rule[r].bindings,
         \A x \in Warned(tr) : x \subseteq DOMAIN p.rule
  PROVE  Inventory(CitedAnswer(p, ds, Resolution(p, ds), an, tr))
           = UNION {{<<r, f>> : f \in p.rule[r].bindings} : r \in DOMAIN p.rule}
<1> DEFINE res == Resolution(p, ds)
           a == CitedAnswer(p, ds, res, an, tr)
           Of(r) == {<<r, f>> : f \in ds[r].evidence}
           all == Cites(ds, DOMAIN p.rule)
<1>1. DOMAIN res = DOMAIN p.rule
  BY DEF Resolution
<1>2. all = UNION {{<<r, f>> : f \in p.rule[r].bindings} : r \in DOMAIN p.rule}
  <2>1. \A r \in DOMAIN p.rule : {<<r, f>> : f \in ds[r].evidence} = {<<r, f>> : f \in p.rule[r].bindings}
    OBVIOUS
  <2> QED
    BY <2>1 DEF Cites
<1>3. AnswerFindings(ds, res) = DOMAIN p.rule
  <2>1. \A r \in DOMAIN p.rule : ds[r].evidence # {}
    BY DEF PlanAccepted, RuleAccepted
  <2> QED
    BY <1>1, <2>1, EvidenceIsReported DEF AnswerFindings
<1>4. /\ DOMAIN a.findings = DOMAIN p.rule /\ DOMAIN a.warnings \subseteq Warned(tr)
      /\ \A r \in DOMAIN p.rule : a.findings[r] = Cites(ds, SpeaksFor(res, r))
      /\ \A x \in DOMAIN a.warnings : a.warnings[x] = Cites(ds, x)
  <2>1. /\ DOMAIN a.findings = AnswerFindings(ds, res) /\ DOMAIN a.warnings = AnswerWarnings(ds, tr)
        /\ \A r \in AnswerFindings(ds, res) : a.findings[r] = Cites(ds, SpeaksFor(res, r))
        /\ \A x \in AnswerWarnings(ds, tr) : a.warnings[x] = Cites(ds, x)
    BY AnswerParts
  <2>2. AnswerWarnings(ds, tr) \subseteq Warned(tr)
    BY DEF AnswerWarnings
  <2> HIDE DEF a, res
  <2> QED
    BY <1>3, <2>1, <2>2
<1>5. \A r \in DOMAIN p.rule : SpeaksFor(res, r) \subseteq DOMAIN p.rule /\ r \in SpeaksFor(res, r)
  BY EvidenceIsReported DEF SpeaksFor
<1>6. \A rules : rules \subseteq DOMAIN p.rule => Cites(ds, rules) \subseteq all
  BY DEF Cites
<1>7. \A r \in DOMAIN p.rule : Of(r) \subseteq Cites(ds, SpeaksFor(res, r))
  BY <1>5 DEF Cites
<1>8. all = UNION {Of(r) : r \in DOMAIN p.rule}
  BY DEF Cites
<1> HIDE DEF a, res, all, Of
<1>9. Inventory(a) = UNION ({a.findings[r] : r \in DOMAIN a.findings} \cup {a.warnings[x] : x \in DOMAIN a.warnings})
  BY DEF Inventory
<1>10. Inventory(a) \subseteq all
  BY <1>4, <1>5, <1>6, <1>9
<1>11. all \subseteq Inventory(a)
  BY <1>4, <1>7, <1>8, <1>9
<1> QED
  BY <1>2, <1>10, <1>11 DEF a, res

\* A report audits itself with success: for whatever plan and profile, also with a
\* program condition hidden.
LEMMA ReportIsAccepted ==
  ASSUME ReportInv, stage = "answered", request.via = "corpus"
  PROVE  SourcesAccepted(BuiltReport) /\ ReportReconciles(BuiltReport)
<1> DEFINE seen == VisiblePlan(plan, profile)
<1>1. /\ PlanAccepted(plan) /\ PoliciesAccepted(plan) /\ bundle.records = Records(plan)
      /\ decisions = DecisionsFor(profile) /\ resolution = Resolution(plan, decisions)
      /\ analysis = Analysis(plan, resolution) /\ trace = DeriveTrace(plan, analysis)
      /\ answer = CitedAnswer(plan, decisions, resolution, analysis, trace)
  BY DEF ReportInv, EvidenceHeld, StagesHold, Prepared, Decided, Resolved, Analysed, Traced, Answered
<1>2. /\ request \in Requests /\ PlanFields \subseteq DOMAIN plan
      /\ \A pair \in DOMAIN plan.reviewed : plan.reviewed[pair] \notin {"unreviewed", "inactive"}
      /\ \A r \in DOMAIN plan.rule : plan.rule[r].bindings \subseteq Facts
  BY DecisionsAssumption DEF ReportInv, plan
<1>3. SameRules(seen, plan)
  BY <1>2, ShownRules DEF SameRules
<1>4. DecisionsRead(plan, decisions)
  BY <1>1, DecisionsAreRead
<1>5. DecisionsRead(seen, decisions)
  BY <1>3, <1>4 DEF DecisionsRead, SameRules
<1> HIDE DEF seen
<1>6. /\ PlanAccepted(seen) /\ resolution = Resolution(seen, decisions)
      /\ analysis = Analysis(seen, resolution) /\ trace = DeriveTrace(seen, analysis)
      /\ answer = CitedAnswer(seen, decisions, resolution, analysis, trace)
  <2>1. PlanAccepted(seen) /\ Resolution(seen, decisions) = Resolution(plan, decisions)
    BY <1>1, <1>3, SameRulesSameAnswer
  <2>2. Analysis(seen, resolution) = Analysis(plan, resolution)
    BY <1>3, SameRulesSameAnswer
  <2>3. DeriveTrace(seen, analysis) = DeriveTrace(plan, analysis)
    BY <1>3, SameRulesSameAnswer
  <2>4. CitedAnswer(seen, decisions, resolution, analysis, trace)
          = CitedAnswer(plan, decisions, resolution, analysis, trace)
    BY <1>3, SameRulesSameAnswer
  <2> QED
    BY <1>1, <2>1, <2>2, <2>3, <2>4
<1>7. \A pair \in DOMAIN seen.reviewed : seen.reviewed[pair] \notin {"unreviewed", "inactive"}
  BY <1>2, <1>3 DEF SameRules
<1>8. TraceAccepted(seen, decisions, resolution, analysis, trace)
  BY <1>5, <1>6, <1>7, TraceIsAccepted
<1>9. AnswerAccepted(resolution, trace, answer)
  BY <1>1, <1>4, AnswerIsAccepted
<1> DEFINE rp == BuiltReport
<1>10. /\ rp.plan = seen /\ rp.records = VisibleRecords(plan, profile, Records(plan))
       /\ rp.allocation = (IF plan.allocation = {} THEN {} ELSE {LanguageScoreAllocation(plan, profile)})
       /\ rp.evaluation = (IF plan.evaluation = {} THEN {} ELSE {LanguageEvaluation(plan, profile)})
       /\ rp.program = (IF seen.program = {} THEN {} ELSE {ProgramLanguageCondition(plan, profile)})
       /\ rp.conversion = (IF plan.conversion = NoName THEN "none" ELSE LanguageScoreConversion(profile))
       /\ rp.materials = (IF plan.materials = NoName THEN <<>> ELSE ApplicationMaterials(profile))
  BY <1>1 DEF BuiltReport, seen
<1>11. rp.records = Records(seen)
  BY <1>2, <1>10, ShownRecords DEF seen
<1>12. /\ LanguageScoreAllocation(seen, profile) = LanguageScoreAllocation(plan, profile)
       /\ LanguageEvaluation(seen, profile) = LanguageEvaluation(plan, profile)
       /\ seen.program # {} => seen = plan
       /\ seen.allocation = plan.allocation /\ seen.evaluation = plan.evaluation
       /\ seen.conversion = plan.conversion /\ seen.materials = plan.materials
       /\ PoliciesAccepted(seen)
  BY <1>1, <1>2, ShownPolicies DEF seen
<1>13. BundleAccepted(Records(seen))
  BY <1>2, <1>3, <1>6, RecordsAreAccepted DEF SameRules
<1> HIDE DEF rp
<1>14. SourcesAccepted(rp)
  BY <1>6, <1>8, <1>9, <1>10, <1>11, <1>12, <1>13 DEF SourcesAccepted
<1>15. /\ PolicyReconciles(seen.allocation, rp.allocation, LanguageScoreAllocation(seen, profile))
       /\ PolicyReconciles(seen.evaluation, rp.evaluation, LanguageEvaluation(seen, profile))
       /\ PolicyReconciles(seen.program, rp.program, ProgramLanguageCondition(seen, profile))
  BY <1>10, <1>12 DEF PolicyReconciles
<1>16. seen.conversion = NoName <=> rp.conversion = "none"
  BY <1>2, <1>10, <1>12, DecisionsAssumption DEF LanguageScoreConversion, plan, profile
<1>17. seen.materials = NoName <=> rp.materials = <<>>
  <2>1. ApplicationMaterials(profile) # <<>>
    <3>1. TRUE \in DOMAIN ApplicationMaterials(profile)
      BY DEF ApplicationMaterials
    <3>2. DOMAIN <<>> = {}
      OBVIOUS
    <3> QED
      BY <3>1, <3>2
  <2> QED
    BY <1>10, <1>12, <2>1
<1>18. \A r \in DOMAIN decisions : decisions[r].evidence = seen.rule[r].bindings
  <2>1. DOMAIN decisions = DOMAIN plan.rule
    BY <1>4 DEF DecisionsRead
  <2> QED
    BY <1>3, <2>1, BoundInFull DEF SameRules, Decided, Resolved, Analysed, Traced, Answered
<1>19. Inventory(answer) = UNION {{<<r, f>> : f \in seen.rule[r].bindings} : r \in DOMAIN seen.rule}
  <2>1. DOMAIN decisions = DOMAIN seen.rule /\ DOMAIN resolution = DOMAIN seen.rule
    BY <1>5, <1>6 DEF DecisionsRead, Resolution
  <2>2. \A x \in Warned(trace) : x \subseteq DOMAIN seen.rule
    BY <1>6, <2>1, PairsAreOfRules DEF Warned
  <2> QED
    BY <1>5, <1>6, <1>18, <2>1, <2>2, InventoryIsWhole
<1>20. /\ DeriveTrace(seen, Analysis(seen, Resolution(seen, decisions))) = trace
       /\ answer = CitedAnswer(seen, decisions, Resolution(seen, decisions), analysis, trace)
  BY <1>6
<1>21. ReportReconciles(rp)
  BY <1>10, <1>11, <1>15, <1>16, <1>17, <1>18, <1>19, <1>20 DEF ReportReconciles
<1> QED
  BY <1>14, <1>21 DEF rp

-----------------------------------------------------------------------------
(* The steps of a report, of a projection and of a form.                    *)

\* No stage of a report refuses what the stage before it hands on.
LEMMA ReportStepReconciles == ASSUME ReportInv, ReportStagesReconcile, Next PROVE ReportStagesReconcile'
<1> USE DEF ReportStagesReconcile
<1>1. /\ request \in Requests /\ NoRule \notin DOMAIN plan.rule
      /\ \A pair \in DOMAIN plan.reviewed : plan.reviewed[pair] \notin {"unreviewed", "inactive"}
      /\ \A r \in DOMAIN plan.rule : plan.rule[r].bindings \subseteq Facts
  BY DecisionsAssumption DEF ReportInv, plan
<1>2. stage \notin {"asked", "refused"} => PlanAccepted(plan)
  BY DEF ReportInv, EvidenceHeld
<1>3. stage \in Decided => DecisionsRead(plan, decisions)
  BY <1>2, DecisionsAreRead DEF ReportInv, EvidenceHeld, Decided, Resolved, Analysed, Traced, Answered, Reported, Posed
<1>4. ASSUME refusal' = refusal PROVE ReportStagesReconcile'
  BY <1>4
<1>5. CASE RewriteKb \/ LoadPlan \/ Audit
  BY <1>5 DEF RewriteKb, LoadPlan, Audit, Refuse
<1>6. CASE PrepareEvidence
  <2>1. BundleAccepted(Records(plan))
    BY <1>1, <1>2, <1>6, RecordsAreAccepted DEF PrepareEvidence
  <2> QED
    BY <1>6, <2>1 DEF PrepareEvidence, Refuse
<1>7. CASE Decide
  <2> DEFINE ds == [r \in DOMAIN plan.rule |-> Decision(profile, request.query, Pack, plan.rule[r])]
  <2>1. PlanAccepted(plan)
    BY <1>2, <1>7 DEF Decide
  <2>2. \A r \in DOMAIN ds : DecisionReconciles(plan.rule[r], ds[r])
    BY <2>1, DecisionIsAccepted DEF PlanAccepted, RuleAccepted
  <2> HIDE DEF ds
  <2> QED
    BY <1>7, <2>2 DEF Decide, Refuse, ds
<1>8. CASE Resolve
  <2>1. DecisionsFit(plan, decisions) /\ ResolutionReconciles(plan, decisions, Resolution(plan, decisions))
    BY <1>1, <1>2, <1>3, <1>8, ResolutionIsAccepted DEF Resolve, Decided
  <2> QED
    BY <1>8, <2>1 DEF Resolve, Refuse
<1>9. CASE Analyze
  <2>1. stage = "resolved"
    BY <1>9 DEF Analyze
  <2>2. DOMAIN resolution = DOMAIN plan.rule
    BY <2>1 DEF ReportInv, StagesHold, Resolved, Resolution
  <2>3. AnalysisReconciles(plan, resolution, Analysis(plan, resolution))
    BY <1>1, <1>2, <2>1, <2>2, AnalysisIsAccepted
  <2> QED
    BY <1>9, <2>3 DEF Analyze, Refuse
<1>10. CASE BuildTrace
  <2>1. stage = "analysed"
    BY <1>10 DEF BuildTrace
  <2>2. resolution = Resolution(plan, decisions) /\ analysis = Analysis(plan, resolution)
    BY <2>1 DEF ReportInv, StagesHold, Resolved, Analysed
  <2>3. TraceAccepted(plan, decisions, resolution, analysis, DeriveTrace(plan, analysis))
    BY <1>1, <1>2, <1>3, <2>1, <2>2, TraceIsAccepted DEF Decided, Resolved, Analysed
  <2> QED
    BY <1>10, <2>3 DEF BuildTrace, Refuse
<1>11. CASE BuildAnswer
  <2>1. stage = "traced"
    BY <1>11 DEF BuildAnswer
  <2>2. resolution = Resolution(plan, decisions) /\ analysis = Analysis(plan, resolution) /\ trace = DeriveTrace(plan, analysis)
    BY <2>1 DEF ReportInv, StagesHold, Resolved, Analysed, Traced
  <2>3. AnswerAccepted(resolution, trace, CitedAnswer(plan, decisions, resolution, analysis, trace))
    BY <1>2, <1>3, <2>1, <2>2, AnswerIsAccepted DEF Decided, Resolved, Analysed, Traced
  <2> QED
    BY <1>11, <2>3 DEF BuildAnswer, Refuse
<1>12. CASE BuildReport
  <2>1. SourcesAccepted(BuiltReport) /\ ReportReconciles(BuiltReport)
    BY <1>12, ReportIsAccepted DEF BuildReport
  <2> QED
    BY <1>12, <2>1 DEF BuildReport, Refuse
<1> QED
  BY <1>5, <1>6, <1>7, <1>8, <1>9, <1>10, <1>11, <1>12 DEF Next

\* What is cut down to what was retrieved is a cited answer again.
LEMMA ProjectionIsAccepted ==
  ASSUME AnswerHeld, answer.analysed PROVE ProjectionReconciles(Projected(answer))
<1> DEFINE kept == Kept(answer)
           W == {x \in DOMAIN answer.warnings : x \subseteq kept /\ CitedFacts(answer.warnings[x]) \subseteq found.facts}
           M == {x \in answer.missing : x[1] \in kept}
           N == {n \in answer.notices : n.rules # {} /\ n.rules \subseteq kept}
           res == [r \in kept |-> resolution[r]]
           P == Projected(answer)
           tr == [trace EXCEPT !.outcomes = [q \in DOMAIN P.warnings |-> @[q]]]
<1>1. DecisionsRead(plan, decisions)
  BY DecisionsAreRead DEF AnswerHeld
<1>2. AnswerAccepted(resolution, trace, answer)
  BY <1>1, AnswerIsAccepted DEF AnswerHeld
<1>3. /\ P.findings = [r \in kept |-> answer.findings[r]] /\ P.warnings = [x \in W |-> answer.warnings[x]]
      /\ P.missing = M /\ P.notices = N /\ P.analysed = TRUE
      /\ P.status = DeriveReportStatus(resolution, kept, W, M, N)
  BY DEF Projected
<1>4. kept \subseteq DOMAIN answer.findings
  BY DEF Kept, Candidates
<1> HIDE DEF kept
<1>5. /\ DOMAIN P.findings = kept /\ DOMAIN P.warnings = W
      /\ \A r \in kept : P.findings[r] = answer.findings[r]
      /\ \A x \in W : P.warnings[x] = answer.warnings[x]
  BY <1>3
<1>6. \A x \in W : WarningAccepted(x, answer.warnings[x])
  BY <1>2 DEF AnswerAccepted
<1>7. \A r \in kept : CitedRules(answer.findings[r]) = SpeaksFor(res, r)
  BY <1>2, <1>4 DEF AnswerAccepted, AnswerReconciles, SpeaksFor
<1>8. \A n \in N : /\ n.kind \in {"override_evidence_incomplete", "interaction_evidence_incomplete"} => Cardinality(n.rules) = 2
                   /\ n.kind # "interaction_analysis_incomplete"
  BY <1>2 DEF AnswerAccepted, AnswerReconciles
<1>9. \A x \in M : x[1] \in kept
  OBVIOUS
<1>10. DeriveReportStatus(res, kept, W, M, N) = DeriveReportStatus(resolution, kept, W, M, N)
  <2>1. (\E r \in kept : res[r].disposition = "pending") <=> \E r \in kept : resolution[r].disposition = "pending"
    OBVIOUS
  <2> HIDE DEF W, M, N, res
  <2> QED
    BY <2>1 DEF DeriveReportStatus
<1>11. DOMAIN res = kept
  OBVIOUS
<1>12. [r \in DOMAIN P.findings |-> resolution[r]] = res
  BY <1>5
<1> HIDE DEF P, W, M, N, res, tr
<1>13. AnswerReconciles(res, tr, P)
  BY <1>3, <1>5, <1>7, <1>8, <1>9, <1>11 DEF AnswerReconciles
<1>14. AnswerAccepted(res, tr, P)
  BY <1>3, <1>5, <1>6, <1>10, <1>13 DEF AnswerAccepted
<1> QED
  BY <1>12, <1>14 DEF ProjectionReconciles, P, tr

\* A form that was decided on was accepted when it came in.
FormHeld == FromDemo /\ stage \notin {"asked", "refused"} => FormAccepted(form)

LEMMA StepKeepsForm ==
  ASSUME ReportInv, FormHeld, [DecisionsNext]_<<allVars, demoVars>> PROVE FormHeld'
<1>1. request' = request /\ FromDemo' = FromDemo /\ FormAccepted(form)' = FormAccepted(form)
  <2>1. request' = request
    <3>1. CASE UNCHANGED <<allVars, demoVars>>
      BY <3>1 DEF allVars, vars
    <3>2. CASE GroundedNext \/ DemoNext
      <4> USE DEF Refuse
      <4>1. CASE Next
        BY <4>1 DEF Next, RewriteKb, LoadPlan, Audit, PrepareEvidence, Decide, Resolve, Analyze, BuildTrace,
                    BuildAnswer, BuildReport
      <4>2. CASE GroundedNext
        BY <4>1, <4>2 DEF GroundedNext, ReportStep, RewriteDuringSearch, SearchDocument, UnderstandQuestion,
             ProjectToRetrieval, EvidenceTooLong, PrepareRequest, Generate, Ground, Present, Fail, Advance, vars
      <4>3. CASE DemoNext
        BY <4>1, <4>3 DEF DemoNext, RefuseForm, ReportForForm, ShowRequirements, CompareForm, vars
      <4> QED
        BY <3>2, <4>2, <4>3
    <3> QED
      BY <3>1, <3>2 DEF DecisionsNext
  <2> QED
    BY <2>1 DEF FromDemo, form, FormAccepted
<1>2. CASE UNCHANGED <<allVars, demoVars>>
  BY <1>1, <1>2 DEF FormHeld, allVars, vars
<1>3. CASE ~FromDemo
  BY <1>1, <1>3 DEF FormHeld
<1>4. CASE DemoNext
  <2>1. CASE RefuseForm
    BY <2>1 DEF RefuseForm, Refuse, FormHeld
  <2>2. CASE ReportForForm
    <3>1. stage = "asked" => FormAccepted(form)
      BY <2>2 DEF ReportForForm
    <3>2. stage = "refused" => FALSE
      BY <2>2 DEF ReportForForm, Next, RewriteKb, LoadPlan, Audit, PrepareEvidence, Decide, Resolve, Analyze, BuildTrace,
                    BuildAnswer, BuildReport
    <3> QED
      BY <1>1, <3>1, <3>2 DEF FormHeld
  <2>3. CASE ShowRequirements
    BY <1>1, <2>3 DEF ShowRequirements, Refuse, FormHeld, vars
  <2>4. CASE CompareForm
    BY <1>1, <2>4 DEF CompareForm, FormHeld
  <2> QED
    BY <1>4, <2>1, <2>2, <2>3, <2>4 DEF DemoNext
<1> QED
  BY <1>2, <1>3, <1>4 DEF DecisionsNext

\* What is required of everybody is shown with evidence of the report.
LEMMA RequirementsAreEvidenced ==
  ASSUME ReportInv, stage = "prepared", FormAccepted(form)
  PROVE  ProfileAccepted(form) /\ Evidence(BaseRequirements(form)) \subseteq DOMAIN bundle.records
<1> DEFINE f == form
<1>1. ProfileAccepted(f)
  BY DEF ProfileAccepted, FormAccepted
<1>2. /\ request \in Requests /\ bundle.records = Records(plan)
      /\ \A r \in DOMAIN plan.rule : plan.rule[r].bindings \subseteq Facts
      /\ {plan.conversion, plan.materials} \subseteq Facts \cup {NoName}
      /\ \A e \in plan.allocation \cup plan.evaluation \cup plan.program : e.fact \in Facts
  BY DecisionsAssumption DEF ReportInv, EvidenceHeld, Prepared, plan
<1> DEFINE shown == DOMAIN bundle.records
<1>3. \A r \in DOMAIN plan.rule : plan.rule[r].bindings \subseteq shown
  BY <1>2, BoundFactIsOwned
<1>4. plan.materials # NoName => plan.materials \in shown
  <2>1. plan.materials # NoName => Owner("materials", NoName) \in Owners(plan, plan.materials)
    BY DEF Owners
  <2> QED
    BY <1>2, <2>1 DEF Records
<1>5. \A e \in plan.allocation \cup plan.evaluation : e.fact \in shown
  <2>1. \A e \in plan.allocation : Owner("allocation", e.target) \in Owners(plan, e.fact)
    BY DEF Owners
  <2>2. \A e \in plan.evaluation : Owner("evaluation", e.target) \in Owners(plan, e.fact)
    BY DEF Owners
  <2> QED
    BY <1>2, <2>1, <2>2 DEF Records
<1> HIDE DEF f, shown
<1>6. \A stems : Matching(f, stems) \subseteq DOMAIN plan.rule
  BY DEF Matching
<1>7. \A q \in DateRequirements(f) : q.facts \subseteq shown
  BY <1>3, <1>6 DEF DateRequirements, Requirement
<1>8. \A q \in MaterialRequirements : q.facts \subseteq shown
  BY <1>4 DEF MaterialRequirements, Requirement
<1>9. \A q \in EligibilityRequirement(f) : q.facts \subseteq shown
  <2> DEFINE S == Matching(f, {"direct-path-1"})
             r == CHOOSE x \in S : TRUE
  <2>1. S # {} => r \in S
    OBVIOUS
  <2>2. S # {} => r \in DOMAIN plan.rule
    BY <1>6, <2>1
  <2>3. EligibilityRequirement(f)
          = IF S = {} THEN {} ELSE {Requirement("eligibility", r, "needs_information", plan.rule[r].bindings)}
    BY DEF EligibilityRequirement
  <2> HIDE DEF S, r
  <2> QED
    BY <1>3, <2>2, <2>3 DEF Requirement
<1>10. LanguageRules(f) \subseteq DOMAIN plan.rule
  BY <1>6 DEF LanguageRules
<1>11. \A q \in PreparationGuide(f) : q.facts \subseteq shown
  BY DEF PreparationGuide, Requirement, shown
<1>12. \A q \in LanguageRequirements(f) : q.facts \subseteq shown
  <2> DEFINE ruled == {Requirement("language", r, IF HasProfilePredicate(plan.rule[r]) THEN "conditional" ELSE "required",
                                   plan.rule[r].bindings) : r \in LanguageRules(f)}
             policies == {x \in plan.allocation : x.parent = f.college /\ x.target = f.dept}
                         \cup {x \in plan.evaluation : /\ x.parent = f.college /\ x.target = f.dept
                                                       /\ x.route \in {NoName, f.route}}
             asked == {Requirement("language", <<"policy", e.fact>>, "conditional", {e.fact}) : e \in policies}
             none == {Requirement("language", <<"nothing reviewed">>, "not_covered", {})}
  <2>1. \A q \in ruled : q.facts \subseteq shown
    BY <1>3, <1>10 DEF Requirement
  <2>2. \A q \in asked : q.facts \subseteq shown
    <3>1. \A e \in policies : e.fact \in shown
      BY <1>5
    <3> HIDE DEF policies
    <3> QED
      BY <3>1 DEF Requirement
  <2>3. \A q \in none : q.facts \subseteq shown
    <3>1. Requirement("language", <<"nothing reviewed">>, "not_covered", {}).facts = {}
      BY DEF Requirement
    <3> QED
      BY <3>1
  <2>4. LanguageRequirements(f)
          = LET all == ruled \cup PreparationGuide(f) \cup asked IN IF all # {} THEN all ELSE none
    BY DEF LanguageRequirements
  <2> HIDE DEF ruled, asked, none
  <2> QED
    BY <1>11, <2>1, <2>2, <2>3, <2>4
<1>13. \A q \in BaseRequirements(f) : q.facts \subseteq shown
  BY <1>7, <1>8, <1>9, <1>12 DEF BaseRequirements
<1>14. Evidence(BaseRequirements(f)) \subseteq shown
  BY <1>13 DEF Evidence
<1> QED
  BY <1>1, <1>14 DEF f, shown

\* No step refuses what the code calls a broken contract.
LEMMA StepReconciles ==
  ASSUME ReportInv, GroundedInv, FormHeld, ReportStagesReconcile, [DecisionsNext]_<<allVars, demoVars>>
  PROVE  ReportStagesReconcile'
<1> USE DEF ReportStagesReconcile
<1>1. CASE UNCHANGED <<allVars, demoVars>>
  BY <1>1 DEF allVars, vars
<1>2. CASE GroundedNext
  <2> USE DEF Fail, Refuse, Advance, vars
  <2>1. CASE ReportStep
    BY <2>1, ReportStepReconciles DEF ReportStep
  <2>2. CASE RewriteDuringSearch \/ SearchDocument \/ UnderstandQuestion \/ EvidenceTooLong \/ PrepareRequest \/ Present
    BY <2>2 DEF RewriteDuringSearch, SearchDocument, UnderstandQuestion, EvidenceTooLong, PrepareRequest, Present
  <2>3. CASE ProjectToRetrieval
    BY <2>3 DEF ProjectToRetrieval
  <2>4. CASE Generate
    <3>1. \A response \in Responses : AdapterOutcome(request.provider, response) # "contract"
      BY DEF AdapterOutcome, Responses
    <3> QED
      BY <2>4, <3>1 DEF Generate
  <2>5. CASE Ground
    <3>1. GenerateChecked(posed, draft) # "contract"
      BY DEF GenerateChecked
    <3> QED
      BY <2>5, <3>1 DEF Ground
  <2> QED
    BY <1>2, <2>1, <2>2, <2>3, <2>4, <2>5 DEF GroundedNext
<1>3. CASE DemoNext
  <2>1. CASE RefuseForm \/ CompareForm
    BY <2>1 DEF RefuseForm, CompareForm, Refuse
  <2>2. CASE ReportForForm
    BY <2>2, ReportStepReconciles DEF ReportForForm
  <2>3. CASE ShowRequirements
    <3>1. FormAccepted(form) /\ stage = "prepared"
      BY <1>3, <2>3 DEF DemoNext, ShowRequirements, FormHeld
    <3>2. ProfileAccepted(form) /\ Evidence(BaseRequirements(form)) \subseteq DOMAIN bundle.records
      BY <3>1, RequirementsAreEvidenced
    <3> QED
      BY <2>3, <3>2 DEF ShowRequirements, Refuse, vars
  <2> QED
    BY <1>3, <2>1, <2>2, <2>3 DEF DemoNext
<1> QED
  BY <1>1, <1>2, <1>3 DEF DecisionsNext

-----------------------------------------------------------------------------
(* What the offline provider drafts.                                       *)

\* The state a finding is posed with, and what is missing for it.
LEMMA PosedStates ==
  ASSUME ProjectionHeld, PosedHeld
  PROVE  /\ \A r \in Kept(answer) :
              /\ posed.findings[{r}].status = decisions[r].status
              /\ posed.findings[{r}].missing = {x[2] : x \in {y \in projection.missing : y[1] = r}}
         /\ \A w \in DOMAIN projection.warnings :
              posed.findings[w].status = "needs_review" /\ posed.findings[w].missing = {}
<1> DEFINE W == DOMAIN projection.warnings
           RuleOf(id) == CHOOSE r \in id : TRUE
           Of(id) == IF id \in W
                     THEN [status |-> "needs_review", evidence |-> CitedFacts(projection.warnings[id]), missing |-> {}]
                     ELSE [status |-> StatusForModel(RuleOf(id)), evidence |-> CitedFacts(projection.findings[RuleOf(id)]),
                           missing |-> {x[2] : x \in {y \in projection.missing : y[1] = RuleOf(id)}}]
           ids == {{r} : r \in DOMAIN projection.findings} \cup W
<1>1. posed.findings = [id \in ids |-> Of(id)]
  BY DEF PosedHeld, GenerationFindings
<1>2. DOMAIN projection.findings = Kept(answer)
  BY PosedFindings
<1>3. ASSUME NEW r \in Kept(answer)
      PROVE  /\ posed.findings[{r}].status = decisions[r].status
             /\ posed.findings[{r}].missing = {x[2] : x \in {y \in projection.missing : y[1] = r}}
  <2>1. {r} \notin W
    <3>1. W \subseteq DOMAIN answer.warnings
      BY DEF ProjectionHeld, Projected
    <3>2. \A w \in DOMAIN answer.warnings : \E a, b : a # b /\ w = {a, b}
      BY WarningsAreOfTwo
    <3> HIDE DEF W
    <3> QED
      BY <3>1, <3>2
  <2>2. {r} \in ids
    BY <1>2
  <2>3. RuleOf({r}) = r
    OBVIOUS
  <2>4. posed.findings[{r}] = Of({r})
    <3> HIDE DEF Of, ids
    <3> QED
      BY <1>1, <2>2
  <2>5. Of({r}) = [status |-> StatusForModel(r), evidence |-> CitedFacts(projection.findings[r]),
                   missing |-> {x[2] : x \in {y \in projection.missing : y[1] = r}}]
    <3> HIDE DEF RuleOf, W
    <3> QED
      BY <2>1, <2>3
  <2> DEFINE asked == {x[2] : x \in {y \in projection.missing : y[1] = r}}
  <2>6. Of({r}).status = StatusForModel(r) /\ Of({r}).missing = asked
    <3> HIDE DEF Of, asked
    <3> QED
      BY <2>5 DEF asked
  <2> HIDE DEF Of, asked
  <2>7. posed.findings[{r}].status = decisions[r].status /\ posed.findings[{r}].missing = asked
    BY <2>4, <2>6 DEF StatusForModel
  <2> QED
    BY <2>7 DEF asked
<1>4. ASSUME NEW w \in W PROVE posed.findings[w].status = "needs_review" /\ posed.findings[w].missing = {}
  <2>1. posed.findings[w] = Of(w)
    <3> HIDE DEF Of, W
    <3> QED
      BY <1>1
  <2> QED
    BY <2>1
<1> QED
  BY <1>3, <1>4

\* Everything that is posed cites evidence that is shown with the report.
LEMMA PosedIsEvidenced ==
  ASSUME ProjectionHeld, PosedHeld, NEW id \in DOMAIN posed.findings
  PROVE  posed.findings[id].evidence # {} /\ posed.findings[id].evidence \subseteq DOMAIN Records(plan)
<1>1. /\ PlanAccepted(plan) /\ request \in Requests /\ decisions = DecisionsFor(profile)
      /\ resolution = Resolution(plan, decisions)
      /\ answer = CitedAnswer(plan, decisions, resolution, analysis, trace)
  BY DEF ProjectionHeld, AnswerHeld
<1>2. DecisionsRead(plan, decisions) /\ DOMAIN resolution = DOMAIN plan.rule
  BY <1>1, DecisionsAreRead DEF Resolution
<1>3. \A r \in DOMAIN plan.rule : decisions[r].evidence \subseteq DOMAIN Records(plan)
  <2>1. \A r \in DOMAIN plan.rule : plan.rule[r].bindings \subseteq Facts
    BY <1>1, DecisionsAssumption DEF plan
  <2>2. \A r \in DOMAIN plan.rule : plan.rule[r].bindings \subseteq DOMAIN Records(plan)
    BY <2>1, BoundFactIsOwned
  <2> QED
    BY <1>2, <2>2 DEF DecisionsRead, EvidenceReconciles
<1>4. \A rules \in SUBSET DOMAIN plan.rule : CitedFacts(Cites(decisions, rules)) \subseteq DOMAIN Records(plan)
  BY <1>3 DEF CitedFacts, Cites
<1>5. \A cites : CitedRules(cites) # {} => CitedFacts(cites) # {}
  BY DEF CitedRules, CitedFacts
<1>6. CASE \E r \in Kept(answer) : id = {r}
  <2>1. PICK r \in Kept(answer) : id = {r}
    BY <1>6
  <2>2. r \in DOMAIN answer.findings /\ r \in DOMAIN plan.rule
    BY FindingsCite
  <2>3. /\ HasFinding(decisions, resolution, r)
        /\ answer.findings[r] = Cites(decisions, SpeaksFor(resolution, r))
    <3>1. /\ DOMAIN answer.findings = AnswerFindings(decisions, resolution)
          /\ \A x \in AnswerFindings(decisions, resolution) : answer.findings[x] = Cites(decisions, SpeaksFor(resolution, x))
      BY <1>1, AnswerParts
    <3> QED
      BY <2>2, <3>1 DEF AnswerFindings
  <2>4. SpeaksFor(resolution, r) \subseteq DOMAIN plan.rule
    BY <1>1, <1>2, <2>2, EvidenceIsReported
  <2>5. CitedRules(answer.findings[r]) = SpeaksFor(resolution, r)
    BY <2>3, CitedRulesOf DEF HasFinding
  <2>6. posed.findings[id].evidence = CitedFacts(answer.findings[r])
    BY <2>1, PosedFindings
  <2> QED
    BY <1>4, <1>5, <2>3, <2>4, <2>5, <2>6 DEF SpeaksFor
<1>7. CASE \E w \in DOMAIN answer.warnings : w \subseteq Kept(answer) /\ id = w
  <2>1. id \in DOMAIN answer.warnings /\ id \subseteq Kept(answer)
    BY <1>7
  <2>2. PICK a, b \in DOMAIN plan.rule : a # b /\ id = {a, b}
    BY <2>1, WarningsAreOfTwo
  <2>3. answer.warnings[id] = Cites(decisions, id) /\ posed.findings[id].evidence = CitedFacts(answer.warnings[id])
    BY <2>1, WarningsAreOfTwo, PosedFindings
  <2>4. CitedRules(Cites(decisions, id)) = id
    <3>1. DOMAIN answer.warnings = AnswerWarnings(decisions, trace)
      BY <1>1, AnswerParts
    <3> QED
      BY <2>1, <3>1 DEF AnswerWarnings
  <2> QED
    BY <1>4, <1>5, <2>2, <2>3, <2>4
<1> QED
  BY <1>6, <1>7, PosedFindings

\* The draft of the offline provider passes every check of a draft.
LEMMA OfflineDraftIsAccepted ==
  ASSUME ProjectionHeld, PosedHeld PROVE GenerateChecked(posed, OfflineDraft(posed)) = "accepted"
<1> DEFINE d == OfflineDraft(posed)
           claims == {RuleClaim(posed, id) : id \in DOMAIN posed.findings}
<1>1. /\ d.claims = claims /\ d.missing = MissingFields(posed) /\ d.refused = FALSE
      /\ d.review = (PendingFindings(posed) # {} \/ claims = {})
  BY DEF OfflineDraft
<1>2. ASSUME NEW id \in DOMAIN posed.findings
      PROVE  LET c == RuleClaim(posed, id)
             IN /\ c.kind = "rule" /\ c.finding = id /\ c.evidence = posed.findings[id].evidence
                /\ c.evidence # {} /\ c.evidence \subseteq posed.evidence
  <2>1. posed.findings[id].evidence # {}
    BY PosedIsEvidenced
  <2>2. posed.findings[id].evidence \subseteq posed.evidence
    BY DEF PosedHeld
  <2> QED
    BY <2>1, <2>2 DEF RuleClaim, Claim
<1>3. \A c \in claims : \E id \in DOMAIN posed.findings : c = RuleClaim(posed, id)
  OBVIOUS
<1>4. \A c \in claims : /\ c.kind = "rule" /\ c.finding \in DOMAIN posed.findings
                        /\ c.evidence = posed.findings[c.finding].evidence
                        /\ c.evidence # {} /\ c.evidence \subseteq posed.evidence
  <2> HIDE DEF claims
  <2> QED
    BY <1>2, <1>3
<1>5. ASSUME NEW id \in DOMAIN posed.findings
      PROVE  Cardinality({c \in claims : c.kind # "official" /\ c.finding = id}) = 1
  <2>1. {c \in claims : c.kind # "official" /\ c.finding = id} = {RuleClaim(posed, id)}
    BY <1>2
  <2> QED
    BY <2>1, FS_Singleton
<1> HIDE DEF d, claims
<1>6. DraftWellFormed(d)
  BY <1>1, <1>4 DEF DraftWellFormed
<1>7. KnownReferences(posed, d)
  BY <1>1, <1>4 DEF KnownReferences
<1>8. \A c \in d.claims : ClaimSupported(posed, c)
  BY <1>1, <1>4 DEF ClaimSupported
<1>9. StateKept(posed, d)
  <2>1. UNION {posed.findings[id].missing : id \in {x \in PendingFindings(posed) :
              posed.findings[x].status = "needs_information"}} \subseteq MissingFields(posed)
    BY DEF MissingFields, PendingFindings
  <2> QED
    BY <1>1, <1>5, <2>1 DEF StateKept, EachFindingOnce
<1> QED
  BY <1>1, <1>6, <1>7, <1>8, <1>9 DEF GenerateChecked, d

\* A finding that asks for something is still pending.
LEMMA FactsAskedAreMissing ==
  ASSUME ProjectionHeld, PosedHeld PROVE MissingFields(posed) = {x[2] : x \in projection.missing}
<1> DEFINE AskedFor(r) == {x[2] : x \in {y \in projection.missing : y[1] = r}}
           W == DOMAIN projection.warnings
<1>1. projection.missing = {x \in answer.missing : x[1] \in Kept(answer)}
  BY DEF ProjectionHeld, Projected
<1>2. /\ \A r \in Kept(answer) : posed.findings[{r}].missing = AskedFor(r)
      /\ \A w \in W : posed.findings[w].missing = {}
  BY PosedStates
<1>3. DOMAIN posed.findings = {{r} : r \in Kept(answer)} \cup W
  <2>1. DOMAIN projection.findings = Kept(answer)
    BY PosedFindings
  <2>2. DOMAIN posed.findings = {{r} : r \in DOMAIN projection.findings} \cup W
    BY DEF PosedHeld, GenerationFindings
  <2> HIDE DEF W
  <2> QED
    BY <2>1, <2>2
<1>4. \A x \in projection.missing : x[1] \in Kept(answer)
  BY <1>1
<1> DEFINE facts == {x[2] : x \in projection.missing}
<1>5. ASSUME NEW f \in MissingFields(posed) PROVE f \in facts
  <2>1. PICK id \in DOMAIN posed.findings : f \in posed.findings[id].missing
    BY <1>5 DEF MissingFields
  <2>2. id \notin W
    <3> HIDE DEF W
    <3> QED
      BY <1>2, <2>1
  <2>3. PICK r \in Kept(answer) : id = {r}
    <3> HIDE DEF W
    <3> QED
      BY <1>3, <2>1, <2>2
  <2>4. f \in AskedFor(r)
    <3> HIDE DEF AskedFor
    <3> QED
      BY <1>2, <2>1, <2>3
  <2> QED
    BY <2>4
<1>6. ASSUME NEW x \in projection.missing PROVE x[2] \in MissingFields(posed)
  <2>1. x[2] \in AskedFor(x[1])
    OBVIOUS
  <2>2. x[2] \in posed.findings[{x[1]}].missing /\ {x[1]} \in DOMAIN posed.findings
    <3> HIDE DEF AskedFor, W
    <3> QED
      BY <1>2, <1>3, <1>4, <2>1
  <2> QED
    BY <2>2 DEF MissingFields
<1> HIDE DEF facts
<1>7. facts \subseteq MissingFields(posed)
  BY <1>6 DEF facts
<1> QED
  BY <1>5, <1>7 DEF facts

\* Whoever names a target and a college is never asked for one.
LEMMA NamedScopeIsKnown ==
  ASSUME NEW p, NEW q, NEW pack, NEW rule, ScopeAccepted(rule.scope), p.target # NoName, p.college # NoName
  PROVE  "missing_scope" \notin Diagnostics(p, q, pack, rule)
<1> DEFINE conflict == rule.scope.type # "global" /\ ScopeInputConflict(p, q, rule.scope)
           scope == EvaluateScope(p, q, rule.scope)
<1>1. ~conflict => scope # "needs_information"
  <2>1. Set(p.target) = {p.target} /\ Set(p.college) = {p.college}
    BY DEF Set
  <2>2. CASE rule.scope.type = "global"
    BY <2>2 DEF EvaluateScope
  <2>3. CASE rule.scope.type = "college"
    BY <2>1, <2>3 DEF EvaluateScope, MatchScope
  <2>4. CASE rule.scope.type \notin {"global", "college"}
    <3> DEFINE ofTarget == IF rule.scope.targets # {} THEN {MatchScope(rule.scope.targets, {p.target})} ELSE {}
               ofCollege == IF rule.scope.parent # NoName THEN {MatchScope({rule.scope.parent}, {p.college})} ELSE {}
    <3>1. ofTarget \cup ofCollege # {} /\ ofTarget \cup ofCollege \subseteq {"confirmed", "not_applicable"}
      BY <2>4 DEF ScopeAccepted, MatchScope
    <3>2. ~conflict => scope = CombineScopeComponents(ofTarget \cup ofCollege)
      BY <2>1, <2>4 DEF EvaluateScope
    <3> HIDE DEF ofTarget, ofCollege, scope
    <3>3. CombineScopeComponents(ofTarget \cup ofCollege) # "needs_information"
      BY <3>1 DEF CombineScopeComponents
    <3> QED
      BY <3>2, <3>3
  <2> QED
    BY <2>2, <2>3, <2>4
<1>2. "missing_scope" \in Diagnostics(p, q, pack, rule) => ~conflict /\ scope = "needs_information"
  <2> HIDE DEF scope
  <2> QED
    BY DEF Diagnostics, scope
<1> HIDE DEF scope, conflict
<1> QED
  BY <1>1, <1>2

\* Of rules that are cited whole and in no conflict, only the diagnostics are noticed.
LEMMA OnlyDiagnosticsAreNoticed ==
  ASSUME NEW ds, NEW res, NEW an, NEW tr, NEW kept, NEW n \in AnswerNotices(ds, res, an, tr),
         n.rules # {}, n.rules \subseteq kept, kept \subseteq DOMAIN ds,
         \A r \in kept : ds[r].evidence # {},
         \A r \in DOMAIN ds : HasFinding(ds, res, r) <=> ds[r].evidence # {},
         \A x \in AnswerWarnings(ds, tr) : ~(x \subseteq kept)
  PROVE  n \in DiagnosticNotices(ds)
<1> DEFINE Uncited(r) == /\ n = Notice("override_evidence_incomplete", SpeaksFor(res, r))
                         /\ ds[r].evidence # {} /\ ~HasFinding(ds, res, r)
           Bare(r) == n = Notice("missing_official_evidence", {r}) /\ ds[r].evidence = {}
           Cut(x) == n = Notice("interaction_evidence_incomplete", x)
           Unread == n = Notice("interaction_analysis_incomplete", {}) /\ ~an.complete
<1>1. \/ n \in DiagnosticNotices(ds)
      \/ \E r \in DOMAIN ds : Bare(r)
      \/ \E r \in DOMAIN ds : Uncited(r)
      \/ \E x \in Warned(tr) : Cut(x)
      \/ Unread
  <2>1. OfSomeKind(n, ds, res, an, tr)
    BY NoticeKinds
  <2> QED
    BY <2>1 DEF OfSomeKind
<1>2. ~Unread
  BY DEF Notice
<1>3. ~\E r \in DOMAIN ds : Bare(r)
  BY DEF Notice
<1>4. ~\E r \in DOMAIN ds : Uncited(r)
  OBVIOUS
<1>5. ~\E x \in Warned(tr) : Cut(x)
  <2> SUFFICES ASSUME NEW x \in Warned(tr), Cut(x) PROVE FALSE
    OBVIOUS
  <2>1. x \subseteq kept
    BY DEF Notice
  <2>2. CitedRules(Cites(ds, x)) = x
    <3>1. \A r \in x : ds[r].evidence # {}
      BY <2>1
    <3> QED
      BY <3>1, CitedRulesOf
  <2>3. x \in AnswerWarnings(ds, tr)
    BY <2>2 DEF AnswerWarnings
  <2> QED
    BY <2>1, <2>3
<1> HIDE DEF Uncited, Bare, Cut, Unread
<1> QED
  BY <1>1, <1>2, <1>3, <1>4, <1>5

\* Nothing that is kept is open, and the answer needs a review: the question and
\* the applicant name different targets or colleges.
LEMMA OnlyAConflictIsReviewed ==
  ASSUME ProjectionHeld, PosedHeld, PendingFindings(posed) = {}, projection.status # "complete"
  PROVE  \E r \in DOMAIN projection.findings : "scope_input_conflict" \in decisions[r].diagnostics
<1> DEFINE kept == Kept(answer)
           W == {p \in DOMAIN answer.warnings : p \subseteq kept /\ CitedFacts(answer.warnings[p]) \subseteq found.facts}
           M == {x \in answer.missing : x[1] \in kept}
           N == {n \in answer.notices : n.rules # {} /\ n.rules \subseteq kept}
<1>1. /\ PlanAccepted(plan) /\ decisions = DecisionsFor(profile) /\ resolution = Resolution(plan, decisions)
      /\ answer = CitedAnswer(plan, decisions, resolution, analysis, trace)
      /\ Asked /\ request \in Requests
  BY DEF ProjectionHeld, AnswerHeld
<1>2. /\ projection.status = DeriveReportStatus(resolution, kept, W, M, N)
      /\ projection.missing = M /\ DOMAIN projection.warnings = W /\ DOMAIN projection.findings = kept
  BY DEF ProjectionHeld, Projected
<1>3. DecisionsRead(plan, decisions) /\ DOMAIN resolution = DOMAIN plan.rule /\ DOMAIN decisions = DOMAIN plan.rule
  BY <1>1, DecisionsAreRead DEF Resolution, DecisionsFor
<1>4. kept \subseteq DOMAIN plan.rule
  BY FindingsCite
<1>5. \A r \in kept : /\ decisions[r].status # "needs_information"
                      /\ ~\E x \in M : x[1] = r
  <2> SUFFICES ASSUME NEW r \in kept PROVE decisions[r].status # "needs_information" /\ ~\E x \in M : x[1] = r
    OBVIOUS
  <2>1. {r} \in DOMAIN posed.findings
    BY PosedFindings
  <2>2. posed.findings[{r}].status = decisions[r].status
        /\ posed.findings[{r}].missing = {x[2] : x \in {y \in projection.missing : y[1] = r}}
    BY PosedStates
  <2>3. posed.findings[{r}].status # "needs_information"
    BY <2>1 DEF PendingFindings
  <2>4. FindingAccepted(posed.findings[{r}])
    BY <2>1 DEF PosedHeld
  <2>5. posed.findings[{r}].missing = {}
    BY <2>3, <2>4 DEF FindingAccepted
  <2> DEFINE OfRule == {y \in M : y[1] = r}
  <2>6. {x[2] : x \in OfRule} = {}
    BY <1>2, <2>2, <2>5
  <2>7. OfRule = {}
    <3> HIDE DEF OfRule
    <3> QED
      BY <2>6
  <2> HIDE DEF M, kept
  <2> QED
    BY <2>2, <2>3, <2>7
<1>6. W = {}
  <2> SUFFICES ASSUME NEW w \in W PROVE FALSE
    OBVIOUS
  <2>1. w \in DOMAIN posed.findings
    BY PosedFindings
  <2>2. posed.findings[w].status = "needs_review"
    BY <1>2, PosedStates
  <2> QED
    BY <2>1, <2>2 DEF PendingFindings
<1>7. M = {}
  <2> HIDE DEF kept
  <2> QED
    BY <1>5
<1>8. \A r \in kept : resolution[r].disposition # "pending"
  <2> HIDE DEF kept
  <2> QED
    BY <1>1, <1>4, <1>5 DEF Resolution, Disposition
<1>9. \E n \in N : n.kind \in ReviewNotices \cup {"missing_scope"}
  <2> HIDE DEF N, M, W, kept
  <2> QED
    BY <1>2, <1>6, <1>7, <1>8 DEF DeriveReportStatus
<1>10. PICK n \in N : n.kind \in ReviewNotices \cup {"missing_scope"}
  BY <1>9
<1>11. n \in AnswerNotices(decisions, resolution, analysis, trace) /\ n.rules # {} /\ n.rules \subseteq kept
  <2>1. answer.notices = AnswerNotices(decisions, resolution, analysis, trace)
    BY <1>1, AnswerParts
  <2> HIDE DEF kept
  <2> QED
    BY <2>1
<1>12. \A r \in kept : decisions[r].evidence # {}
  <2> SUFFICES ASSUME NEW r \in kept PROVE decisions[r].evidence # {}
    OBVIOUS
  <2>1. HasFinding(decisions, resolution, r)
    <3>1. DOMAIN answer.findings = AnswerFindings(decisions, resolution)
      BY <1>1, AnswerParts
    <3> QED
      BY <3>1, FindingsCite DEF AnswerFindings
  <2> QED
    BY <2>1 DEF HasFinding, SpeaksFor
<1>13. \A r \in DOMAIN plan.rule : HasFinding(decisions, resolution, r) <=> decisions[r].evidence # {}
  BY <1>1, <1>3, EvidenceIsReported
<1>14. \A x \in AnswerWarnings(decisions, trace) : ~(x \subseteq kept)
  <2>1. DOMAIN answer.warnings = AnswerWarnings(decisions, trace)
    BY <1>1, AnswerParts
  <2> SUFFICES ASSUME NEW x \in AnswerWarnings(decisions, trace), x \subseteq kept PROVE FALSE
    OBVIOUS
  <2>2. x \in W
    BY <2>1, WarningsAreRetrieved
  <2> QED
    BY <1>6, <2>2
<1>15. n \in DiagnosticNotices(decisions)
  <2> HIDE DEF N, M, W, kept
  <2> QED
    BY <1>3, <1>4, <1>11, <1>12, <1>13, <1>14, OnlyDiagnosticsAreNoticed
<1>16. PICK r \in DOMAIN decisions : \E k \in decisions[r].diagnostics : n = Notice(k, {r})
  BY <1>15 DEF DiagnosticNotices
<1>17. r \in kept /\ n.kind \in decisions[r].diagnostics
  BY <1>11, <1>16 DEF Notice
<1>18. decisions[r] = Decision(profile, request.query, Pack, plan.rule[r])
  BY <1>1, <1>4, <1>17 DEF DecisionsFor
<1>19. n.kind \in DiagnosticKinds
  <2>1. decisions[r].diagnostics = Diagnostics(profile, request.query, Pack, plan.rule[r])
    BY <1>18 DEF Decision
  <2> QED
    BY <1>17, <2>1, DiagnosticsAreNamed
<1>20. n.kind # "missing_scope"
  <2>1. decisions[r].diagnostics = Diagnostics(profile, request.query, Pack, plan.rule[r])
    BY <1>18 DEF Decision
  <2>2. profile.target # NoName /\ profile.college # NoName
    BY <1>1, DecisionsAssumption DEF Asked, profile
  <2>3. ScopeAccepted(plan.rule[r].scope)
    BY <1>1, <1>4, <1>17 DEF PlanAccepted, RuleAccepted
  <2>4. "missing_scope" \notin Diagnostics(profile, request.query, Pack, plan.rule[r])
    BY <2>2, <2>3, NamedScopeIsKnown
  <2> QED
    BY <1>17, <2>1, <2>4
<1>21. n.kind # "missing_official_evidence"
  <2> SUFFICES ASSUME n.kind = "missing_official_evidence" PROVE FALSE
    OBVIOUS
  <2>1. decisions[r].diagnostics \cap Undecided # {}
    BY <1>17 DEF Undecided
  <2>2. \E mode, outcomes, scope : decisions[r].status = DecidedStatus(mode, outcomes, scope, decisions[r].diagnostics)
    BY <1>18 DEF Decision
  <2>3. decisions[r].status = "needs_information"
    BY <2>1, <2>2 DEF DecidedStatus
  <2> QED
    BY <1>5, <1>17, <2>3
<1>22. n.kind = "scope_input_conflict"
  BY <1>10, <1>19, <1>20, <1>21 DEF ReviewNotices, DiagnosticKinds
<1> QED
  BY <1>2, <1>17, <1>22

BadDrafts == {"malformed", "refusal", "citation", "unsupported", "presentation"}

\* What the offline provider is refused for.
ConflictOnly ==
  /\ PendingFindings(posed) = {}
  /\ \E r \in DOMAIN projection.findings : "scope_input_conflict" \in decisions[r].diagnostics

OfflineHeld ==
  Asked /\ request.provider = "offline" =>
    /\ stage \in {"drafted", "grounded", "presented"} => draft = OfflineDraft(posed)
    /\ refusal \notin BadDrafts
    /\ refusal = "state" => stage = "refused" /\ ConflictOnly

\* A refusal is the end.
LEMMA RefusedStaysRefused ==
  ASSUME stage = "refused", [DecisionsNext]_<<allVars, demoVars>>
  PROVE  UNCHANGED <<stage, refusal, request, decisions, projection, posed, draft>>
<1>1. CASE UNCHANGED <<allVars, demoVars>>
  BY <1>1 DEF allVars, vars, gvars
<1>2. ~Next
  BY DEF Next, RewriteKb, LoadPlan, Audit, PrepareEvidence, Decide, Resolve, Analyze, BuildTrace,
         BuildAnswer, BuildReport
<1>3. ~GroundedNext
  BY <1>2 DEF GroundedNext, ReportStep, RewriteDuringSearch, SearchDocument, UnderstandQuestion,
       ProjectToRetrieval, EvidenceTooLong, PrepareRequest, Generate, Ground, Present
<1>4. ~DemoNext
  BY <1>2 DEF DemoNext, RefuseForm, ReportForForm, ShowRequirements, CompareForm
<1> QED
  BY <1>1, <1>3, <1>4 DEF DecisionsNext

\* A request is never changed.
LEMMA StepKeepsRequest ==
  ASSUME [DecisionsNext]_<<allVars, demoVars>> PROVE request' = request
<1>1. CASE UNCHANGED <<allVars, demoVars>>
  BY <1>1 DEF allVars, vars
<1> USE DEF Refuse, Fail, Advance, vars
<1>2. CASE Next
  BY <1>2 DEF Next, RewriteKb, LoadPlan, Audit, PrepareEvidence, Decide, Resolve, Analyze, BuildTrace,
              BuildAnswer, BuildReport
<1>3. CASE GroundedNext
  BY <1>2, <1>3 DEF GroundedNext, ReportStep, RewriteDuringSearch, SearchDocument, UnderstandQuestion,
       ProjectToRetrieval, EvidenceTooLong, PrepareRequest, Generate, Ground, Present
<1>4. CASE DemoNext
  BY <1>2, <1>4 DEF DemoNext, RefuseForm, ReportForForm, ShowRequirements, CompareForm
<1> QED
  BY <1>1, <1>3, <1>4 DEF DecisionsNext

\* What the offline provider drafted is checked, grounded and shown.
LEMMA GroundKeepsOffline ==
  ASSUME GroundedInv, OfflineHeld, Asked, request.provider = "offline", Ground
  PROVE  /\ stage' = "grounded" => draft' = OfflineDraft(posed)'
         /\ refusal' \notin BadDrafts
         /\ refusal' = "state" => ConflictOnly'
         /\ stage' \in {"grounded", "refused"}
<1>1. /\ stage = "drafted" /\ ProjectionHeld /\ PosedHeld /\ draft = OfflineDraft(posed)
      /\ refusal \notin BadDrafts /\ refusal # "state"
  BY DEF Ground, GroundedInv, OfflineHeld, Posed
<1>2. GenerateChecked(posed, draft) = "accepted"
  BY <1>1, OfflineDraftIsAccepted
<1>3. CASE Fail("state") /\ ~StateOfAnswerKept(draft)
  <2>1. draft.missing = {x[2] : x \in projection.missing}
    BY <1>1, FactsAskedAreMissing DEF OfflineDraft
  <2>2. projection.status # "complete" /\ ~draft.review
    BY <1>3, <2>1 DEF StateOfAnswerKept
  <2>3. PendingFindings(posed) = {}
    BY <1>1, <2>2 DEF OfflineDraft
  <2>4. ConflictOnly
    BY <1>1, <2>2, <2>3, OnlyAConflictIsReviewed DEF ConflictOnly
  <2>5. UNCHANGED <<posed, projection, decisions>> /\ stage' = "refused" /\ refusal' = "state"
    BY <1>3 DEF Fail, Refuse, gvars
  <2> QED
    BY <2>4, <2>5 DEF ConflictOnly, PendingFindings, BadDrafts
<1>4. CASE Advance("grounded") /\ UNCHANGED <<intent, found, projection, posed, draft>>
  <2>1. stage' = "grounded" /\ UNCHANGED <<refusal, posed, draft>>
    BY <1>4 DEF Advance
  <2>2. OfflineDraft(posed)' = OfflineDraft(posed)
    BY <2>1 DEF OfflineDraft, RuleClaim, MissingFields, PendingFindings
  <2> QED
    BY <1>1, <2>1, <2>2
<1> QED
  BY <1>2, <1>3, <1>4 DEF Ground

\* What the offline provider words is presented: every record it cites is there.
LEMMA PresentKeepsOffline ==
  ASSUME ReportInv, GroundedInv, OfflineHeld, Asked, request.provider = "offline", Present
  PROVE  Advance("presented") /\ UNCHANGED gvars
<1>1. /\ stage = "grounded" /\ ProjectionHeld /\ PosedHeld /\ GroundedHeld /\ draft = OfflineDraft(posed)
  BY DEF Present, GroundedInv, OfflineHeld, Posed
<1>2. bundle.records = Records(plan)
  BY <1>1 DEF ReportInv, EvidenceHeld, StagesHold, Prepared, Decided, Resolved, Analysed, Traced, Answered, Reported, Posed
<1>3. ASSUME NEW c \in grounded.claims PROVE c.citations \subseteq DOMAIN bundle.records
  <2>1. PICK e \in draft.claims : c = GroundClaim(e)
    BY <1>1 DEF GroundedHeld
  <2>2. PICK id \in DOMAIN posed.findings : e = RuleClaim(posed, id)
    BY <1>1, <2>1 DEF OfflineDraft
  <2>3. posed.findings[id].evidence # {} /\ posed.findings[id].evidence \subseteq DOMAIN Records(plan)
    BY <1>1, PosedIsEvidenced
  <2>4. c.citations = posed.findings[id].evidence
    BY <2>1, <2>2, <2>3 DEF RuleClaim, Claim, GroundClaim
  <2> QED
    BY <1>2, <2>3, <2>4
<1>4. UNION {c.citations : c \in grounded.claims} \subseteq DOMAIN bundle.records
  BY <1>3
<1> QED
  BY <1>4 DEF Present

\* Every step keeps what is known of the offline provider.
LEMMA StepKeepsOffline ==
  ASSUME ReportInv, GroundedInv, OfflineHeld, [DecisionsNext]_<<allVars, demoVars>> PROVE OfflineHeld'
<1> DEFINE Drafted == {"drafted", "grounded", "presented"}
           Elsewhere == stage' \notin Drafted /\ (refusal' = refusal \/ refusal' \notin BadDrafts \cup {"state"})
<1>1. request' = request /\ Asked' = Asked
  BY StepKeepsRequest DEF Asked
<1>2. CASE ~(Asked /\ request.provider = "offline")
  BY <1>1, <1>2 DEF OfflineHeld
<1>3. CASE stage = "refused"
  <2>1. UNCHANGED <<stage, refusal, request, decisions, projection, posed, draft>>
    BY <1>3, RefusedStaysRefused
  <2>2. ConflictOnly' = ConflictOnly
    BY <2>1 DEF ConflictOnly, PendingFindings
  <2> QED
    BY <1>1, <1>3, <2>1, <2>2 DEF OfflineHeld
<1>4. ASSUME Asked, request.provider = "offline", stage # "refused" PROVE OfflineHeld'
  <2>1. refusal \notin BadDrafts \cup {"state"} /\ (stage \in Drafted => draft = OfflineDraft(posed))
    BY <1>4 DEF OfflineHeld
  <2>2. ASSUME Elsewhere PROVE OfflineHeld'
    BY <2>1, <2>2 DEF OfflineHeld
  <2>3. CASE UNCHANGED <<allVars, demoVars>>
    <3>1. UNCHANGED <<stage, refusal, posed, draft>>
      BY <2>3 DEF allVars, vars, gvars
    <3>2. OfflineDraft(posed)' = OfflineDraft(posed)
      BY <3>1 DEF OfflineDraft, RuleClaim, MissingFields, PendingFindings
    <3> QED
      BY <2>1, <3>1, <3>2 DEF OfflineHeld
  <2>4. Next => Elsewhere
    BY DEF Next, RewriteKb, LoadPlan, Audit, PrepareEvidence, Decide, Resolve, Analyze, BuildTrace,
           BuildAnswer, BuildReport, Refuse, BadDrafts
  <2>5. CASE GroundedNext
    <3> USE DEF Fail, Refuse, Advance, vars
    <3>1. CASE ReportStep
      BY <2>2, <2>4, <3>1 DEF ReportStep
    <3>2. CASE RewriteDuringSearch \/ SearchDocument \/ UnderstandQuestion
      <4>1. Elsewhere
        BY <3>2 DEF RewriteDuringSearch, SearchDocument, UnderstandQuestion, BadDrafts
      <4> QED
        BY <2>2, <4>1
    <3>3. CASE ProjectToRetrieval \/ EvidenceTooLong \/ PrepareRequest
      <4>1. Elsewhere
        BY <3>3 DEF ProjectToRetrieval, EvidenceTooLong, PrepareRequest, BadDrafts
      <4> QED
        BY <2>2, <4>1
    <3>4. CASE Generate
      <4>1. draft' = OfflineDraft(posed) /\ UNCHANGED <<refusal, posed>>
        BY <1>4, <3>4 DEF Generate
      <4>2. OfflineDraft(posed)' = OfflineDraft(posed)
        BY <4>1 DEF OfflineDraft, RuleClaim, MissingFields, PendingFindings
      <4> QED
        BY <2>1, <4>1, <4>2 DEF OfflineHeld
    <3>5. CASE Ground
      <4>1. /\ stage' = "grounded" => draft' = OfflineDraft(posed)'
            /\ refusal' \notin BadDrafts
            /\ refusal' = "state" => ConflictOnly'
            /\ stage' \in {"grounded", "refused"}
        BY <1>4, <3>5, GroundKeepsOffline
      <4>2. stage' = "grounded" => refusal' = refusal
        <5>1. \A reason : Fail(reason) => stage' = "refused"
          OBVIOUS
        <5>2. Advance("grounded") => refusal' = refusal
          OBVIOUS
        <5> QED
          BY <3>5, <5>1, <5>2 DEF Ground
      <4> QED
        BY <2>1, <4>1, <4>2 DEF OfflineHeld
    <3>6. CASE Present
      <4>1. Advance("presented") /\ UNCHANGED gvars /\ stage = "grounded"
        BY <1>4, <3>6, PresentKeepsOffline DEF Present
      <4>2. UNCHANGED <<refusal, posed, draft>>
        BY <4>1 DEF gvars
      <4>3. OfflineDraft(posed)' = OfflineDraft(posed)
        BY <4>2 DEF OfflineDraft, RuleClaim, MissingFields, PendingFindings
      <4> QED
        BY <2>1, <4>1, <4>2, <4>3 DEF OfflineHeld
    <3> QED
      BY <2>5, <3>1, <3>2, <3>3, <3>4, <3>5, <3>6 DEF GroundedNext
  <2>6. CASE DemoNext /\ UNCHANGED gvars
    <3>1. CASE RefuseForm \/ ShowRequirements \/ CompareForm
      <4>1. \/ Elsewhere
            \/ stage' = stage /\ refusal' = refusal
        BY <3>1 DEF RefuseForm, ShowRequirements, CompareForm, Refuse, BadDrafts, vars
      <4>2. UNCHANGED <<posed, draft>>
        BY <2>6 DEF gvars
      <4>3. OfflineDraft(posed)' = OfflineDraft(posed)
        BY <4>2 DEF OfflineDraft, RuleClaim, MissingFields, PendingFindings
      <4> QED
        BY <2>1, <2>2, <4>1, <4>2, <4>3 DEF OfflineHeld
    <3>2. CASE ReportForForm
      BY <2>2, <2>4, <3>2 DEF ReportForForm
    <3> QED
      BY <2>6, <3>1, <3>2 DEF DemoNext
  <2> QED
    BY <2>3, <2>5, <2>6 DEF DecisionsNext
<1> QED
  BY <1>2, <1>3, <1>4

-----------------------------------------------------------------------------
(* The intent of a question.  Of years and months the first text is kept,  *)
(* and its contract asks for the least number.                              *)

\* Of some places in a text, one is first.
LEMMA SomePlaceIsFirst ==
  ASSUME NEW n \in Nat, NEW K, K \subseteq 1..n, K # {}
  PROVE  \E k \in K : \A j \in K : k <= j
<1> DEFINE T == {1..k : k \in K}
           N == 1..n
<1>1. T \subseteq SUBSET N /\ T # {}
  <2>1. \A k \in K : 1..k \subseteq N
    OBVIOUS
  <2> QED
    BY <2>1
<1>2. IsWellFoundedOn(StrictSubsetOrdering(N), SUBSET N)
  <2>1. IsFiniteSet(N)
    BY FS_Interval
  <2> QED
    BY <2>1, FS_StrictSubsetOrderingWellFounded, FS_FiniteSubsetsOfFinite
<1>3. PICK B \in T : \A D \in T : <<D, B>> \notin StrictSubsetOrdering(N)
  <2> HIDE DEF T, N
  <2> QED
    BY <1>1, <1>2, WFMin
<1>4. PICK k \in K : B = 1..k
  BY <1>3
<1>5. ASSUME NEW j \in K, ~(k <= j) PROVE FALSE
  <2>1. j \in Nat /\ k \in Nat /\ 1 <= j /\ 1 <= k /\ j < k
    BY <1>5
  <2>2. 1..j \subseteq 1..k /\ k \in 1..k /\ k \notin 1..j
    BY <2>1
  <2>3. 1..j \in T /\ 1..j \in SUBSET N /\ 1..k \in SUBSET N
    BY <1>1, <1>3, <1>4
  <2> HIDE DEF T, N
  <2>4. <<1..j, B>> \in StrictSubsetOrdering(N)
    BY <1>4, <2>2, <2>3 DEF StrictSubsetOrdering
  <2> QED
    BY <1>3, <2>3, <2>4
<1> QED
  BY <1>5

CodesDiffer ==
  /\ \A x \in DOMAIN Code : Code[x] \in Int
  /\ \A x, y \in DOMAIN Code : Code[x] = Code[y] => x = y

\* One of two texts comes first.
LEMMA TextsAreOrdered ==
  ASSUME CodesDiffer, NEW a \in Seq(DOMAIN Code), NEW b \in Seq(DOMAIN Code), a # b
  PROVE  TextBefore(a, b) \/ TextBefore(b, a)
<1> DEFINE n == IF Len(a) < Len(b) THEN Len(a) ELSE Len(b)
           K == {j \in 1..n : a[j] # b[j]}
<1>1. n \in Nat /\ n <= Len(a) /\ n <= Len(b) /\ (n = Len(a) \/ n = Len(b)) /\ Len(a) \in Nat /\ Len(b) \in Nat
  OBVIOUS
<1> HIDE DEF n
<1>2. CASE K # {}
  <2>1. PICK k \in K : \A j \in K : k <= j
    <3> HIDE DEF K
    <3>1. K \subseteq 1..n
      BY DEF K
    <3> QED
      BY <1>1, <1>2, <3>1, SomePlaceIsFirst
  <2>2. k \in 1..Len(a) /\ k \in 1..Len(b) /\ a[k] # b[k] /\ k - 1 \in Nat /\ k - 1 <= Len(a) /\ k - 1 <= Len(b)
    BY <1>1, <2>1
  <2>3. \A j \in 1..(k - 1) : a[j] = b[j]
    <3> SUFFICES ASSUME NEW j \in 1..(k - 1), a[j] # b[j] PROVE FALSE
      OBVIOUS
    <3>1. j \in 1..n /\ ~(k <= j)
      BY <1>1, <2>1
    <3> QED
      BY <2>1, <3>1
  <2>4. SubSeq(a, 1, k - 1) = SubSeq(b, 1, k - 1)
    BY <2>2, <2>3, SamePrefix
  <2>5. Code[a[k]] < Code[b[k]] \/ Code[b[k]] < Code[a[k]]
    <3>1. a[k] \in DOMAIN Code /\ b[k] \in DOMAIN Code
      BY <2>2
    <3>2. Code[a[k]] \in Int /\ Code[b[k]] \in Int /\ Code[a[k]] # Code[b[k]]
      BY <2>2, <3>1 DEF CodesDiffer
    <3> QED
      BY <3>2
  <2>6. k \in DOMAIN a /\ k \in DOMAIN b /\ k <= Len(a) + 1 /\ k <= Len(b) + 1
    BY <1>1, <2>2
  <2> QED
    BY <2>4, <2>5, <2>6 DEF TextBefore
<1>3. CASE K = {}
  <2>1. \A j \in 1..n : a[j] = b[j]
    BY <1>3
  <2>2. SubSeq(a, 1, n) = SubSeq(b, 1, n)
    BY <1>1, <2>1, SamePrefix
  <2>3. Len(a) # Len(b)
    <3> SUFFICES ASSUME Len(a) = Len(b) PROVE FALSE
      OBVIOUS
    <3>1. \A j \in 1..Len(a) : a[j] = b[j]
      BY <1>1, <2>1
    <3> QED
      BY <3>1, SeqEqual
  <2>4. CASE Len(a) < Len(b)
    <3>1. n = Len(a) /\ n + 1 \in DOMAIN b /\ n + 1 <= Len(a) + 1 /\ (n + 1) - 1 = n /\ n + 1 = Len(a) + 1
      BY <1>1, <2>4
    <3>2. SubSeq(a, 1, (n + 1) - 1) = SubSeq(b, 1, (n + 1) - 1)
      BY <2>2, <3>1
    <3> QED
      BY <3>1, <3>2 DEF TextBefore
  <2>5. CASE Len(b) < Len(a)
    <3>1. n = Len(b) /\ n + 1 \in DOMAIN a /\ n + 1 <= Len(b) + 1 /\ (n + 1) - 1 = n /\ n + 1 = Len(b) + 1
      BY <1>1, <2>5
    <3>2. SubSeq(b, 1, (n + 1) - 1) = SubSeq(a, 1, (n + 1) - 1)
      BY <2>2, <3>1
    <3> QED
      BY <3>1, <3>2 DEF TextBefore
  <2> QED
    BY <1>1, <2>3, <2>4, <2>5
<1> QED
  BY <1>2, <1>3

\* Of some mentions, the value of one sorts before all others.
LEMMA SomeValueIsFirst ==
  ASSUME CodesDiffer, NEW R, IsFiniteSet(R), R # {}, \A m \in R : m.value \in Seq(DOMAIN Code)
  PROVE  \E x \in R : \A y \in R : y.value # x.value => TextBefore(x.value, y.value)
<1> DEFINE Before(x) == {y \in R : TextBefore(y.value, x.value)}
           T == {Before(x) : x \in R}
<1>0. /\ \A a \in Seq(DOMAIN Code) : ~TextBefore(a, a)
      /\ \A a, b, c \in Seq(DOMAIN Code) : TextBefore(a, b) /\ TextBefore(b, c) => TextBefore(a, c)
  BY TextOrder DEF CodesDiffer
<1>1. T \subseteq SUBSET R /\ T # {}
  OBVIOUS
<1>2. IsWellFoundedOn(StrictSubsetOrdering(R), SUBSET R)
  BY FS_StrictSubsetOrderingWellFounded, FS_FiniteSubsetsOfFinite
<1>3. PICK B \in T : \A D \in T : <<D, B>> \notin StrictSubsetOrdering(R)
  <2> HIDE DEF T
  <2> QED
    BY <1>1, <1>2, WFMin
<1>4. PICK x \in R : B = Before(x)
  BY <1>3
<1>5. ASSUME NEW y \in R, TextBefore(y.value, x.value) PROVE FALSE
  <2>1. Before(y) \subseteq Before(x)
    BY <1>0, <1>5
  <2>2. y \in Before(x) /\ y \notin Before(y)
    BY <1>0, <1>5
  <2>3. Before(y) \in T /\ Before(y) \in SUBSET R /\ B \in SUBSET R
    BY <1>1, <1>3
  <2>4. <<Before(y), B>> \in StrictSubsetOrdering(R)
    <3> HIDE DEF T, Before
    <3> QED
      BY <1>4, <2>1, <2>2, <2>3 DEF StrictSubsetOrdering
  <2> QED
    BY <1>3, <2>3, <2>4
<1>6. \A y \in R : y.value # x.value => TextBefore(x.value, y.value)
  BY <1>4, <1>5, TextsAreOrdered
<1> QED
  BY <1>6

\* Read as numbers, what comes first as a string is the least.
LEMMA FirstIsLeast ==
  ASSUME CodesDiffer, NEW X, IsFiniteSet(X), NEW kind,
         \A m \in X : m.value \in Seq(DOMAIN Code),
         \A m \in X : m.kind = kind => Number(m.value) \in Int,
         \A x, y \in Values(X, kind) : ~(TextBefore(x, y) /\ Number(y) < Number(x))
  PROVE  {Number(x) : x \in FirstText(Values(X, kind))} = Least({Number(x) : x \in Values(X, kind)})
<1> DEFINE R == {m \in X : m.kind = kind}
           V == Values(X, kind)
<1>1. V = {m.value : m \in R}
  BY DEF Values
<1>2. V \subseteq Seq(DOMAIN Code) /\ \A x \in V : Number(x) \in Int
  BY <1>1
<1>3. /\ \A a \in Seq(DOMAIN Code) : ~TextBefore(a, a)
      /\ \A a, b, c \in Seq(DOMAIN Code) : TextBefore(a, b) /\ TextBefore(b, c) => TextBefore(a, c)
  BY TextOrder DEF CodesDiffer
<1>4. CASE V = {}
  BY <1>4 DEF FirstText, Least
<1>5. CASE V # {}
  <2>1. IsFiniteSet(R) /\ R # {} /\ \A m \in R : m.value \in Seq(DOMAIN Code)
    BY <1>1, <1>5, FS_Subset
  <2>2. PICK m \in R : \A y \in R : y.value # m.value => TextBefore(m.value, y.value)
    <3> HIDE DEF R
    <3> QED
      BY <2>1, SomeValueIsFirst
  <2> DEFINE x == m.value
  <2>3. x \in V /\ \A y \in V : y # x => TextBefore(x, y)
    BY <1>1, <2>2
  <2> HIDE DEF x, V, R
  <2>4. FirstText(V) = {x}
    BY <1>2, <1>3, <2>3 DEF FirstText
  <2>5. \A y \in V : Number(x) <= Number(y)
    <3> SUFFICES ASSUME NEW y \in V PROVE Number(x) <= Number(y)
      OBVIOUS
    <3>1. Number(x) \in Int /\ Number(y) \in Int
      BY <1>2, <2>3
    <3>2. y # x => ~(Number(y) < Number(x))
      BY <2>3 DEF V
    <3> QED
      BY <3>1, <3>2
  <2>6. Least({Number(y) : y \in V}) = {Number(x)}
    <3>1. ASSUME NEW n \in {Number(y) : y \in V}, n <= Number(x) PROVE n = Number(x)
      <4>1. PICK y \in V : n = Number(y)
        BY <3>1
      <4>2. n \in Int /\ Number(x) \in Int /\ Number(x) <= n
        BY <1>2, <2>3, <2>5, <4>1
      <4> QED
        BY <3>1, <4>2
    <3> QED
      BY <2>3, <2>5, <3>1 DEF Least
  <2> QED
    BY <2>4, <2>6 DEF V
<1> QED
  BY <1>4, <1>5

\* An intent is of its own contract, but for what is spelled out of order.
LEMMA IntentIsAccepted ==
  ASSUME NEW q \in {r.question : r \in {x \in Requests : x.retrieves # {}}}
  PROVE  LET i == ParseQueryIntent(q, Catalog) IN IntentReconciles(i) \/ SpelledOutOfOrder(i)
<1> DEFINE C == MentionCandidates(q, Catalog)
           kept == SelectLongestNonOverlapping(C)
           i == ParseQueryIntent(q, Catalog)
<1>1. MentionsTyped(C) /\ IsFiniteSet(C) /\ CodesDiffer
  BY MentionsAssumption DEF MentionsTyped, CodesDiffer
<1>2. \A m \in C : /\ 1 <= m.from /\ m.from < m.to /\ m.to <= Len(q) + 1
                   /\ m.kind \in {"intake_year", "intake_month"} => Number(m.value) \in Int
  BY MentionsAssumption
<1>3. kept \in SUBSET C
  <2> HIDE DEF C
  <2>1. \E k \in SUBSET C : Selected(C, k)
    BY <1>1, SelectionExists DEF CodesDiffer
  <2> QED
    BY <2>1 DEF SelectLongestNonOverlapping, Selected
<1>4. /\ i.query = q /\ i.mentions = kept /\ i.categories = Values(kept, "intent")
      /\ i.targets = Values(kept, "scope_target") /\ i.colleges = Values(kept, "parent_college")
      /\ i.degree = FirstText(Values(kept, "degree_level"))
      /\ i.year = {Number(y) : y \in FirstText(Values(kept, "intake_year"))}
      /\ i.month = {Number(m) : m \in FirstText(Values(kept, "intake_month"))}
  BY DEF ParseQueryIntent
<1> HIDE DEF C, kept, i
<1> SUFFICES ASSUME ~SpelledOutOfOrder(i) PROVE IntentReconciles(i)
  BY DEF i
<1>5. /\ IsFiniteSet(kept) /\ \A m \in kept : m.value \in Seq(DOMAIN Code)
      /\ \A m \in kept : m.kind \in {"intake_year", "intake_month"} => Number(m.value) \in Int
  BY <1>1, <1>2, <1>3, FS_Subset DEF MentionsTyped
<1>6. ASSUME NEW kind \in {"intake_year", "intake_month"}
      PROVE  {Number(x) : x \in FirstText(Values(kept, kind))} = Least({Number(x) : x \in Values(kept, kind)})
  <2>1. \A x, y \in Values(kept, kind) : ~(TextBefore(x, y) /\ Number(y) < Number(x))
    BY <1>4 DEF SpelledOutOfOrder
  <2> QED
    BY <1>1, <1>5, <2>1, FirstIsLeast
<1>7. i.year = Least({Number(x) : x \in Values(kept, "intake_year")})
      /\ i.month = Least({Number(x) : x \in Values(kept, "intake_month")})
  BY <1>4, <1>6
<1>8. \A m \in i.mentions : 1 <= m.from /\ m.from < m.to /\ m.to <= Len(i.query) + 1
  BY <1>2, <1>3, <1>4
<1> QED
  BY <1>4, <1>7, <1>8 DEF IntentReconciles

IntentHeld == refusal = "intent" => SpelledOutOfOrder(ParseQueryIntent(request.question, Catalog))

\* Every step keeps what is known of a refused intent.
LEMMA StepKeepsIntent ==
  ASSUME ReportInv, IntentHeld, [DecisionsNext]_<<allVars, demoVars>> PROVE IntentHeld'
<1>1. request' = request
  BY StepKeepsRequest
<1>2. refusal' = refusal \/ refusal' # "intent" => IntentHeld'
  BY <1>1 DEF IntentHeld
<1> DEFINE Elsewhere == refusal' = refusal \/ refusal' # "intent"
<1>3. CASE UNCHANGED <<allVars, demoVars>>
  BY <1>2, <1>3 DEF allVars, vars
<1> USE DEF Fail, Refuse, Advance, vars
<1>4. Next => Elsewhere
  BY DEF Next, RewriteKb, LoadPlan, Audit, PrepareEvidence, Decide, Resolve, Analyze, BuildTrace,
         BuildAnswer, BuildReport
<1>5. UnderstandQuestion => IntentHeld'
  <2> SUFFICES ASSUME UnderstandQuestion PROVE IntentHeld'
    OBVIOUS
  <2> DEFINE i == ParseQueryIntent(request.question, Catalog)
  <2>1. request \in Requests /\ request.retrieves # {}
    BY DEF ReportInv, UnderstandQuestion, Asked
  <2>2. IntentReconciles(i) \/ SpelledOutOfOrder(i)
    BY <2>1, IntentIsAccepted
  <2>3. SpelledOutOfOrder(i) => IntentHeld'
    BY <1>1 DEF IntentHeld
  <2> HIDE DEF i
  <2>4. IntentReconciles(i) => Elsewhere
    BY DEF UnderstandQuestion, i
  <2> QED
    BY <1>2, <2>2, <2>3, <2>4
<1>6. RewriteDuringSearch \/ SearchDocument => Elsewhere
  BY DEF RewriteDuringSearch, SearchDocument
<1>7. ProjectToRetrieval \/ EvidenceTooLong \/ PrepareRequest => Elsewhere
  BY DEF ProjectToRetrieval, EvidenceTooLong, PrepareRequest
<1>8. Generate => Elsewhere
  <2>1. \A response \in Responses : AdapterOutcome(request.provider, response) # "intent"
    BY DEF AdapterOutcome, Responses
  <2> QED
    BY <2>1 DEF Generate
<1>9. Ground => Elsewhere
  <2>1. GenerateChecked(posed, draft) # "intent"
    BY DEF GenerateChecked
  <2> QED
    BY <2>1 DEF Ground
<1>10. Present => Elsewhere
  BY DEF Present
<1>11. DemoNext => Elsewhere
  BY <1>4 DEF DemoNext, RefuseForm, ReportForForm, ShowRequirements, CompareForm
<1> HIDE DEF Elsewhere
<1>12. Elsewhere => IntentHeld'
  BY <1>2 DEF Elsewhere
<1> QED
  BY <1>3, <1>4, <1>5, <1>6, <1>7, <1>8, <1>9, <1>10, <1>11, <1>12 DEF DecisionsNext, GroundedNext, ReportStep

\* No stage hands on what a later one refuses: what the stages of a report make, the
\* validators of the next stage and the report's own accept; what the offline provider
\* drafts is an answer, but for a review it does not ask for when the question and the
\* applicant name different targets (reasoning/applicant_report.py,
\* generation/provider.py and grounded_rag.py).
THEOREM StagesAlwaysReconcile == DecisionsSpec => []StagesReconcile
<1> DEFINE IInv == ReportInv /\ GroundedInv /\ FormHeld /\ OfflineHeld /\ IntentHeld /\ ReportStagesReconcile
<1>1. DecisionsInit => IInv
  <2> SUFFICES ASSUME DecisionsInit PROVE IInv
    OBVIOUS
  <2>1. stage = "asked" /\ refusal = "none"
    BY DEF DecisionsInit, GroundedInit, Init
  <2> QED
    BY <2>1, InitReportInv, InitGroundedInv DEF FormHeld, OfflineHeld, IntentHeld, ReportStagesReconcile, BadDrafts
<1>2. IInv /\ [DecisionsNext]_<<allVars, demoVars>> => IInv'
  BY StepKeepsReport, StepKeepsGrounded, StepKeepsForm, StepKeepsOffline, StepKeepsIntent, StepReconciles
<1>3. IInv => StagesReconcile
  <2> SUFFICES ASSUME IInv PROVE StagesReconcile
    OBVIOUS
  <2>1. OfflineIsAccepted
    BY DEF OfflineHeld, OfflineIsAccepted, BadDrafts, ConflictOnly, Asked
  <2>2. stage = "reported" => AnswerHeld
    BY DEF ReportInv, EvidenceHeld, StagesHold, AnswerHeld, Prepared, Decided, Resolved, Analysed, Traced, Answered, Reported
  <2>3. ProjectionStands
    BY <2>2, ProjectionIsAccepted DEF ProjectionStands
  <2> QED
    BY <2>1, <2>3 DEF StagesReconcile, IntentHeld
<1> QED
  BY <1>1, <1>2, <1>3, PTL DEF DecisionsSpec

-----------------------------------------------------------------------------
(* The demo.                                                                *)

\* A form with more filled in, at the target that was chosen.
FillsIn(f, g) == f \in Forms /\ g \in Forms /\ \A x \in DOMAIN f : f[x] # Unknown => g[x] = f[x]

\* What a completion of a form is to the proofs.
LEMMA CompletionsFillIn ==
  ASSUME NEW f \in Forms, NEW g \in Completing(f) PROVE FillsIn(f, g)
BY DEF Completing, FillsIn

\* The target was chosen in full: nothing of it is filled in later.
LEMMA TargetStays ==
  ASSUME NEW f, NEW g, FillsIn(f, g)
  PROVE  /\ g.month = f.month /\ g.dept = f.dept /\ g.route = f.route /\ g.college = f.college
         /\ g.document = f.document /\ g.english = f.english /\ g.application = f.application
         /\ \A x \in TargetFields : g[x] = f[x]
BY FormsAssumption DEF FillsIn, FormFields, TargetFields

\* The one result of a form is the one that counts.
LEMMA UnsaidCounts ==
  ASSUME NEW p, p.languages = <<"unsaid">> PROVE SelectedLanguageResult(p) = 1
<1>1. {i \in DOMAIN p.languages : p.languages[i] = "yes"} = {}
  OBVIOUS
<1>2. Cardinality({}) = 0 /\ Len(p.languages) = 1 /\ p.languages[1] = "unsaid"
  BY FS_EmptySet
<1> QED
  BY <1>1, <1>2 DEF SelectedLanguageResult

\* The profile made of a form.
LEMMA ProfileOfForm ==
  ASSUME NEW f \in Forms
  PROVE  LET p == DemoApplicantProfile(f)
         IN /\ DOMAIN p.facts = AnswerFields \cup NeverAsked \cup TargetFields
            /\ \A x \in DOMAIN p.facts :
                 p.facts[x] = IF x \in NeverAsked \/ f[x] = NoName THEN Unknown ELSE f[x]
            /\ p.credentials = IF \E x \in CredentialAnswers : f[x] # Unknown THEN 1 ELSE 0
            /\ p.languages = IF \E x \in LanguageAnswers : f[x] # Unknown THEN <<"unsaid">> ELSE <<>>
            /\ p.target = f.dept /\ p.college = f.college /\ p.term = f.month
BY DEF DemoApplicantProfile

\* The profile of a form with more filled in has more filled in.
LEMMA ProfileFilledIn ==
  ASSUME NEW f, NEW g, FillsIn(f, g)
  PROVE  FilledIn(DemoApplicantProfile(f), DemoApplicantProfile(g))
<1> DEFINE p == DemoApplicantProfile(f)
           q == DemoApplicantProfile(g)
<1>1. /\ f \in Forms /\ g \in Forms /\ FormFields \subseteq DOMAIN f
      /\ \A x \in FormFields : f[x] # Unknown => g[x] = f[x]
  BY FormsAssumption DEF FillsIn
<1>2. CredentialAnswers \cup LanguageAnswers \cup AnswerFields \cup TargetFields \subseteq FormFields
  BY DEF CredentialAnswers, LanguageAnswers, AnswerFields, FormFields
<1>3. /\ DOMAIN p.facts = AnswerFields \cup NeverAsked \cup TargetFields
      /\ \A x \in DOMAIN p.facts : /\ p.facts[x] = IF x \in NeverAsked \/ f[x] = NoName THEN Unknown ELSE f[x]
                                   /\ q.facts[x] = IF x \in NeverAsked \/ g[x] = NoName THEN Unknown ELSE g[x]
      /\ p.credentials = IF \E x \in CredentialAnswers : f[x] # Unknown THEN 1 ELSE 0
      /\ q.credentials = IF \E x \in CredentialAnswers : g[x] # Unknown THEN 1 ELSE 0
      /\ p.languages = IF \E x \in LanguageAnswers : f[x] # Unknown THEN <<"unsaid">> ELSE <<>>
      /\ q.languages = IF \E x \in LanguageAnswers : g[x] # Unknown THEN <<"unsaid">> ELSE <<>>
      /\ p.target = f.dept /\ p.college = f.college /\ q.target = g.dept /\ q.college = g.college
  BY <1>1, ProfileOfForm
<1>4. q.languages = <<"unsaid">> => SelectedLanguageResult(q) = 1
  BY UnsaidCounts
<1> HIDE DEF p, q
<1>5. q.target = p.target /\ q.college = p.college
  BY <1>3, TargetStays
<1>6. q.credentials = p.credentials \/ (p.credentials = 0 /\ q.credentials = 1)
  BY <1>1, <1>2, <1>3
<1>7. q.languages = p.languages \/ (p.languages = <<>> /\ q.languages # <<>> /\ SelectedLanguageResult(q) # 0)
  BY <1>1, <1>2, <1>3, <1>4
<1>8. ASSUME NEW x \in DOMAIN p.facts, ProfileValue(p, x) # Unknown PROVE q.facts[x] = p.facts[x]
  <2>1. p.facts[x] # Unknown
    BY <1>8 DEF ProfileValue
  <2>2. x \notin NeverAsked /\ p.facts[x] = f[x] /\ f[x] # NoName /\ f[x] # Unknown
    BY <1>3, <2>1
  <2>3. x \in FormFields
    BY <1>2, <1>3, <2>2
  <2>4. g[x] = f[x]
    BY <1>1, <2>2, <2>3
  <2> QED
    BY <1>3, <2>2, <2>4
<1>9. FilledIn(p, q)
  BY <1>5, <1>6, <1>7, <1>8 DEF FilledIn
<1> QED
  BY <1>9 DEF p, q
-----------------------------------------------------------------------------
(* What the report of a form says when its plan is the reviewed one.        *)

\* The request is of a form whose document the checks are written for.
Detailed == request \in Requests /\ "form" \in DOMAIN request /\ plan.document = DetailedDocument

DecisionOf(f, r) == Decision(DemoApplicantProfile(f), request.query, Pack, plan.rule[r])

\* The plan of the detailed document is the reviewed one.
LEMMA DetailedPlan == ASSUME Detailed PROVE DetailedPlanReviewed(plan)
BY FormsAssumption DEF Detailed, plan

\* The profile of a report asked for by a form is made of the form.
LEMMA OfTheForm ==
  ASSUME request \in Requests, "form" \in DOMAIN request
  PROVE  form \in Forms /\ profile = DemoApplicantProfile(form) /\ request.via = "corpus"
BY FormsAssumption DEF form, profile

\* The profiles of all forms are about the same facts.
LEMMA SameFacts ==
  ASSUME Detailed, NEW f \in Forms PROVE DOMAIN profile.facts = DOMAIN DemoApplicantProfile(f).facts
<1>1. form \in Forms /\ profile = DemoApplicantProfile(form)
  BY OfTheForm DEF Detailed
<1>2. \A h \in Forms : DOMAIN DemoApplicantProfile(h).facts = AnswerFields \cup NeverAsked \cup TargetFields
  BY ProfileOfForm
<1> QED
  BY <1>1, <1>2

\* No two rules of one subject, no pairs to be warned of.
LEMMA NoPairs == ASSUME Detailed, NEW res, DOMAIN res = DOMAIN plan.rule PROVE LivePairs(plan, res) = {}
<1> SUFFICES ASSUME NEW pair \in LivePairs(plan, res) PROVE FALSE
  OBVIOUS
<1>1. PICK a, b \in DOMAIN plan.rule : pair = {a, b}
  BY DEF LivePairs
<1>2. Cardinality(pair) = 2 /\ plan.subject[a] = plan.subject[b]
  BY <1>1 DEF LivePairs
<1>3. a = b
  BY <1>1, <1>2, DetailedPlan DEF DetailedPlanReviewed
<1>4. Cardinality({a}) = 1 /\ pair = {a}
  BY <1>1, <1>3, FS_Singleton
<1> QED
  BY <1>2, <1>4

\* Nothing is overridden or disputed, and a rule is pending as long as it is open.
LEMMA ReportOfForm ==
  ASSUME Detailed, NEW f
  PROVE  LET rp == ReportFor(f)
         IN /\ UNION DOMAIN rp.analysis.warnings = {}
            /\ DOMAIN rp.decisions = DOMAIN plan.rule
            /\ \A r \in DOMAIN plan.rule :
                 /\ rp.decisions[r] = DecisionOf(f, r)
                 /\ rp.resolution[r].disposition = Disposition(DecisionOf(f, r).status, NoRule)
<1> DEFINE ds == DecisionsFor(DemoApplicantProfile(f))
           res == Resolution(plan, ds)
           rp == ReportFor(f)
<1>1. rp.decisions = ds /\ rp.resolution = res /\ rp.analysis = Analysis(plan, res)
  BY DEF ReportFor
<1>2. DOMAIN ds = DOMAIN plan.rule /\ \A r \in DOMAIN plan.rule : ds[r] = DecisionOf(f, r)
  BY DEF DecisionsFor, DecisionOf
<1> HIDE DEF ds
<1>3. Activated(plan, ds) = {}
  BY DetailedPlan DEF Activated, DetailedPlanReviewed
<1>4. \A r \in DOMAIN plan.rule : Overrider(plan, ds, r) = NoRule
  BY <1>3 DEF Overrider
<1>5. DOMAIN res = DOMAIN plan.rule
      /\ \A r \in DOMAIN plan.rule : res[r].disposition = Disposition(ds[r].status, NoRule)
  BY <1>4 DEF Resolution
<1> HIDE DEF res
<1>6. DOMAIN Analysis(plan, res).warnings = {}
  BY <1>5, NoPairs DEF Analysis
<1> HIDE DEF rp
<1> QED
  BY <1>1, <1>2, <1>5, <1>6 DEF rp

\* What is decided of a rule for the profile of a form.
LEMMA DecisionParts ==
  ASSUME NEW f, NEW r
  PROVE  LET d == DecisionOf(f, r)
             p == DemoApplicantProfile(f)
         IN /\ d.scope = EvaluateScope(p, request.query, plan.rule[r].scope)
            /\ d.outcomes = [x \in plan.rule[r].predicates |-> PredicateStatus(p, x)]
            /\ d.status \in {"confirmed", "not_applicable", "needs_information"}
<1> DEFINE p == DemoApplicantProfile(f)
           o == Outcomes(p, plan.rule[r])
           dg == Diagnostics(p, request.query, Pack, plan.rule[r])
           sc == EvaluateScope(p, request.query, plan.rule[r].scope)
           d == Decision(p, request.query, Pack, plan.rule[r])
<1>1. d.scope = sc /\ d.outcomes = o /\ d.status = DecidedStatus(plan.rule[r].mode, Image(o), sc, dg)
  BY DEF Decision
<1>2. o = [x \in plan.rule[r].predicates |-> PredicateStatus(p, x)]
  BY DEF Outcomes
<1>3. d = DecisionOf(f, r)
  BY DEF DecisionOf
<1> HIDE DEF d, o, dg, sc
<1>4. d.status \in {"confirmed", "not_applicable", "needs_information"}
  BY <1>1, ThreeStatuses
<1> QED
  BY <1>1, <1>2, <1>3, <1>4 DEF sc

\* What more answers leave of a rule: whether it is bound, its scope, what is
\* decided of it and the outcomes on whatever is known.
KeptOf(f, g, r) ==
  /\ Bound(g, ReportFor(g), r) <=> Bound(f, ReportFor(f), r)
  /\ r \in DOMAIN plan.rule =>
       LET d == ReportFor(f).decisions[r]
           e == ReportFor(g).decisions[r]
       IN /\ e.scope = d.scope
          /\ d.status # "needs_information" => e.status = d.status
          /\ \A h \in {f, g} : LET at == ReportFor(h) IN
               /\ at.resolution[r].disposition = "pending" <=> at.decisions[r].status = "needs_information"
               /\ at.resolution[r].disposition = "active" <=> at.decisions[r].status = "confirmed"

\* More answers leave of every rule what KeptOf says.
LEMMA RulesKept ==
  ASSUME Detailed, NEW f, NEW g, FillsIn(f, g), NEW r
  PROVE  KeptOf(f, g, r)
<1> DEFINE rf == ReportFor(f)
           rg == ReportFor(g)
<1>1. \A h \in {f, g} :
        /\ UNION DOMAIN ReportFor(h).analysis.warnings = {}
        /\ \A x \in DOMAIN plan.rule :
             /\ ReportFor(h).decisions[x] = DecisionOf(h, x)
             /\ ReportFor(h).resolution[x].disposition = Disposition(DecisionOf(h, x).status, NoRule)
             /\ DecisionOf(h, x).status \in {"confirmed", "not_applicable", "needs_information"}
  BY ReportOfForm, DecisionParts
<1>2. RuleMatchesTarget(plan.rule[r], g) <=> RuleMatchesTarget(plan.rule[r], f)
  BY TargetStays DEF RuleMatchesTarget
<1>3. \A h \in {f, g} : Bound(h, ReportFor(h), r) <=>
        /\ r \in DOMAIN plan.rule /\ RuleMatchesTarget(plan.rule[r], h)
        /\ plan.rule[r].bindings \subseteq DOMAIN bundle.records
  BY <1>1 DEF Bound, Disposition
<1>4. Bound(g, rg, r) <=> Bound(f, rf, r)
  BY <1>2, <1>3
<1>5. ASSUME r \in DOMAIN plan.rule
      PROVE  /\ DecisionOf(g, r).scope = DecisionOf(f, r).scope
             /\ DecisionOf(f, r).status # "needs_information" => DecisionOf(g, r).status = DecisionOf(f, r).status
  <2> DEFINE p == DemoApplicantProfile(f)
             q == DemoApplicantProfile(g)
  <2>1. FilledIn(p, q)
    BY ProfileFilledIn
  <2>2. p.credentials \in Nat
    BY ProfileOfForm DEF FillsIn
  <2>3. plan.rule[r].mode \in {"all", "any"}
    BY <1>5, RulesAreAboutFacts DEF Detailed
  <2>4. \A x \in plan.rule[r].predicates : x.field \in DOMAIN profile.facts
    BY <1>5, RulesAreAboutFacts DEF Detailed
  <2>5. DOMAIN profile.facts = DOMAIN p.facts
    BY SameFacts DEF FillsIn
  <2> HIDE DEF p, q
  <2>6. LET d == Decision(p, request.query, Pack, plan.rule[r])
            e == Decision(q, request.query, Pack, plan.rule[r])
        IN d.status # "needs_information" => e.status = d.status
    BY <2>1, <2>2, <2>3, <2>4, <2>5, DecisionFilledIn
  <2>7. EvaluateScope(q, request.query, plan.rule[r].scope) = EvaluateScope(p, request.query, plan.rule[r].scope)
    BY <2>1, ScopeFilledIn
  <2>8. DecisionOf(f, r) = Decision(p, request.query, Pack, plan.rule[r])
        /\ DecisionOf(g, r) = Decision(q, request.query, Pack, plan.rule[r])
    BY DEF DecisionOf, p, q
  <2>9. DecisionOf(f, r).scope = EvaluateScope(p, request.query, plan.rule[r].scope)
        /\ DecisionOf(g, r).scope = EvaluateScope(q, request.query, plan.rule[r].scope)
    BY DecisionParts DEF p, q
  <2> QED
    BY <2>6, <2>7, <2>8, <2>9
<1> QED
  BY <1>1, <1>4, <1>5 DEF KeptOf, Disposition

\* The outcomes of a rule on what is known, and on what is not.
LEMMA OutcomesKept ==
  ASSUME Detailed, NEW f, NEW g, FillsIn(f, g), NEW r \in DOMAIN plan.rule, NEW field,
         Image(OutcomesOn(ReportFor(f), r, field)) # {"needs_information"}
  PROVE  OutcomesOn(ReportFor(g), r, field) = OutcomesOn(ReportFor(f), r, field)
<1> DEFINE p == DemoApplicantProfile(f)
           q == DemoApplicantProfile(g)
           S == {x \in plan.rule[r].predicates : x.field = field}
<1>1. \A h \in {f, g} : OutcomesOn(ReportFor(h), r, field) = [x \in S |-> PredicateStatus(DemoApplicantProfile(h), x)]
  <2> TAKE h \in {f, g}
  <2>1. ReportFor(h).decisions[r].outcomes = [x \in plan.rule[r].predicates |-> PredicateStatus(DemoApplicantProfile(h), x)]
    BY ReportOfForm, DecisionParts
  <2> DEFINE o == ReportFor(h).decisions[r].outcomes
  <2>2. OutcomesOn(ReportFor(h), r, field) = [x \in {y \in DOMAIN o : y.field = field} |-> o[x]]
    BY DEF OutcomesOn
  <2> HIDE DEF o
  <2> QED
    BY <2>1, <2>2 DEF o
<1>2. Image(OutcomesOn(ReportFor(f), r, field)) = {PredicateStatus(p, x) : x \in S}
  BY <1>1 DEF Image
<1>3. CASE S = {}
  BY <1>1, <1>3
<1>4. CASE S # {}
  <2>1. PICK y \in S : PredicateStatus(p, y) # "needs_information"
    <3>1. \E y \in S : PredicateStatus(p, y) # "needs_information"
      <4> SUFFICES ASSUME \A y \in S : PredicateStatus(p, y) = "needs_information" PROVE FALSE
        OBVIOUS
      <4>1. {PredicateStatus(p, x) : x \in S} = {"needs_information"}
        BY <1>4
      <4> QED
        BY <1>2, <4>1
    <3> QED
      BY <3>1
  <2>2. ProfileValue(p, field) # Unknown
    BY <2>1 DEF PredicateStatus
  <2>3. field \in DOMAIN p.facts
    <3>1. y.field \in DOMAIN profile.facts
      BY RulesAreAboutFacts DEF Detailed
    <3>2. DOMAIN profile.facts = DOMAIN p.facts
      BY SameFacts DEF FillsIn
    <3> QED
      BY <3>1, <3>2
  <2>4. FilledIn(p, q)
    BY ProfileFilledIn
  <2> HIDE DEF p, q
  <2>5. ProfileValue(q, field) = ProfileValue(p, field)
    BY <2>2, <2>3, <2>4, ValueFilledIn
  <2>6. \A x \in S : PredicateStatus(q, x) = PredicateStatus(p, x)
    BY <2>5 DEF PredicateStatus
  <2> QED
    BY <1>1, <2>6 DEF p, q
<1> QED
  BY <1>3, <1>4
-----------------------------------------------------------------------------
(* The checks, one by one: a definite one is made again of any form with     *)
(* more filled in.                                                           *)

\* One answer of the English section, held against the rule it is worded for.
LEMMA AnswerKept ==
  ASSUME Detailed, NEW f, NEW g, FillsIn(f, g), NEW field \in AnswerFields, NEW r, NEW value,
         AnswerCheck(f, ReportFor(f), field, r, value).status \in Definite
  PROVE  AnswerCheck(g, ReportFor(g), field, r, value) = AnswerCheck(f, ReportFor(f), field, r, value)
<1> DEFINE Made(h) ==
             LET rp == ReportFor(h)
                 outcomes == Image(OutcomesOn(rp, r, field))
             IN IF h[field] = Unknown THEN "needs_information"
                ELSE IF \/ rp.resolution[r].disposition = "pending"
                        \/ rp.decisions[r].scope # "confirmed" \/ outcomes = {}
                THEN "not_covered"
                ELSE IF outcomes = {"confirmed"} /\ rp.decisions[r].status = "confirmed" THEN "reported_match"
                ELSE IF outcomes = {"not_applicable"} THEN "action_needed"
                ELSE "needs_information"
           rf == ReportFor(f)
           rg == ReportFor(g)
<1>1. \A h : AnswerCheck(h, ReportFor(h), field, r, value)
               = IF ~BoundTo(h, ReportFor(h), r, field, value) THEN Check(field, "not_covered", {})
                 ELSE Check(field, Made(h), {r})
  BY DEF AnswerCheck
<1>2. BoundTo(g, rg, r, field, value) <=> BoundTo(f, rf, r, field, value)
  BY RulesKept DEF BoundTo, KeptOf
<1>3. BoundTo(f, rf, r, field, value) /\ Made(f) \in Definite
  <2> HIDE DEF Made
  <2> QED
    BY <1>1 DEF Check, Definite
<1>4. r \in DOMAIN plan.rule
  BY <1>3 DEF BoundTo, Bound
<1>5. f[field] # Unknown /\ g[field] = f[field]
  <2>1. f[field] # Unknown
    BY <1>3 DEF Definite
  <2>2. field \in DOMAIN f
    BY FormsAssumption DEF FillsIn, FormFields
  <2> QED
    BY <2>1, <2>2 DEF FillsIn
<1> DEFINE outcomes == Image(OutcomesOn(rf, r, field))
<1>6. /\ rf.resolution[r].disposition # "pending" /\ rf.decisions[r].scope = "confirmed"
      /\ \/ outcomes = {"confirmed"} /\ rf.decisions[r].status = "confirmed" /\ Made(f) = "reported_match"
         \/ outcomes = {"not_applicable"} /\ Made(f) = "action_needed"
  BY <1>3, <1>5 DEF Definite
<1>7. Image(OutcomesOn(rg, r, field)) = outcomes
  <2>1. outcomes # {"needs_information"}
    BY <1>6
  <2> QED
    BY <1>4, <2>1, OutcomesKept
<1>8. /\ rg.decisions[r].scope = rf.decisions[r].scope /\ rg.decisions[r].status = rf.decisions[r].status
      /\ rg.resolution[r].disposition # "pending"
  BY <1>4, <1>6, RulesKept DEF KeptOf
<1>9. Made(g) = Made(f)
  <2> HIDE DEF rf, rg, outcomes
  <2>1. Made(g) = IF g[field] = Unknown THEN "needs_information"
                  ELSE IF rg.resolution[r].disposition = "pending" \/ rg.decisions[r].scope # "confirmed" \/ outcomes = {}
                  THEN "not_covered"
                  ELSE IF outcomes = {"confirmed"} /\ rg.decisions[r].status = "confirmed" THEN "reported_match"
                  ELSE IF outcomes = {"not_applicable"} THEN "action_needed"
                  ELSE "needs_information"
    BY <1>7 DEF rg
  <2>2. \/ outcomes = {"confirmed"} /\ rg.decisions[r].status = "confirmed" /\ Made(f) = "reported_match"
        \/ outcomes = {"not_applicable"} /\ Made(f) = "action_needed"
    BY <1>6, <1>8
  <2> HIDE DEF Made
  <2> QED
    BY <1>5, <1>6, <1>8, <2>1, <2>2
<1> HIDE DEF Made
<1> QED
  BY <1>1, <1>2, <1>3, <1>9

\* The kind of the result, approved or refused by name.
LEMMA KindKept ==
  ASSUME Detailed, NEW f, NEW g, FillsIn(f, g), KindCheck(f, ReportFor(f)).status \in Definite
  PROVE  KindCheck(g, ReportFor(g)) = KindCheck(f, ReportFor(f)) /\ g.kind = f.kind
<1> DEFINE refused == <<"unapproved-kind", f.kind, Term(f)>>
           rf == ReportFor(f)
           rg == ReportFor(g)
           InForce(h, rp) == /\ BoundTo(h, rp, refused, "kind", f.kind)
                             /\ rp.decisions[refused].status = "confirmed" /\ rp.resolution[refused].disposition = "active"
<1>1. f.kind # Unknown
  BY DEF KindCheck, Check, Definite
<1>2. g.kind = f.kind /\ Term(g) = Term(f)
  <2>1. "kind" \in DOMAIN f
    BY FormsAssumption DEF FillsIn, FormFields, AnswerFields
  <2> QED
    BY <1>1, <2>1, TargetStays DEF FillsIn, Term
<1>3. "kind" \in AnswerFields
  BY DEF AnswerFields
<1>4. ~(f.kind \in {Unknown, "other"})
  BY DEF KindCheck, Check, Definite
<1>5. CASE f.kind \in ApprovedKinds
  <2> DEFINE approved == <<"approved-kind", f.kind, Term(f)>>
  <2>1. /\ KindCheck(f, rf) = AnswerCheck(f, rf, "kind", approved, f.kind)
        /\ KindCheck(g, rg) = AnswerCheck(g, rg, "kind", approved, f.kind)
    BY <1>2, <1>4, <1>5 DEF KindCheck
  <2> HIDE DEF approved, rf, rg
  <2>2. AnswerCheck(g, rg, "kind", approved, f.kind) = AnswerCheck(f, rf, "kind", approved, f.kind)
    BY <1>3, <2>1, AnswerKept DEF rf, rg
  <2> QED
    BY <1>2, <2>1, <2>2 DEF rf, rg
<1>6. CASE f.kind \notin ApprovedKinds
  <2>1. /\ KindCheck(f, rf) = IF InForce(f, rf) THEN Check("kind", "action_needed", {refused})
                              ELSE AnswerCheck(f, rf, "kind", refused, f.kind)
        /\ KindCheck(g, rg) = IF InForce(g, rg) THEN Check("kind", "action_needed", {refused})
                              ELSE AnswerCheck(g, rg, "kind", refused, f.kind)
    BY <1>2, <1>4, <1>6 DEF KindCheck
  <2>2. BoundTo(g, rg, refused, "kind", f.kind) <=> BoundTo(f, rf, refused, "kind", f.kind)
    BY RulesKept DEF BoundTo, KeptOf
  <2>3. KeptOf(f, g, refused)
    BY RulesKept
  <2>4. BoundTo(f, rf, refused, "kind", f.kind) => refused \in DOMAIN plan.rule
    BY DEF BoundTo, Bound
  <2>5. CASE InForce(f, rf)
    <3>1. InForce(g, rg)
      BY <2>2, <2>3, <2>4, <2>5 DEF KeptOf
    <3> QED
      BY <1>2, <2>1, <2>5, <3>1
  <2>6. CASE ~InForce(f, rf)
    <3>1. AnswerCheck(f, rf, "kind", refused, f.kind).status \in Definite
      BY <2>1, <2>6
    <3>2. AnswerCheck(g, rg, "kind", refused, f.kind) = AnswerCheck(f, rf, "kind", refused, f.kind)
      BY <1>3, <3>1, AnswerKept
    <3>3. BoundTo(f, rf, refused, "kind", f.kind) /\ rf.resolution[refused].disposition # "pending"
      BY <3>1 DEF AnswerCheck, Check, Definite
    <3>4. rf.decisions[refused].status # "needs_information"
      BY <2>3, <2>4, <3>3 DEF KeptOf
    <3>5. rg.decisions[refused].status = rf.decisions[refused].status
      BY <2>3, <2>4, <3>3, <3>4 DEF KeptOf
    <3>6. ~InForce(g, rg)
      BY <2>2, <2>3, <2>4, <2>6, <3>3, <3>5 DEF KeptOf
    <3> QED
      BY <1>2, <2>1, <2>6, <3>2, <3>6
  <2> QED
    BY <2>5, <2>6
<1> QED
  BY <1>5, <1>6

\* The lines a rule is bound to are there when the report binds it.
LEMMA BoundIsEvidenced ==
  ASSUME Detailed, NEW f, NEW rp, NEW r, Bound(f, rp, r)
  PROVE  r \in DOMAIN plan.rule /\ BindOfficialEvidence(Pack, plan.rule[r]) = plan.rule[r].bindings
<1>1. r \in DOMAIN plan.rule /\ plan.rule[r].bindings \subseteq DOMAIN bundle.records
  BY DEF Bound
<1>2. plan.rule[r].bindings \subseteq Facts
  BY <1>1, DecisionsAssumption DEF Detailed, plan
<1>3. Pack = DirectEvidence
  BY OfTheForm DEF Detailed, Pack
<1>4. \A b \in plan.rule[r].bindings : Pack.roles[b] = "primary"
  BY <1>1, <1>2, <1>3 DEF DirectEvidence
<1> QED
  BY <1>1, <1>4 DEF BindOfficialEvidence

\* What the form tells of the target is known of the profile.
LEMMA TargetIsKnown ==
  ASSUME NEW f \in Forms, NEW x \in {"month", "dept"}
  PROVE  ProfileValue(DemoApplicantProfile(f), x) = f[x] /\ f[x] # Unknown
<1> DEFINE p == DemoApplicantProfile(f)
<1>1. x \notin CredentialFields /\ x \notin LanguageFields /\ f[x] # NoName /\ f[x] # Unknown
  BY FormsAssumption DEF TargetFields
<1>2. p.facts[x] = f[x]
  BY <1>1, ProfileOfForm DEF TargetFields, NeverAsked
<1> HIDE DEF p
<1>3. ProfileValue(p, x) = f[x]
  BY <1>1, <1>2 DEF ProfileValue
<1> QED
  BY <1>1, <1>3 DEF p

\* Mathematics is told by the target alone: its rule is decided at once.
LEMMA MathDecided ==
  ASSUME Detailed, NEW f \in Forms, NEW r, r[1] = "math-written-exam", BoundInScope(f, ReportFor(f), r)
  PROVE  ReportFor(f).decisions[r].status # "needs_information"
<1> DEFINE p == DemoApplicantProfile(f)
           rule == plan.rule[r]
           sc == EvaluateScope(p, request.query, rule.scope)
           o == Outcomes(p, rule)
           dg == Diagnostics(p, request.query, Pack, rule)
           d == Decision(p, request.query, Pack, rule)
<1>1. r \in DOMAIN plan.rule /\ BindOfficialEvidence(Pack, rule) = rule.bindings
  BY BoundIsEvidenced DEF BoundInScope
<1>2. rule.mode = "all" /\ FieldsOf(rule) \subseteq {"month", "dept"}
  BY <1>1, DetailedPlan DEF DetailedPlanReviewed
<1>3. ReportFor(f).decisions[r] = d
  BY <1>1, ReportOfForm DEF DecisionOf
<1>4. sc = "confirmed"
  <2>1. d.scope = sc
    BY DEF Decision
  <2> HIDE DEF d, sc
  <2> QED
    BY <1>3, <2>1 DEF BoundInScope
<1>5. d.status = DecidedStatus(rule.mode, Image(o), sc, dg)
  BY DEF Decision
<1>6. dg \cap Undecided = {}
  <2>1. FieldsOf(rule) \cap CredentialFields = {} /\ FieldsOf(rule) \cap LanguageFields = {}
    BY <1>2, FormsAssumption DEF TargetFields
  <2> HIDE DEF p, rule
  <2> QED
    BY <1>1, <2>1 DEF Diagnostics, Undecided
<1>7. "needs_information" \notin Image(o)
  <2>1. \A x \in rule.predicates : x.field \in {"month", "dept"}
    BY <1>2 DEF FieldsOf
  <2>2. \A x \in rule.predicates : ProfileValue(p, x.field) # Unknown
    BY <2>1, TargetIsKnown
  <2>3. \A x \in rule.predicates : PredicateStatus(p, x) # "needs_information"
    BY <2>2 DEF PredicateStatus
  <2>4. Image(o) = {PredicateStatus(p, x) : x \in rule.predicates}
    BY ImageOfOutcomes
  <2> QED
    BY <2>3, <2>4
<1>8. Image(o) \subseteq {"confirmed", "not_applicable"}
  <2>1. Image(o) = {PredicateStatus(p, x) : x \in rule.predicates}
    BY ImageOfOutcomes
  <2>2. \A x \in rule.predicates : PredicateStatus(p, x) \in {"confirmed", "not_applicable", "needs_information"}
    BY DEF PredicateStatus
  <2> QED
    BY <1>7, <2>1, <2>2
<1> HIDE DEF o, dg, sc, d, rule, p
<1>9. Combine(rule.mode, Image(o)) # "needs_information"
  BY <1>2, <1>8 DEF Combine
<1>10. d.status # "needs_information"
  BY <1>4, <1>5, <1>6, <1>8, <1>9, <1>2 DEF DecidedStatus, CombineWithScope, Combine
<1> QED
  BY <1>3, <1>10

\* A rule is bound in scope by the target alone.
LEMMA ScopeKept ==
  ASSUME Detailed, NEW f, NEW g, FillsIn(f, g), NEW r
  PROVE  BoundInScope(g, ReportFor(g), r) <=> BoundInScope(f, ReportFor(f), r)
<1>1. KeptOf(f, g, r)
  BY RulesKept
<1>2. Bound(f, ReportFor(f), r) => r \in DOMAIN plan.rule
  BY DEF Bound
<1> QED
  BY <1>1, <1>2 DEF KeptOf, BoundInScope

\* The proofs asked for with an approved kind.
LEMMA ProofsKept ==
  ASSUME Detailed, NEW f, NEW g, FillsIn(f, g), g.kind = f.kind,
         NEW c \in ProofChecks(f, ReportFor(f)), c.status \in Definite
  PROVE  c \in ProofChecks(g, ReportFor(g))
<1> DEFINE term == Term(f)
           Made(field, r, value) ==
             \/ field = "taken" /\ r = <<"test-date", term>> /\ value = 1
             \/ field = "pdf" /\ r = <<"online-pdf", term>> /\ value = TRUE
             \/ f.kind = "toeic" /\ field = "qr" /\ r = <<"toeic-qr", term>> /\ value = TRUE
             \/ f.kind = "toeic" /\ field = "certificate" /\ r = <<"toeic-certificate", term>> /\ value = TRUE
             \/ f.kind # "toeic" /\ field = "report" /\ r = <<"report", f.kind, term>> /\ value = TRUE
             \/ f.kind # "toeic" /\ field = "g179" /\ r = <<"g179", f.kind, term>> /\ value = TRUE
<1>1. Term(g) = Term(f)
  BY TargetStays DEF Term
<1>2. ASSUME NEW h, h.kind = f.kind, Term(h) = term, NEW rp, NEW e
      PROVE  e \in ProofChecks(h, rp)
               <=> \E field, r, value : Made(field, r, value) /\ e = AnswerCheck(h, rp, field, r, value)
  <2> DEFINE a1 == AnswerCheck(h, rp, "taken", <<"test-date", Term(h)>>, 1)
             a2 == AnswerCheck(h, rp, "pdf", <<"online-pdf", Term(h)>>, TRUE)
             a3 == AnswerCheck(h, rp, "qr", <<"toeic-qr", Term(h)>>, TRUE)
             a4 == AnswerCheck(h, rp, "certificate", <<"toeic-certificate", Term(h)>>, TRUE)
             a5 == AnswerCheck(h, rp, "report", <<"report", h.kind, Term(h)>>, TRUE)
             a6 == AnswerCheck(h, rp, "g179", <<"g179", h.kind, Term(h)>>, TRUE)
  <2>1. ProofChecks(h, rp) = {a1, a2} \cup (IF h.kind = "toeic" THEN {a3, a4} ELSE {a5, a6})
    BY DEF ProofChecks
  <2>2. \A field, r, value : Made(field, r, value) =>
          AnswerCheck(h, rp, field, r, value) \in {a1, a2} \cup (IF h.kind = "toeic" THEN {a3, a4} ELSE {a5, a6})
    <3> SUFFICES ASSUME NEW field, NEW r, NEW value, Made(field, r, value)
                 PROVE  AnswerCheck(h, rp, field, r, value)
                          \in {a1, a2} \cup (IF h.kind = "toeic" THEN {a3, a4} ELSE {a5, a6})
      OBVIOUS
    <3>1. CASE field = "taken" /\ r = <<"test-date", term>> /\ value = 1
      BY <1>2, <3>1, Zenon
    <3>2. CASE field = "pdf" /\ r = <<"online-pdf", term>> /\ value = TRUE
      BY <1>2, <3>2, Zenon
    <3>3. CASE f.kind = "toeic" /\ field = "qr" /\ r = <<"toeic-qr", term>> /\ value = TRUE
      BY <1>2, <3>3, Zenon
    <3>4. CASE f.kind = "toeic" /\ field = "certificate" /\ r = <<"toeic-certificate", term>> /\ value = TRUE
      BY <1>2, <3>4, Zenon
    <3>5. CASE f.kind # "toeic" /\ field = "report" /\ r = <<"report", f.kind, term>> /\ value = TRUE
      BY <1>2, <3>5, Zenon
    <3>6. CASE f.kind # "toeic" /\ field = "g179" /\ r = <<"g179", f.kind, term>> /\ value = TRUE
      BY <1>2, <3>6, Zenon
    <3> QED
      BY <3>1, <3>2, <3>3, <3>4, <3>5, <3>6
  <2>3. /\ Made("taken", <<"test-date", Term(h)>>, 1) /\ Made("pdf", <<"online-pdf", Term(h)>>, TRUE)
        /\ h.kind = "toeic" => /\ Made("qr", <<"toeic-qr", Term(h)>>, TRUE)
                               /\ Made("certificate", <<"toeic-certificate", Term(h)>>, TRUE)
        /\ h.kind # "toeic" => /\ Made("report", <<"report", h.kind, Term(h)>>, TRUE)
                               /\ Made("g179", <<"g179", h.kind, Term(h)>>, TRUE)
    BY <1>2, Zenon
  <2>4. ASSUME e \in {a1, a2} \cup (IF h.kind = "toeic" THEN {a3, a4} ELSE {a5, a6})
        PROVE  \E field, r, value : Made(field, r, value) /\ e = AnswerCheck(h, rp, field, r, value)
    <3>1. \/ e \in {a1, a2}
          \/ h.kind = "toeic" /\ e \in {a3, a4}
          \/ h.kind # "toeic" /\ e \in {a5, a6}
      <4> HIDE DEF a1, a2, a3, a4, a5, a6
      <4> QED
        BY <2>4
    <3>2. \/ e = a1 \/ e = a2
          \/ h.kind = "toeic" /\ (e = a3 \/ e = a4)
          \/ h.kind # "toeic" /\ (e = a5 \/ e = a6)
      <4> HIDE DEF a1, a2, a3, a4, a5, a6
      <4> QED
        BY <3>1
    <3> HIDE DEF Made
    <3> QED
      BY <2>3, <3>2, Zenon
  <2> HIDE DEF a1, a2, a3, a4, a5, a6, Made
  <2> QED
    BY <2>1, <2>2, <2>4
<1>3. \A field, r, value : Made(field, r, value) => field \in AnswerFields
  BY DEF AnswerFields
<1> HIDE DEF Made
<1>4. PICK field, r, value : Made(field, r, value) /\ c = AnswerCheck(f, ReportFor(f), field, r, value)
  BY <1>2
<1>5. AnswerCheck(g, ReportFor(g), field, r, value) = c
  BY <1>3, <1>4, AnswerKept
<1> QED
  BY <1>1, <1>2, <1>4, <1>5

\* The English section: mathematics first, then the kind, then its proofs.
LEMMA EnglishKept ==
  ASSUME Detailed, NEW f, NEW g, FillsIn(f, g), NEW c \in EnglishChecks(f, ReportFor(f)), c.status \in Definite
  PROVE  c \in EnglishChecks(g, ReportFor(g))
<1> DEFINE rf == ReportFor(f)
           rg == ReportFor(g)
           math == <<"math-written-exam", Term(f)>>
           MathFor(h, rp) == BoundInScope(h, rp, math) /\ rp.decisions[math].status = "confirmed"
           Told(h, rp) == {KindCheck(h, rp)}
                          \cup (IF KindCheck(h, rp).status = "reported_match" THEN ProofChecks(h, rp) ELSE {})
<1>1. Term(g) = Term(f) /\ g.document = f.document /\ f \in Forms /\ g \in Forms
  BY TargetStays DEF Term, FillsIn
<1>2. /\ EnglishChecks(f, rf)
           = IF f.document # DetailedDocument \/ plan.document # f.document
             THEN {Check("coverage of English", "not_covered", {})}
             ELSE IF MathFor(f, rf) THEN {Check("math", "not_applicable", {math})} ELSE Told(f, rf)
      /\ EnglishChecks(g, rg)
           = IF f.document # DetailedDocument \/ plan.document # f.document
             THEN {Check("coverage of English", "not_covered", {})}
             ELSE IF MathFor(g, rg) THEN {Check("math", "not_applicable", {math})} ELSE Told(g, rg)
  BY <1>1 DEF EnglishChecks
<1>3. MathFor(g, rg) <=> MathFor(f, rf)
  <2>1. BoundInScope(g, rg, math) <=> BoundInScope(f, rf, math)
    BY ScopeKept
  <2>2. BoundInScope(f, rf, math) => rf.decisions[math].status # "needs_information"
    BY <1>1, MathDecided
  <2>3. BoundInScope(f, rf, math) => rg.decisions[math].status = rf.decisions[math].status
    <3>1. KeptOf(f, g, math)
      BY RulesKept
    <3>2. BoundInScope(f, rf, math) => math \in DOMAIN plan.rule
      BY DEF Bound, BoundInScope
    <3> QED
      BY <2>2, <3>1, <3>2 DEF KeptOf
  <2> QED
    BY <2>1, <2>3
<1>4. c \in Told(f, rf) => c \in Told(g, rg)
  <2> SUFFICES ASSUME c \in Told(f, rf) PROVE c \in Told(g, rg)
    OBVIOUS
  <2>1. KindCheck(f, rf).status \in Definite
    BY DEF Definite
  <2>2. KindCheck(g, rg) = KindCheck(f, rf) /\ g.kind = f.kind
    BY <2>1, KindKept
  <2>3. c \in ProofChecks(f, rf) => c \in ProofChecks(g, rg)
    BY <2>2, ProofsKept
  <2> HIDE DEF rf, rg
  <2> QED
    BY <2>2, <2>3
<1> HIDE DEF MathFor, Told, rf, rg
<1> QED
  BY <1>2, <1>3, <1>4 DEF rf, rg

\* The outcomes on a field of which something is known.
LEMMA KnownOutcomesKept ==
  ASSUME Detailed, NEW f, NEW g, FillsIn(f, g), NEW r \in DOMAIN plan.rule, NEW field,
         ProfileValue(DemoApplicantProfile(f), field) # Unknown
  PROVE  OutcomesOn(ReportFor(g), r, field) = OutcomesOn(ReportFor(f), r, field)
<1> DEFINE p == DemoApplicantProfile(f)
           on == OutcomesOn(ReportFor(f), r, field)
<1>1. \A x \in DOMAIN on : on[x] # "needs_information"
  <2>1. ReportFor(f).decisions[r].outcomes = [x \in plan.rule[r].predicates |-> PredicateStatus(p, x)]
    BY ReportOfForm, DecisionParts
  <2>2. \A x : x.field = field => PredicateStatus(p, x) # "needs_information"
    BY DEF PredicateStatus
  <2> HIDE DEF p
  <2> QED
    BY <2>1, <2>2 DEF OutcomesOn
<1> HIDE DEF on
<1>2. Image(on) # {"needs_information"}
  BY <1>1 DEF Image
<1> QED
  BY <1>2, OutcomesKept DEF on

\* A rule with an outcome on a field knows of the field.
LEMMA OutcomeIsKnown ==
  ASSUME Detailed, NEW f, NEW r \in DOMAIN plan.rule, NEW field,
         NEW s \in Image(OutcomesOn(ReportFor(f), r, field)), s # "needs_information"
  PROVE  ProfileValue(DemoApplicantProfile(f), field) # Unknown
<1> DEFINE p == DemoApplicantProfile(f)
           on == OutcomesOn(ReportFor(f), r, field)
<1>1. ReportFor(f).decisions[r].outcomes = [x \in plan.rule[r].predicates |-> PredicateStatus(p, x)]
  BY ReportOfForm, DecisionParts
<1>2. PICK x \in DOMAIN on : s = on[x]
  BY DEF Image
<1>3. x.field = field /\ s = PredicateStatus(p, x)
  <2> HIDE DEF p
  <2> QED
    BY <1>1, <1>2 DEF OutcomesOn
<1> QED
  BY <1>3 DEF PredicateStatus

\* The days of the special contact: two outcomes on a date that is told.
LEMMA SpecialContactKept ==
  ASSUME Detailed, NEW f, NEW g, FillsIn(f, g), g.basis = f.basis, g.state = f.state,
         f.state = "expected" => ProfileValue(DemoApplicantProfile(f), "expected") # Unknown
  PROVE  InSpecialContact(g, ReportFor(g)) <=> InSpecialContact(f, ReportFor(f))
<1> DEFINE r == <<PathOf(f.basis), "special-contact", "sep">>
           rf == ReportFor(f)
           rg == ReportFor(g)
           Two(rp) == /\ Cardinality(DOMAIN OutcomesOn(rp, r, "expected")) = 2
                      /\ Image(OutcomesOn(rp, r, "expected")) = {"confirmed"}
<1>1. Term(g) = Term(f)
  BY TargetStays DEF Term
<1>2. /\ InSpecialContact(f, rf) <=> Term(f) = "sep" /\ f.state = "expected" /\ BoundInScope(f, rf, r) /\ Two(rf)
      /\ InSpecialContact(g, rg) <=> Term(f) = "sep" /\ f.state = "expected" /\ BoundInScope(g, rg, r) /\ Two(rg)
  BY <1>1 DEF InSpecialContact
<1>3. BoundInScope(g, rg, r) <=> BoundInScope(f, rf, r)
  BY ScopeKept
<1>4. BoundInScope(f, rf, r) => r \in DOMAIN plan.rule
  BY DEF BoundInScope, Bound
<1>5. f.state = "expected" /\ r \in DOMAIN plan.rule => (Two(rg) <=> Two(rf))
  BY KnownOutcomesKept
<1> HIDE DEF Two
<1> QED
  BY <1>2, <1>3, <1>4, <1>5

\* What a definite check of the date of graduation rests on.
GraduationFound(f, rp) ==
  LET source == <<PathOf(f.basis), f.state, Term(f)>>
      dates == OutcomesOn(rp, source, GraduationField(f))
      s == CHOOSE x \in Image(dates) : TRUE
  IN /\ f.basis \notin ReviewBases /\ PathOf(f.basis) # NoName /\ f.state \in {"completed", "expected"}
     /\ Unknown \notin {f.basis, f.state, GraduationDate(f)}
     /\ BoundInScope(f, rp, source) /\ Cardinality(DOMAIN dates) = 1 /\ ~InSpecialContact(f, rp)
     /\ Verdict(s) \in Definite
     /\ GraduationCheck(f, rp) = Check("graduation", Verdict(s), {source})

\* A definite check of the date is the last of the alternatives.
LEMMA GraduationParts ==
  ASSUME NEW f, NEW rp, GraduationCheck(f, rp).status \in Definite
  PROVE  GraduationFound(f, rp)
<1> DEFINE source == <<PathOf(f.basis), f.state, Term(f)>>
           dates == OutcomesOn(rp, source, GraduationField(f))
           s == CHOOSE x \in Image(dates) : TRUE
           usable == /\ PathOf(f.basis) # NoName /\ f.state \in {"completed", "expected"}
                     /\ BoundInScope(f, rp, source)
           contact == <<PathOf(f.basis), "special-contact", "sep">>
           c == GraduationCheck(f, rp)
<1>1. c = IF f.basis \in ReviewBases THEN Check("graduation", "needs_information", {})
          ELSE IF Unknown \in {f.basis, f.state, GraduationDate(f)}
          THEN Check("graduation", "needs_information", IF usable THEN {source} ELSE {})
          ELSE IF ~usable \/ Cardinality(DOMAIN dates) # 1 THEN Check("graduation", "not_covered", {})
          ELSE IF InSpecialContact(f, rp) THEN Check("graduation", "needs_information", {contact})
          ELSE Check("graduation", Verdict(s), {source})
  BY DEF GraduationCheck
<1>2. \A rules : Check("graduation", "needs_information", rules).status \notin Definite
                 /\ Check("graduation", "not_covered", rules).status \notin Definite
  BY DEF Check, Definite
<1>3. Check("graduation", Verdict(s), {source}).status = Verdict(s)
  BY DEF Check
<1> DEFINE asked == Unknown \in {f.basis, f.state, GraduationDate(f)}
           one == Cardinality(DOMAIN dates) = 1
           v == Verdict(s)
           S == {source}
<1>4. c.status \in Definite
  OBVIOUS
<1>5. /\ f.basis \notin ReviewBases /\ ~asked /\ usable /\ one /\ ~InSpecialContact(f, rp)
      /\ c = Check("graduation", v, S)
  <2> HIDE DEF c, asked, one, v, S, usable, contact
  <2>1. c = IF f.basis \in ReviewBases THEN Check("graduation", "needs_information", {})
            ELSE IF asked THEN Check("graduation", "needs_information", IF usable THEN S ELSE {})
            ELSE IF ~usable \/ ~one THEN Check("graduation", "not_covered", {})
            ELSE IF InSpecialContact(f, rp) THEN Check("graduation", "needs_information", {contact})
            ELSE Check("graduation", v, S)
    BY <1>1 DEF asked, one, v, S
  <2> QED
    BY <1>2, <1>4, <2>1
<1>6. v \in Definite
  BY <1>3, <1>4, <1>5
<1> QED
  BY <1>5, <1>6 DEF GraduationFound

\* The date of graduation.
LEMMA GraduationKept ==
  ASSUME Detailed, NEW f, NEW g, FillsIn(f, g), GraduationCheck(f, ReportFor(f)).status \in Definite
  PROVE  GraduationCheck(g, ReportFor(g)) = GraduationCheck(f, ReportFor(f))
<1> DEFINE source == <<PathOf(f.basis), f.state, Term(f)>>
           rf == ReportFor(f)
           rg == ReportFor(g)
           field == GraduationField(f)
           dates == OutcomesOn(rf, source, field)
           s == CHOOSE x \in Image(dates) : TRUE
<1>1. /\ f.basis \notin ReviewBases /\ PathOf(f.basis) # NoName /\ f.state \in {"completed", "expected"}
      /\ Unknown \notin {f.basis, f.state, GraduationDate(f)}
      /\ BoundInScope(f, rf, source) /\ Cardinality(DOMAIN dates) = 1 /\ ~InSpecialContact(f, rf)
      /\ Verdict(s) \in Definite
      /\ GraduationCheck(f, rf) = Check("graduation", Verdict(s), {source})
  BY GraduationParts DEF GraduationFound
<1>2. f.basis # Unknown /\ f.state # Unknown /\ field \in {"completed", "expected"}
      /\ GraduationDate(f) = f[field] /\ f[field] # Unknown /\ field = f.state
  BY <1>1 DEF GraduationDate, GraduationField
<1>3. {"basis", "state", "completed", "expected"} \subseteq DOMAIN f
  BY FormsAssumption DEF FillsIn, FormFields, AnswerFields
<1>4. g.basis = f.basis /\ g.state = f.state /\ g[field] = f[field]
  BY <1>2, <1>3 DEF FillsIn
<1>5. Term(g) = Term(f) /\ GraduationField(g) = field /\ GraduationDate(g) = f[field]
  BY <1>1, <1>2, <1>4, TargetStays DEF Term, GraduationField, GraduationDate
<1>6. source \in DOMAIN plan.rule
  BY <1>1 DEF BoundInScope, Bound
<1>7. Image(dates) # {"needs_information"} /\ s \in Image(dates) /\ s # "needs_information"
  <2>1. DOMAIN dates # {}
    <3>1. Cardinality({}) = 0
      BY FS_EmptySet
    <3> QED
      BY <1>1, <3>1
  <2>2. Image(dates) # {}
    <3> HIDE DEF dates
    <3> QED
      BY <2>1 DEF Image
  <2>3. s \in Image(dates)
    BY <2>2
  <2>4. s # "needs_information"
    <3>1. Verdict("needs_information") = "needs_information"
      BY DEF Verdict
    <3>2. "needs_information" \notin Definite
      BY DEF Definite
    <3>3. Verdict(s) \in Definite
      BY <1>1
    <3> HIDE DEF s
    <3> QED
      BY <3>1, <3>2, <3>3
  <2> QED
    BY <2>3, <2>4
<1>8. OutcomesOn(rg, source, field) = dates
  BY <1>6, <1>7, OutcomesKept
<1>9. ProfileValue(DemoApplicantProfile(f), field) # Unknown
  BY <1>6, <1>7, OutcomeIsKnown
<1>10. ~InSpecialContact(g, rg)
  <2>1. f.state = "expected" => ProfileValue(DemoApplicantProfile(f), "expected") # Unknown
    BY <1>2, <1>9
  <2> QED
    BY <1>1, <1>4, <2>1, SpecialContactKept
<1>11. BoundInScope(g, rg, source)
  BY <1>1, ScopeKept
<1> HIDE DEF rg, rf
<1>12. GraduationCheck(g, rg) = Check("graduation", Verdict(s), {source})
  <2> DEFINE sourceG == <<PathOf(g.basis), g.state, Term(g)>>
             datesG == OutcomesOn(rg, sourceG, GraduationField(g))
             sG == CHOOSE x \in Image(datesG) : TRUE
  <2>1. sourceG = source
    BY <1>4, <1>5
  <2>2. datesG = dates /\ sG = s
    BY <1>5, <1>8, <2>1
  <2>3. /\ g.basis \notin ReviewBases /\ Unknown \notin {g.basis, g.state, GraduationDate(g)}
        /\ PathOf(g.basis) # NoName /\ g.state \in {"completed", "expected"} /\ BoundInScope(g, rg, sourceG)
        /\ Cardinality(DOMAIN datesG) = 1
    BY <1>1, <1>2, <1>4, <1>5, <1>11, <2>1, <2>2
  <2>4. GraduationCheck(g, rg) = Check("graduation", Verdict(sG), {sourceG})
    BY <1>10, <2>3 DEF GraduationCheck
  <2> HIDE DEF sourceG, datesG, sG, source, s
  <2> QED
    BY <2>1, <2>2, <2>4
<1> QED
  BY <1>1, <1>12 DEF rf, rg

\* The day the materials arrive.
LEMMA ArrivalKept ==
  ASSUME Detailed, NEW f, NEW g, FillsIn(f, g), ArrivalCheck(f, ReportFor(f)).status \in Definite
  PROVE  ArrivalCheck(g, ReportFor(g)) = ArrivalCheck(f, ReportFor(f))
<1> DEFINE r == <<"materials-arrival-window", Term(f)>>
           rf == ReportFor(f)
           rg == ReportFor(g)
           window == OutcomesOn(rf, r, "arrival")
           At(op) == {window[q] : q \in {x \in DOMAIN window : x.op = op}}
           Seen == IF Image(window) = {"confirmed"} THEN "reported_match"
                   ELSE IF "not_applicable" \in Image(window) THEN "action_needed" ELSE "needs_information"
<1>1. ArrivalCheck(f, rf)
        = IF ~BoundInScope(f, rf, r) THEN Check("arrival", "not_covered", {})
          ELSE IF f.arrival = Unknown THEN Check("arrival", "needs_information", {r})
          ELSE IF {} \in {At("on_or_after"), At("on_or_before")} THEN Check("arrival", "not_covered", {})
          ELSE Check("arrival", Seen, {r})
  BY DEF ArrivalCheck
<1>2. /\ BoundInScope(f, rf, r) /\ f.arrival # Unknown
      /\ ~({} \in {At("on_or_after"), At("on_or_before")}) /\ Seen \in Definite
      /\ ArrivalCheck(f, rf) = Check("arrival", Seen, {r})
  <2>1. \A rules : Check("arrival", "needs_information", rules).status \notin Definite
                   /\ Check("arrival", "not_covered", rules).status \notin Definite
    BY DEF Check, Definite
  <2>2. Check("arrival", Seen, {r}).status = Seen
    BY DEF Check
  <2> DEFINE gap == {} \in {At("on_or_after"), At("on_or_before")}
             c == ArrivalCheck(f, rf)
             made == Check("arrival", Seen, {r})
  <2>3. c.status \in Definite
    OBVIOUS
  <2>4. c = IF ~BoundInScope(f, rf, r) THEN Check("arrival", "not_covered", {})
            ELSE IF f.arrival = Unknown THEN Check("arrival", "needs_information", {r})
            ELSE IF gap THEN Check("arrival", "not_covered", {}) ELSE made
    BY <1>1
  <2>5. BoundInScope(f, rf, r) /\ f.arrival # Unknown /\ ~gap /\ c = made
    <3> HIDE DEF gap, c, made, rf
    <3> QED
      BY <2>1, <2>3, <2>4
  <2>6. Seen \in Definite
    <3> HIDE DEF Seen
    <3> QED
      BY <2>2, <2>3, <2>5
  <2> QED
    BY <2>5, <2>6
<1>3. g.arrival = f.arrival /\ Term(g) = Term(f)
  <2>1. "arrival" \in DOMAIN f
    BY FormsAssumption DEF FillsIn, FormFields, AnswerFields
  <2> QED
    BY <1>2, <2>1, TargetStays DEF FillsIn, Term
<1>4. r \in DOMAIN plan.rule /\ BoundInScope(g, rg, r)
  BY <1>2, ScopeKept DEF BoundInScope, Bound
<1>5. OutcomesOn(rg, r, "arrival") = window
  <2>1. Image(window) # {"needs_information"}
    BY <1>2 DEF Definite
  <2> QED
    BY <1>4, <2>1, OutcomesKept
<1>6. ArrivalCheck(g, rg)
        = IF ~BoundInScope(g, rg, r) THEN Check("arrival", "not_covered", {})
          ELSE IF g.arrival = Unknown THEN Check("arrival", "needs_information", {r})
          ELSE IF {} \in {At("on_or_after"), At("on_or_before")} THEN Check("arrival", "not_covered", {})
          ELSE Check("arrival", Seen, {r})
  <2> DEFINE windowG == OutcomesOn(rg, <<"materials-arrival-window", Term(g)>>, "arrival")
             AtG(op) == {windowG[q] : q \in {x \in DOMAIN windowG : x.op = op}}
             SeenG == IF Image(windowG) = {"confirmed"} THEN "reported_match"
                      ELSE IF "not_applicable" \in Image(windowG) THEN "action_needed" ELSE "needs_information"
             rG == <<"materials-arrival-window", Term(g)>>
  <2>1. ArrivalCheck(g, rg)
          = IF ~BoundInScope(g, rg, rG) THEN Check("arrival", "not_covered", {})
            ELSE IF g.arrival = Unknown THEN Check("arrival", "needs_information", {rG})
            ELSE IF {} \in {AtG("on_or_after"), AtG("on_or_before")} THEN Check("arrival", "not_covered", {})
            ELSE Check("arrival", SeenG, {rG})
    BY DEF ArrivalCheck
  <2>2. rG = r /\ windowG = window
    BY <1>3, <1>5
  <2>3. AtG("on_or_after") = At("on_or_after") /\ AtG("on_or_before") = At("on_or_before") /\ SeenG = Seen
    <3> HIDE DEF window, windowG
    <3> QED
      BY <2>2
  <2> HIDE DEF At, AtG, Seen, SeenG, rG, r, rg
  <2> QED
    BY <2>1, <2>2, <2>3
<1> HIDE DEF At, Seen, rf, rg, window
<1> QED
  BY <1>2, <1>3, <1>4, <1>6 DEF rf, rg

\* The steps that are taken online.
LEMMA OnlineKept ==
  ASSUME Detailed, NEW f, NEW g, FillsIn(f, g), OnlineCheck(f, ReportFor(f)).status \in Definite
  PROVE  OnlineCheck(g, ReportFor(g)) = OnlineCheck(f, ReportFor(f))
<1> DEFINE r == <<"online-steps", Term(f)>>
           rf == ReportFor(f)
           rg == ReportFor(g)
           Done(h, rp) == IF h.online = TRUE /\ rp.decisions[r].status = "confirmed" THEN "reported_match"
                          ELSE IF h.online = FALSE THEN "action_needed" ELSE "needs_information"
<1>1. Term(g) = Term(f)
  BY TargetStays DEF Term
<1>2. /\ OnlineCheck(f, rf) = IF ~BoundInScope(f, rf, r) THEN Check("online", "not_covered", {})
                              ELSE Check("online", Done(f, rf), {r})
      /\ OnlineCheck(g, rg) = IF ~BoundInScope(g, rg, r) THEN Check("online", "not_covered", {})
                              ELSE Check("online", Done(g, rg), {r})
  BY <1>1 DEF OnlineCheck
<1>3. BoundInScope(f, rf, r) /\ Done(f, rf) \in Definite
  <2> HIDE DEF Done
  <2> QED
    BY <1>2 DEF Check, Definite
<1>4. r \in DOMAIN plan.rule /\ BoundInScope(g, rg, r)
  BY <1>3, ScopeKept DEF BoundInScope, Bound
<1>5. f.online \in BOOLEAN /\ g.online = f.online
  <2>1. f.online \in BOOLEAN
    BY <1>3 DEF Definite
  <2>2. f.online # Unknown
    BY <2>1, FormsAssumption
  <2>3. "online" \in DOMAIN f
    BY FormsAssumption DEF FillsIn, FormFields, AnswerFields
  <2> QED
    BY <2>1, <2>2, <2>3 DEF FillsIn
<1>6. Done(g, rg) = Done(f, rf)
  <2>1. rf.decisions[r].status = "confirmed" => rg.decisions[r].status = "confirmed"
    BY <1>4, RulesKept DEF KeptOf
  <2>2. f.online = TRUE => rf.decisions[r].status = "confirmed"
    BY <1>3 DEF Definite
  <2> QED
    BY <1>5, <2>1, <2>2
<1> HIDE DEF Done
<1> QED
  BY <1>2, <1>3, <1>4, <1>6

\* The review an applicant of a review basis asks for.
LEMMA ReviewKept ==
  ASSUME NEW f, NEW g, FillsIn(f, g), ReviewCheck(f).status \in Definite
  PROVE  ReviewCheck(g).id = ReviewCheck(f).id /\ ReviewCheck(g).status = ReviewCheck(f).status
<1>1. f.review = "not_requested"
  BY DEF ReviewCheck, Check, Definite
<1>2. f.review # Unknown
  BY <1>1, FormsAssumption
<1>3. "review" \in DOMAIN f
  BY FormsAssumption DEF FillsIn, FormFields
<1>4. g.review = "not_requested"
  BY <1>1, <1>2, <1>3 DEF FillsIn
<1> QED
  BY <1>1, <1>4 DEF ReviewCheck, Check

\* The application section.
LEMMA ApplicationKept ==
  ASSUME Detailed, NEW f, NEW g, FillsIn(f, g), NEW c \in ApplicationChecks(f, ReportFor(f)), c.status \in Definite
  PROVE  \E e \in ApplicationChecks(g, ReportFor(g)) : e.id = c.id /\ e.status = c.status
<1> DEFINE rf == ReportFor(f)
           rg == ReportFor(g)
           covered == plan.document = DetailedDocument /\ plan.kb = DetailedKb
<1>1. \A h, rp : ApplicationChecks(h, rp)
                   = IF ~covered THEN {Check("coverage", "not_covered", {})}
                     ELSE {GraduationCheck(h, rp), ArrivalCheck(h, rp), OnlineCheck(h, rp)}
                          \cup {ReviewCheck(h) : x \in {h.basis} \cap ReviewBases}
  BY DEF ApplicationChecks
<1>2. covered
  <2>1. Check("coverage", "not_covered", {}).status \notin Definite
    BY DEF Check, Definite
  <2> HIDE DEF covered
  <2> QED
    BY <1>1, <2>1
<1> HIDE DEF covered
<1>3. \/ c = GraduationCheck(f, rf) \/ c = ArrivalCheck(f, rf) \/ c = OnlineCheck(f, rf)
      \/ c = ReviewCheck(f) /\ f.basis \in ReviewBases
  BY <1>1, <1>2
<1>4. \A e : \/ e = GraduationCheck(g, rg) \/ e = ArrivalCheck(g, rg) \/ e = OnlineCheck(g, rg)
             \/ e = ReviewCheck(g) /\ g.basis \in ReviewBases
             => e \in ApplicationChecks(g, rg)
  <2> SUFFICES ASSUME NEW e, \/ e = GraduationCheck(g, rg) \/ e = ArrivalCheck(g, rg) \/ e = OnlineCheck(g, rg)
                             \/ e = ReviewCheck(g) /\ g.basis \in ReviewBases
               PROVE  e \in ApplicationChecks(g, rg)
    BY Zenon
  <2> QED
    BY <1>1, <1>2
<1> HIDE DEF rf, rg
<1>5. CASE c = GraduationCheck(f, rf)
  BY <1>4, <1>5, GraduationKept DEF rf, rg
<1>6. CASE c = ArrivalCheck(f, rf)
  BY <1>4, <1>6, ArrivalKept DEF rf, rg
<1>7. CASE c = OnlineCheck(f, rf)
  BY <1>4, <1>7, OnlineKept DEF rf, rg
<1>8. CASE c = ReviewCheck(f) /\ f.basis \in ReviewBases
  <2>1. g.basis = f.basis
    <3>1. f.basis # Unknown
      BY <1>8, FormsAssumption
    <3>2. "basis" \in DOMAIN f
      BY FormsAssumption DEF FillsIn, FormFields, AnswerFields
    <3> QED
      BY <3>1, <3>2 DEF FillsIn
  <2>2. ReviewCheck(g) \in ApplicationChecks(g, rg)
    BY <1>4, <1>8, <2>1
  <2>3. ReviewCheck(g).id = c.id /\ ReviewCheck(g).status = c.status
    BY <1>8, ReviewKept
  <2> QED
    BY <2>2, <2>3 DEF rg
<1> QED
  BY <1>3, <1>5, <1>6, <1>7, <1>8

\* Both sections.
LEMMA PreparationKept ==
  ASSUME Detailed, NEW f, NEW g, FillsIn(f, g), NEW c \in PreparationChecks(f, ReportFor(f)), c.status \in Definite
  PROVE  \E e \in PreparationChecks(g, ReportFor(g)) : e.id = c.id /\ e.status = c.status
<1>1. g.english = f.english /\ g.application = f.application
  BY TargetStays
<1>2. \A h, rp : PreparationChecks(h, rp) = (IF h.english THEN EnglishChecks(h, rp) ELSE {})
                                            \cup (IF h.application THEN ApplicationChecks(h, rp) ELSE {})
  BY DEF PreparationChecks
<1>3. CASE f.english /\ c \in EnglishChecks(f, ReportFor(f))
  <2>1. c \in EnglishChecks(g, ReportFor(g))
    BY <1>3, EnglishKept
  <2> QED
    BY <1>1, <1>2, <1>3, <2>1
<1>4. CASE f.application /\ c \in ApplicationChecks(f, ReportFor(f))
  <2>1. \E e \in ApplicationChecks(g, ReportFor(g)) : e.id = c.id /\ e.status = c.status
    BY <1>4, ApplicationKept
  <2> QED
    BY <1>1, <1>2, <1>4, <2>1
<1> QED
  BY <1>2, <1>3, <1>4

\* The checks are written for one document: about another, none says anything.
LEMMA NothingChecked ==
  ASSUME NEW f, NEW rp, f.document = plan.document, plan.document # DetailedDocument,
         NEW c \in PreparationChecks(f, rp)
  PROVE  c.status \notin Definite
<1>1. EnglishChecks(f, rp) = {Check("coverage of English", "not_covered", {})}
  BY DEF EnglishChecks
<1>2. ApplicationChecks(f, rp) = {Check("coverage", "not_covered", {})}
  BY DEF ApplicationChecks
<1>3. c \in EnglishChecks(f, rp) \cup ApplicationChecks(f, rp)
  BY DEF PreparationChecks
<1>4. c = Check("coverage of English", "not_covered", {}) \/ c = Check("coverage", "not_covered", {})
  BY <1>1, <1>2, <1>3
<1>5. Check("coverage of English", "not_covered", {}).status = "not_covered"
      /\ Check("coverage", "not_covered", {}).status = "not_covered"
  BY DEF Check
<1>6. "not_covered" \notin Definite
  BY DEF Definite
<1> QED
  BY <1>4, <1>5, <1>6

\* Only one check is about the graduation.
LEMMA AboutGraduation ==
  ASSUME NEW f, NEW rp, NEW c \in PreparationChecks(f, rp), c.id = "graduation"
  PROVE  c = GraduationCheck(f, rp)
<1>1. \A id, status, rules : Check(id, status, rules).id = id
  BY DEF Check
<1>2. \A field, r, value : AnswerCheck(f, rp, field, r, value).id = field
  <2> SUFFICES ASSUME NEW field, NEW r, NEW value PROVE AnswerCheck(f, rp, field, r, value).id = field
    OBVIOUS
  <2>1. \/ AnswerCheck(f, rp, field, r, value) = Check(field, "not_covered", {})
        \/ \E status : AnswerCheck(f, rp, field, r, value) = Check(field, status, {r})
    BY Zenon DEF AnswerCheck
  <2> QED
    BY <1>1, <2>1
<1>3. KindCheck(f, rp).id = "kind"
  <2> DEFINE refused == <<"unapproved-kind", f.kind, Term(f)>>
             approved == <<"approved-kind", f.kind, Term(f)>>
  <2>1. \/ KindCheck(f, rp) = Check("kind", "needs_information", {})
        \/ KindCheck(f, rp) = AnswerCheck(f, rp, "kind", approved, f.kind)
        \/ KindCheck(f, rp) = Check("kind", "action_needed", {refused})
        \/ KindCheck(f, rp) = AnswerCheck(f, rp, "kind", refused, f.kind)
    BY Zenon DEF KindCheck
  <2> HIDE DEF refused, approved
  <2> QED
    BY <1>1, <1>2, <2>1
<1>4. \A e \in ProofChecks(f, rp) : e.id # "graduation"
  <2> DEFINE a1 == AnswerCheck(f, rp, "taken", <<"test-date", Term(f)>>, 1)
             a2 == AnswerCheck(f, rp, "pdf", <<"online-pdf", Term(f)>>, TRUE)
             a3 == AnswerCheck(f, rp, "qr", <<"toeic-qr", Term(f)>>, TRUE)
             a4 == AnswerCheck(f, rp, "certificate", <<"toeic-certificate", Term(f)>>, TRUE)
             a5 == AnswerCheck(f, rp, "report", <<"report", f.kind, Term(f)>>, TRUE)
             a6 == AnswerCheck(f, rp, "g179", <<"g179", f.kind, Term(f)>>, TRUE)
  <2>1. ProofChecks(f, rp) = {a1, a2} \cup (IF f.kind = "toeic" THEN {a3, a4} ELSE {a5, a6})
    BY DEF ProofChecks
  <2>2. a1.id = "taken" /\ a2.id = "pdf" /\ a3.id = "qr" /\ a4.id = "certificate" /\ a5.id = "report" /\ a6.id = "g179"
    BY <1>2, Zenon
  <2> HIDE DEF a1, a2, a3, a4, a5, a6
  <2> QED
    BY <2>1, <2>2
<1>5. \A e \in EnglishChecks(f, rp) : e.id # "graduation"
  <2> DEFINE math == <<"math-written-exam", Term(f)>>
             inMath == BoundInScope(f, rp, math) /\ rp.decisions[math].status = "confirmed"
             elsewhere == f.document # DetailedDocument \/ plan.document # f.document
  <2>1. EnglishChecks(f, rp)
          = IF elsewhere THEN {Check("coverage of English", "not_covered", {})}
            ELSE IF inMath THEN {Check("math", "not_applicable", {math})}
            ELSE {KindCheck(f, rp)} \cup (IF KindCheck(f, rp).status = "reported_match" THEN ProofChecks(f, rp) ELSE {})
    BY DEF EnglishChecks
  <2> DEFINE none == Check("coverage of English", "not_covered", {})
             told == Check("math", "not_applicable", {math})
  <2>2. none.id = "coverage of English" /\ told.id = "math"
    BY <1>1, Zenon
  <2> HIDE DEF inMath, elsewhere, math, none, told
  <2>3. EnglishChecks(f, rp) \subseteq {none, told, KindCheck(f, rp)} \cup ProofChecks(f, rp)
    BY <2>1 DEF none, told
  <2> QED
    BY <1>3, <1>4, <2>2, <2>3
<1>6. /\ ArrivalCheck(f, rp).id = "arrival" /\ OnlineCheck(f, rp).id = "online"
  <2>1. \E status, rules : ArrivalCheck(f, rp) = Check("arrival", status, rules)
    BY Zenon DEF ArrivalCheck
  <2>2. \E status, rules : OnlineCheck(f, rp) = Check("online", status, rules)
    BY Zenon DEF OnlineCheck
  <2> QED
    BY <1>1, <2>1, <2>2
<1>7. ReviewCheck(f).id = "review"
  BY DEF ReviewCheck, Check
<1>8. c \in ApplicationChecks(f, rp)
  BY <1>5 DEF PreparationChecks
<1>9. \/ c = Check("coverage", "not_covered", {})
      \/ c \in {GraduationCheck(f, rp), ArrivalCheck(f, rp), OnlineCheck(f, rp), ReviewCheck(f)}
  BY <1>8 DEF ApplicationChecks
<1> QED
  BY <1>1, <1>6, <1>7, <1>9

\* A rule is confirmed when its scope and its conditions are.
LEMMA ConfirmedDecision ==
  ASSUME NEW mode, NEW outcomes, NEW scope, NEW diagnostics,
         DecidedStatus(mode, outcomes, scope, diagnostics) = "confirmed"
  PROVE  scope = "confirmed" /\ Combine(mode, outcomes) = "confirmed"
<1>1. CombineWithScope(Combine(mode, outcomes), scope) = "confirmed"
  BY DEF DecidedStatus
<1> DEFINE m == Combine(mode, outcomes)
<1> HIDE DEF m
<1>2. CombineWithScope(m, scope) = "confirmed"
  BY <1>1 DEF m
<1>3. {m, scope} = {"confirmed"}
  BY <1>2 DEF CombineWithScope
<1> QED
  BY <1>3 DEF m

\* A rule in force matches the target the form tells.
LEMMA ConfirmedMatches ==
  ASSUME Detailed, PlanAccepted(plan), NEW f \in Forms, NEW r \in DOMAIN plan.rule,
         DecisionOf(f, r).status = "confirmed"
  PROVE  RuleMatchesTarget(plan.rule[r], f)
<1> DEFINE p == DemoApplicantProfile(f)
           rule == plan.rule[r]
           sc == EvaluateScope(p, request.query, rule.scope)
           o == Outcomes(p, rule)
           dg == Diagnostics(p, request.query, Pack, rule)
           d == Decision(p, request.query, Pack, rule)
<1>1. d = DecisionOf(f, r) /\ d.status = DecidedStatus(rule.mode, Image(o), sc, dg)
  BY DEF Decision, DecisionOf
<1>2. sc = "confirmed" /\ Combine(rule.mode, Image(o)) = "confirmed"
  <2> HIDE DEF d, o, sc, dg
  <2> QED
    BY <1>1, ConfirmedDecision
<1>3. /\ rule.mode = "all" /\ rule.scope.type \in {"global", "department", "program"}
      /\ \A q \in rule.predicates : q.field \in TargetFields => q.op \in {"equals", "not_equals"}
  <2>1. rule.mode = "all" /\ rule.scope.type # "college"
        /\ \A q \in rule.predicates : q.field \in TargetFields => q.op \in {"equals", "not_equals"}
    BY DetailedPlan DEF DetailedPlanReviewed
  <2>2. rule.scope.type \in DOMAIN Specificity
    BY DecisionsAssumption DEF Detailed, plan
  <2> QED
    BY <2>1, <2>2 DEF Specificity
<1>4. ScopeAccepted(rule.scope)
  BY DEF PlanAccepted, RuleAccepted
<1>5. f.college # NoName /\ f.dept # NoName /\ p.target = f.dept /\ p.college = f.college
  BY FormsAssumption, ProfileOfForm
<1> HIDE DEF p, rule
<1>6. rule.scope.parent \in {NoName, f.college} /\ (rule.scope.targets = {} \/ f.dept \in rule.scope.targets)
  <2>1. CASE rule.scope.type = "global"
    BY <1>4, <2>1 DEF ScopeAccepted
  <2>2. CASE rule.scope.type \in {"department", "program"}
    <3> DEFINE ofTargets == MatchScope(rule.scope.targets, Set(f.dept))
               ofParent == MatchScope({rule.scope.parent}, Set(f.college))
               parts == (IF rule.scope.targets # {} THEN {ofTargets} ELSE {})
                        \cup (IF rule.scope.parent # NoName /\ Set(f.college) # {} THEN {ofParent} ELSE {})
    <3>1. CombineScopeComponents(parts) = "confirmed"
      BY <1>2, <1>5, <2>2 DEF EvaluateScope
    <3>2. parts = {"confirmed"}
      <4> HIDE DEF parts
      <4> QED
        BY <3>1 DEF CombineScopeComponents
    <3>3. Set(f.college) = {f.college} /\ Set(f.dept) = {f.dept}
      BY <1>5 DEF Set
    <3>4. rule.scope.targets # {} => ofTargets = "confirmed"
      BY <3>2
    <3>5. rule.scope.parent # NoName => ofParent = "confirmed"
      <4>1. Set(f.college) # {}
        BY <3>3
      <4> HIDE DEF ofTargets, ofParent
      <4> QED
        BY <3>2, <4>1
    <3> HIDE DEF parts
    <3> QED
      BY <3>3, <3>4, <3>5 DEF MatchScope
  <2> QED
    BY <1>3, <2>1, <2>2
<1>7. ASSUME NEW q \in rule.predicates, q.field \in TargetFields PROVE PredicateAccepts(f[q.field], q)
  <2>1. PredicateStatus(p, q) = "confirmed"
    <3>1. Image(o) = {PredicateStatus(p, x) : x \in rule.predicates}
      BY ImageOfOutcomes
    <3> HIDE DEF o
    <3>2. Image(o) \subseteq {"confirmed"}
      BY <1>2, <1>3 DEF Combine
    <3> QED
      BY <3>1, <3>2
  <2>2. ProfileValue(p, q.field) # Unknown /\ Compare(ProfileValue(p, q.field), q.op, q.value)
    BY <2>1 DEF PredicateStatus
  <2>3. p.facts[q.field] # Unknown /\ ProfileValue(p, q.field) = p.facts[q.field]
    BY <2>2 DEF ProfileValue
  <2>4. p.facts[q.field] = IF q.field \in NeverAsked \/ f[q.field] = NoName THEN Unknown ELSE f[q.field]
    BY <1>7, ProfileOfForm DEF p
  <2>5. ProfileValue(p, q.field) = f[q.field]
    BY <2>3, <2>4
  <2>6. q.op \in {"equals", "not_equals"}
    BY <1>3, <1>7
  <2> DEFINE v == f[q.field]
  <2>7. Compare(v, q.op, q.value)
    BY <2>2, <2>5
  <2> HIDE DEF v
  <2>8. PredicateAccepts(v, q)
    BY <2>6, <2>7 DEF Compare, PredicateAccepts
  <2> QED
    BY <2>8 DEF v
<1>8. RuleMatchesTarget(rule, f)
  BY <1>6, <1>7 DEF RuleMatchesTarget
<1> QED
  BY <1>8 DEF rule

-----------------------------------------------------------------------------
(* What the demo shows and answers, step by step.                           *)

DemoReport == [decisions |-> decisions, resolution |-> resolution, analysis |-> analysis]

ShownHeld ==
  base # {} => /\ FromDemo /\ TargetOffered(plan, form)
               /\ {q \in base : q.category = "materials"} \subseteq MaterialRequirements

UndecidedHeld == stage \in {"asked", "planned", "audited", "prepared"} => decisions = <<>>

ComparedHeld ==
  comparison # <<>> =>
    /\ stage = "compared" /\ FromDemo /\ base # {}
    /\ comparison = [items |-> ComparisonItems(form, base), checks |-> PreparationChecks(form, DemoReport)]
    /\ IF AsksReport(form) THEN DemoReport = ReportFor(form) ELSE decisions = <<>>

ComparedInv == ShownHeld /\ UndecidedHeld /\ ComparedHeld

\* The same items are compared with the same plan.
LEMMA SameItems ==
  ASSUME UNCHANGED request PROVE \A f, shown : ComparisonItems(f, shown)' = ComparisonItems(f, shown)
<1>1. plan' = plan
  BY DEF plan
<1>2. \A f : QualificationRules(f)' = QualificationRules(f)
  BY <1>1 DEF QualificationRules
<1>3. \A f : EducationStatus(f)' = EducationStatus(f)
  BY <1>2 DEF EducationStatus
<1>4. \A rules : RulesEvidence(rules)' = RulesEvidence(rules)
  BY <1>1 DEF RulesEvidence
<1>5. TAKE f, shown
<1>6. RulesEvidence(QualificationRules(f))' = RulesEvidence(QualificationRules(f))
  BY <1>2, <1>4
<1> QED
  BY <1>1, <1>3, <1>6, Zenon DEF ComparisonItems

\* The same checks are made of the same plan, evidence and report.
LEMMA SameChecks ==
  ASSUME UNCHANGED <<request, bundle>> PROVE \A f, rp : PreparationChecks(f, rp)' = PreparationChecks(f, rp)
<1>1. plan' = plan
  BY DEF plan
<1>2. \A f, rp, r : Bound(f, rp, r)' <=> Bound(f, rp, r)
  BY <1>1 DEF Bound
<1>3. \A f, rp, r : BoundInScope(f, rp, r)' <=> BoundInScope(f, rp, r)
  BY <1>2 DEF BoundInScope
<1>4. \A f, rp : InSpecialContact(f, rp)' <=> InSpecialContact(f, rp)
  BY <1>3, Zenon DEF InSpecialContact
<1>5. \A f, rp : GraduationCheck(f, rp)' = GraduationCheck(f, rp)
  <2> TAKE f, rp
  <2> DEFINE source == <<PathOf(f.basis), f.state, Term(f)>>
  <2>1. BoundInScope(f, rp, source)' <=> BoundInScope(f, rp, source)
    BY <1>3
  <2>2. InSpecialContact(f, rp)' <=> InSpecialContact(f, rp)
    BY <1>4
  <2> QED
    BY <2>1, <2>2 DEF GraduationCheck
<1>6. \A f, rp : ArrivalCheck(f, rp)' = ArrivalCheck(f, rp)
  BY <1>3, Zenon DEF ArrivalCheck
<1>7. \A f, rp : OnlineCheck(f, rp)' = OnlineCheck(f, rp)
  BY <1>3, Zenon DEF OnlineCheck
<1>8. \A f : ReviewCheck(f)' = ReviewCheck(f)
  BY <1>1 DEF ReviewCheck, QualificationRules
<1>9. \A f, rp : ApplicationChecks(f, rp)' = ApplicationChecks(f, rp)
  BY <1>1, <1>5, <1>6, <1>7, <1>8, Zenon DEF ApplicationChecks
<1>10. \A f, rp, r, field, value : BoundTo(f, rp, r, field, value)' <=> BoundTo(f, rp, r, field, value)
  BY <1>1, <1>2 DEF BoundTo
<1>11. \A f, rp, field, r, value : AnswerCheck(f, rp, field, r, value)' = AnswerCheck(f, rp, field, r, value)
  <2> TAKE f, rp, field, r, value
  <2>1. BoundTo(f, rp, r, field, value)' <=> BoundTo(f, rp, r, field, value)
    BY <1>10
  <2> QED
    BY <2>1 DEF AnswerCheck
<1>12. \A f, rp : KindCheck(f, rp)' = KindCheck(f, rp)
  BY <1>10, <1>11, Zenon DEF KindCheck
<1>13. \A f, rp : ProofChecks(f, rp)' = ProofChecks(f, rp)
  BY <1>11, Zenon DEF ProofChecks
<1>14. \A f, rp : EnglishChecks(f, rp)' = EnglishChecks(f, rp)
  BY <1>1, <1>3, <1>12, <1>13, Zenon DEF EnglishChecks
<1> QED
  BY <1>9, <1>14 DEF PreparationChecks

\* What is required of everybody is of the common materials.
LEMMA MaterialsRequired ==
  ASSUME NEW f PROVE {q \in BaseRequirements(f) : q.category = "materials"} \subseteq MaterialRequirements
<1>1. \A category, of, status, facts : Requirement(category, of, status, facts).category = category
  BY DEF Requirement
<1>2. \A q \in DateRequirements(f) : q.category = "dates"
  BY <1>1 DEF DateRequirements
<1>3. \A q \in EligibilityRequirement(f) : q.category = "eligibility"
  <2> DEFINE r == CHOOSE x \in Matching(f, {"direct-path-1"}) : TRUE
             asked == Requirement("eligibility", r, "needs_information", plan.rule[r].bindings)
  <2>1. asked.category = "eligibility"
    BY <1>1, Zenon
  <2>2. EligibilityRequirement(f) = IF Matching(f, {"direct-path-1"}) = {} THEN {} ELSE {asked}
    BY DEF EligibilityRequirement
  <2> HIDE DEF asked
  <2> QED
    BY <2>1, <2>2
<1>4. \A q \in LanguageRequirements(f) : q.category = "language"
  <2> DEFINE ruled == {Requirement("language", r, IF HasProfilePredicate(plan.rule[r]) THEN "conditional" ELSE "required",
                                   plan.rule[r].bindings) : r \in LanguageRules(f)}
             policies == {x \in plan.allocation : x.parent = f.college /\ x.target = f.dept}
                         \cup {x \in plan.evaluation : /\ x.parent = f.college /\ x.target = f.dept
                                                       /\ x.route \in {NoName, f.route}}
             asked == {Requirement("language", <<"policy", e.fact>>, "conditional", {e.fact}) : e \in policies}
             none == {Requirement("language", <<"nothing reviewed">>, "not_covered", {})}
  <2>1. \A q \in ruled : q.category = "language"
    BY <1>1
  <2>2. \A q \in asked : q.category = "language"
    <3> HIDE DEF policies
    <3> TAKE q \in asked
    <3>1. PICK e \in policies : q = Requirement("language", <<"policy", e.fact>>, "conditional", {e.fact})
      OBVIOUS
    <3>2. Requirement("language", <<"policy", e.fact>>, "conditional", {e.fact}).category = "language"
      BY <1>1, Zenon
    <3> QED
      BY <3>1, <3>2
  <2>3. \A q \in none : q.category = "language"
    <3>1. Requirement("language", <<"nothing reviewed">>, "not_covered", {}).category = "language"
      BY <1>1, Zenon
    <3> QED
      BY <3>1
  <2>4. \A q \in PreparationGuide(f) : q.category = "language"
    BY DEF PreparationGuide, Requirement
  <2>5. LanguageRequirements(f)
          = LET all == ruled \cup PreparationGuide(f) \cup asked IN IF all # {} THEN all ELSE none
    BY DEF LanguageRequirements
  <2> HIDE DEF ruled, asked, none
  <2> QED
    BY <2>1, <2>2, <2>3, <2>4, <2>5
<1> QED
  BY <1>2, <1>3, <1>4 DEF BaseRequirements

\* At first nothing is shown, decided or compared.
LEMMA InitComparedInv == DecisionsInit => ComparedInv
BY DEF DecisionsInit, GroundedInit, Init, DemoInit, ComparedInv, ShownHeld, UndecidedHeld, ComparedHeld

\* Requirements are shown once, at a target of the catalogue.
LEMMA StepKeepsShown ==
  ASSUME ShownHeld, [DecisionsNext]_<<allVars, demoVars>> PROVE ShownHeld'
<1>1. request' = request
  BY StepKeepsRequest
<1>2. plan' = plan /\ form' = form /\ FromDemo' = FromDemo
  BY <1>1 DEF plan, form, FromDemo
<1>3. MaterialRequirements' = MaterialRequirements
  BY <1>2 DEF MaterialRequirements
<1>4. base' = base => ShownHeld'
  BY <1>2, <1>3 DEF ShownHeld
<1>5. DemoNext => base' = base \/ (FromDemo /\ TargetOffered(plan, form) /\ base' = BaseRequirements(form))
  BY DEF DemoNext, RefuseForm, ReportForForm, ShowRequirements, CompareForm, demoVars
<1>6. UNCHANGED <<allVars, demoVars>> => base' = base
  BY DEF demoVars
<1>7. base' = base \/ (FromDemo /\ TargetOffered(plan, form) /\ base' = BaseRequirements(form))
  BY <1>5, <1>6 DEF DecisionsNext, demoVars
<1>8. CASE FromDemo /\ TargetOffered(plan, form) /\ base' = BaseRequirements(form)
  <2>1. {q \in base' : q.category = "materials"} \subseteq MaterialRequirements
    BY <1>8, MaterialsRequired
  <2> QED
    BY <1>2, <1>3, <1>8, <2>1 DEF ShownHeld
<1> QED
  BY <1>4, <1>7, <1>8

\* Nothing is decided before the evidence is prepared.
LEMMA StepKeepsUndecided ==
  ASSUME UndecidedHeld, [DecisionsNext]_<<allVars, demoVars>> PROVE UndecidedHeld'
<1> DEFINE Early(s) == s \in {"asked", "planned", "audited", "prepared"}
           Keeps == Early(stage') => Early(stage) /\ decisions' = decisions
<1>1. Keeps => UndecidedHeld'
  BY DEF UndecidedHeld
<1> USE DEF Refuse, Fail, Advance, vars
<1>2. Next => Keeps
  BY DEF Next, RewriteKb, LoadPlan, Audit, PrepareEvidence, Decide, Resolve, Analyze, BuildTrace, BuildAnswer, BuildReport
<1>3. UNCHANGED <<allVars, demoVars>> => Keeps
  BY DEF allVars
<1>4. DemoNext => Keeps
  BY <1>2 DEF DemoNext, RefuseForm, ReportForForm, ShowRequirements, CompareForm
<1>5. ReportStep \/ RewriteDuringSearch \/ SearchDocument \/ UnderstandQuestion => Keeps
  BY <1>2 DEF ReportStep, RewriteDuringSearch, SearchDocument, UnderstandQuestion
<1>6. ProjectToRetrieval \/ EvidenceTooLong \/ PrepareRequest \/ Generate \/ Ground \/ Present => Keeps
  BY DEF ProjectToRetrieval, EvidenceTooLong, PrepareRequest, Generate, Ground, Present
<1> HIDE DEF Keeps
<1> QED
  BY <1>1, <1>3, <1>4, <1>5, <1>6 DEF DecisionsNext, GroundedNext

\* What is compared is read off the report of the form, and nothing follows.
LEMMA StepKeepsCompared ==
  ASSUME ReportInv, ComparedInv, [DecisionsNext]_<<allVars, demoVars>> PROVE ComparedHeld'
<1>1. request' = request
  BY StepKeepsRequest
<1>2. plan' = plan /\ profile' = profile /\ form' = form /\ FromDemo' = FromDemo /\ AsksReport(form)' = AsksReport(form)
  BY <1>1 DEF plan, profile, form, FromDemo, AsksReport
<1>3. ASSUME UNCHANGED <<bundle, base, decisions, resolution, analysis>>
      PROVE  /\ ComparisonItems(form, base)' = ComparisonItems(form, base) /\ DemoReport' = DemoReport
             /\ PreparationChecks(form, DemoReport)' = PreparationChecks(form, DemoReport)
             /\ ReportFor(form)' = ReportFor(form)
  <2>1. DemoReport' = DemoReport
    BY <1>3 DEF DemoReport
  <2>2. ComparisonItems(form, base)' = ComparisonItems(form, base)
    BY <1>1, <1>2, <1>3, SameItems
  <2>3. PreparationChecks(form, DemoReport)' = PreparationChecks(form, DemoReport)
    BY <1>1, <1>2, <1>3, <2>1, SameChecks
  <2>4. \A p : DecisionsFor(p)' = DecisionsFor(p)
    <3>1. Pack' = Pack
      BY <1>1, <1>3, SameReading
    <3> QED
      BY <1>1, <1>2, <3>1 DEF DecisionsFor
  <2>5. \A f : ReportFor(f)' = ReportFor(f)
    BY <1>2, <2>4, Zenon DEF ReportFor
  <2> QED
    BY <1>2, <2>1, <2>2, <2>3, <2>5
<1>4. CASE comparison # <<>>
  <2>1. stage = "compared" /\ FromDemo
    BY <1>4 DEF ComparedInv, ComparedHeld
  <2>2. ~DemoNext
    BY <2>1 DEF DemoNext, RefuseForm, ReportForForm, ShowRequirements, CompareForm, Next, RewriteKb, LoadPlan, Audit,
            PrepareEvidence, Decide, Resolve, Analyze, BuildTrace, BuildAnswer, BuildReport
  <2>3. UNCHANGED <<stage, bundle, base, comparison, decisions, resolution, analysis>>
    BY <2>1, <2>2 DEF DecisionsNext, allVars, vars, demoVars
  <2> QED
    BY <1>2, <1>3, <2>3 DEF ComparedInv, ComparedHeld
<1>5. CASE comparison = <<>> /\ ~CompareForm
  <2>1. comparison' = comparison
    BY <1>5 DEF DecisionsNext, DemoNext, RefuseForm, ReportForForm, ShowRequirements, demoVars
  <2> QED
    BY <1>5, <2>1 DEF ComparedHeld
<1>6. CASE comparison = <<>> /\ CompareForm /\ FromDemo
  <2>1. /\ base # {} /\ stage = IF AsksReport(form) THEN "reported" ELSE "prepared"
        /\ comparison' = [items |-> ComparisonItems(form, base), checks |-> PreparationChecks(form, DemoReport)]
        /\ stage' = "compared" /\ UNCHANGED <<base, bundle, decisions, resolution, analysis>>
    BY <1>6 DEF CompareForm, DemoReport
  <2>2. IF AsksReport(form) THEN DemoReport = ReportFor(form) ELSE decisions = <<>>
    <3>1. CASE ~AsksReport(form)
      BY <2>1, <3>1 DEF ComparedInv, UndecidedHeld
    <3>2. CASE AsksReport(form)
      <4>1. stage \in Decided /\ stage \in Resolved /\ stage \in Analysed
        BY <2>1, <3>2 DEF Decided, Resolved, Analysed, Traced, Answered, Reported
      <4>2. decisions = DecisionsFor(profile) /\ resolution = Resolution(plan, decisions)
            /\ analysis = Analysis(plan, resolution)
        BY <4>1 DEF ReportInv, EvidenceHeld, StagesHold
      <4>3. profile = DemoApplicantProfile(form)
        BY <1>6, OfTheForm DEF ReportInv, FromDemo
      <4>4. DemoReport = ReportFor(form)
        BY <4>2, <4>3, Zenon DEF DemoReport, ReportFor
      <4> QED
        BY <3>2, <4>4
    <3> QED
      BY <3>1, <3>2
  <2>3. /\ ComparisonItems(form, base)' = ComparisonItems(form, base) /\ DemoReport' = DemoReport
        /\ PreparationChecks(form, DemoReport)' = PreparationChecks(form, DemoReport)
        /\ ReportFor(form)' = ReportFor(form)
    BY <1>3, <2>1
  <2> QED
    BY <1>2, <1>6, <2>1, <2>2, <2>3 DEF ComparedHeld
<1>7. CompareForm /\ ~FromDemo => FALSE
  BY DEF CompareForm, ComparedInv, ShownHeld
<1> QED
  BY <1>4, <1>5, <1>6, <1>7

LEMMA StepKeepsComparedInv ==
  ReportInv /\ ComparedInv /\ [DecisionsNext]_<<allVars, demoVars>> => ComparedInv'
<1> SUFFICES ASSUME ReportInv, ComparedInv, [DecisionsNext]_<<allVars, demoVars>> PROVE ComparedInv'
  OBVIOUS
<1>1. ShownHeld' /\ UndecidedHeld'
  BY StepKeepsShown, StepKeepsUndecided DEF ComparedInv
<1>2. ComparedHeld'
  BY StepKeepsCompared
<1> QED
  BY <1>1, <1>2 DEF ComparedInv

\* A date that is called a match or too late is covered by one reviewed rule: any
\* other rule that would say something of it is that of the special contact.
LEMMA OneRuleOfTheDate ==
  ASSUME Detailed, bundle.records = Records(plan), NEW f \in Forms,
         GraduationCheck(f, ReportFor(f)).status \in Definite,
         NEW r \in QualificationRules(f) \ GraduationCheck(f, ReportFor(f)).rules,
         DOMAIN OutcomesOn(ReportFor(f), r, GraduationField(f)) # {}
  PROVE  Image(OutcomesOn(ReportFor(f), r, GraduationField(f))) # {"confirmed"}
<1> DEFINE source == <<PathOf(f.basis), f.state, Term(f)>>
           contact == <<PathOf(f.basis), "special-contact", "sep">>
           rf == ReportFor(f)
           field == GraduationField(f)
           rule == plan.rule[r]
<1>1. /\ PathOf(f.basis) # NoName /\ f.state \in {"completed", "expected"} /\ ~InSpecialContact(f, rf)
      /\ GraduationCheck(f, rf).rules = {source}
  <2>1. GraduationFound(f, rf)
    BY GraduationParts
  <2>2. \A status : Check("graduation", status, {source}).rules = {source}
    BY DEF Check
  <2>3. \E status : GraduationCheck(f, rf) = Check("graduation", status, {source})
    BY <2>1, Zenon DEF GraduationFound
  <2> HIDE DEF source, rf
  <2>4. GraduationCheck(f, rf).rules = {source}
    BY <2>2, <2>3
  <2> QED
    BY <2>1, <2>4 DEF GraduationFound, rf
<1>2. f.basis \in {"graduation", "sixteen years"} /\ field = f.state
  BY <1>1 DEF PathOf, GraduationField
<1>3. r \in DOMAIN plan.rule /\ RuleMatchesTarget(rule, f) /\ AsksFor(rule, "basis", f.basis)
  BY DEF QualificationRules, AsksFor
<1>4. rf.decisions[r].outcomes = [x \in rule.predicates |-> PredicateStatus(DemoApplicantProfile(f), x)]
      /\ rf.decisions[r].scope = EvaluateScope(DemoApplicantProfile(f), request.query, rule.scope)
  BY <1>3, ReportOfForm, DecisionParts
<1>5. DOMAIN OutcomesOn(rf, r, field) = {x \in rule.predicates : x.field = field}
  <2> DEFINE o == rf.decisions[r].outcomes
  <2>1. OutcomesOn(rf, r, field) = [q \in {x \in DOMAIN o : x.field = field} |-> o[q]]
    BY DEF OutcomesOn
  <2>2. DOMAIN o = rule.predicates
    BY <1>4
  <2> HIDE DEF o
  <2> QED
    BY <2>1, <2>2
<1>6. field \in FieldsOf(rule)
  BY <1>5 DEF FieldsOf
<1>7. PICK term \in {[month |-> 4, name |-> "apr"], [month |-> 9, name |-> "sep"]} :
        /\ AsksFor(rule, "month", term.month)
        /\ \/ r = <<PathOf(f.basis), field, term.name>>
           \/ /\ r = contact /\ term.name = "sep" /\ field = "expected"
              /\ rule.scope.type = "global" /\ Cardinality({q \in rule.predicates : q.field = field}) = 2
  <2>1. DatesReviewed(plan)
    BY DetailedPlan DEF DetailedPlanReviewed
  <2>2. field \in {"completed", "expected"}
    BY <1>1, <1>2
  <2> HIDE DEF field
  <2> QED
    BY <1>2, <1>3, <1>6, <2>1, <2>2 DEF DatesReviewed
<1>8. f.month = term.month
  <2>1. PICK q \in rule.predicates : q.field = "month" /\ q.op = "equals" /\ q.value = term.month
    BY <1>7 DEF AsksFor
  <2>2. PredicateAccepts(f["month"], q)
    BY <1>3, <2>1 DEF RuleMatchesTarget, TargetFields
  <2> QED
    BY <2>1, <2>2 DEF PredicateAccepts
<1>9. Term(f) = term.name
  BY <1>7, <1>8 DEF Term
<1>10. r # <<PathOf(f.basis), field, term.name>>
  BY <1>1, <1>2, <1>9
<1>11. /\ r = contact /\ Term(f) = "sep" /\ field = "expected" /\ f.state = "expected"
       /\ rule.scope.type = "global" /\ Cardinality({q \in rule.predicates : q.field = field}) = 2
  BY <1>2, <1>7, <1>9, <1>10
<1>12. BoundInScope(f, rf, r)
  <2>1. UNION DOMAIN rf.analysis.warnings = {}
    BY ReportOfForm
  <2>2. rf.resolution[r].disposition # "overridden"
    BY <1>3, ReportOfForm DEF Disposition
  <2>3. rule.bindings \subseteq DOMAIN bundle.records
    <3>1. rule.bindings \subseteq Facts
      BY <1>3, DecisionsAssumption DEF Detailed, plan
    <3> QED
      BY <1>3, <3>1, BoundFactIsOwned
  <2>4. rf.decisions[r].scope = "confirmed"
    BY <1>4, <1>11 DEF EvaluateScope
  <2> QED
    BY <1>3, <2>1, <2>2, <2>3, <2>4 DEF BoundInScope, Bound
<1> HIDE DEF rf
<1>13. ~(Image(OutcomesOn(rf, r, "expected")) = {"confirmed"})
  BY <1>1, <1>5, <1>11, <1>12 DEF InSpecialContact
<1> QED
  BY <1>11, <1>13 DEF rf

\* What everybody is told to submit is required of the one who asks.
LEMMA CommonMaterialsApply ==
  ASSUME request \in Requests, "form" \in DOMAIN request, TargetOffered(plan, form), NEW shown,
         NEW q \in MaterialRequirements, q.status = "required"
  PROVE  \E i \in ComparisonItems(form, shown) : i.category = "materials" /\ i.of = q.of /\ i.official = "required"
<1> DEFINE f == form
           applicability == ApplicationMaterials(DemoApplicantProfile(f))
<1>1. plan.materials # NoName /\ q.of = Material(TRUE)
  <2>1. plan.materials # NoName
    BY DEF MaterialRequirements
  <2>2. PICK common \in BOOLEAN :
          q = Requirement("materials", Material(common), IF common THEN "required" ELSE "needs_information", {plan.materials})
    BY <2>1, Zenon DEF MaterialRequirements
  <2>3. q.of = Material(common) /\ q.status = IF common THEN "required" ELSE "needs_information"
    BY <2>2 DEF Requirement
  <2>4. common = TRUE
    BY <2>3
  <2> QED
    BY <2>1, <2>3, <2>4
<1>2. f \in Forms /\ f.month # NoName /\ f.month \in CommonTerms
  <2>1. plan.months \subseteq CommonTerms
    BY <1>1, FormsAssumption DEF plan
  <2>2. f.month \in plan.months
    BY DEF TargetOffered
  <2>3. f \in Forms
    BY OfTheForm
  <2> QED
    BY <2>1, <2>2, <2>3, FormsAssumption
<1>3. applicability[TRUE] = "required"
  <2>1. DemoApplicantProfile(f).term = f.month
    BY <1>2, ProfileOfForm
  <2> QED
    BY <1>2, <2>1 DEF ApplicationMaterials
<1> DEFINE i == Item("materials", Material(TRUE), MaterialStatus(applicability[TRUE], f.materials[TRUE]),
                     applicability[TRUE],
                     Evidence({x \in {y \in shown : y.category = "materials"} : x.of = Material(TRUE)}))
<1>4. i \in ComparisonItems(f, shown)
  <2> HIDE DEF f
  <2> QED
    BY <1>1 DEF ComparisonItems
<1>5. i.category = "materials" /\ i.of = Material(TRUE) /\ i.official = applicability[TRUE]
  BY DEF Item
<1> HIDE DEF i, applicability
<1> QED
  BY <1>1, <1>3, <1>4, <1>5 DEF f

\* A check of the demo that says "matches" or "act" says so of every form with more
\* filled in, no date is judged while another reviewed rule covers it, the demo's
\* reading of the target leaves out no rule in force, and what everybody is told to
\* submit is required (service/demo_requirements.py, demo_english_checks.py,
\* demo_application_checks.py).
THEOREM ChecksStandAlways == DecisionsSpec => []ChecksStand
<1> DEFINE IInv == ReportInv /\ ComparedInv
<1>1. DecisionsInit => IInv
  BY InitReportInv, InitComparedInv
<1>2. IInv /\ [DecisionsNext]_<<allVars, demoVars>> => IInv'
  BY StepKeepsReport, StepKeepsComparedInv
<1>3. IInv => ChecksStand
  <2> SUFFICES ASSUME ReportInv, ComparedInv, comparison # <<>> PROVE ChecksStand
    BY DEF ChecksStand
  <2> DEFINE rf == ReportFor(form)
             checks == PreparationChecks(form, DemoReport)
  <2>1. /\ request \in Requests /\ "form" \in DOMAIN request /\ form \in Forms
        /\ stage = "compared" /\ base # {} /\ TargetOffered(plan, form)
    BY OfTheForm DEF ReportInv, ComparedInv, ComparedHeld, ShownHeld, FromDemo
  <2>2. /\ comparison.checks = checks /\ comparison.items = ComparisonItems(form, base)
        /\ IF AsksReport(form) THEN DemoReport = rf ELSE decisions = <<>>
    BY DEF ComparedInv, ComparedHeld
  <2>3. form.document = plan.document /\ PlanAccepted(plan) /\ bundle.records = Records(plan)
    BY <2>1 DEF TargetOffered, ReportInv, EvidenceHeld, Prepared
  <2>4. AsksReport(form) => Detailed
    BY <2>1, <2>3 DEF AsksReport, Detailed
  <2>5. ASSUME NEW c \in checks, c.status \in Definite PROVE AsksReport(form)
    <3>1. plan.document = DetailedDocument
      BY <2>3, <2>5, NothingChecked
    <3>2. form.english \/ form.application
      BY <2>5 DEF PreparationChecks
    <3> QED
      BY <2>3, <3>1, <3>2 DEF AsksReport
  <2>6. ASSUME NEW c \in checks, c.status \in Definite, NEW g \in Completing(form)
        PROVE  \E e \in PreparationChecks(g, ReportFor(g)) : e.id = c.id /\ e.status = c.status
    <3>1. Detailed /\ DemoReport = rf
      BY <2>2, <2>4, <2>5, <2>6
    <3>2. c \in PreparationChecks(form, rf)
      BY <2>6, <3>1
    <3>3. FillsIn(form, g)
      BY <2>1, CompletionsFillIn
    <3> QED
      BY <2>6, <3>1, <3>2, <3>3, PreparationKept
  <2>7. ASSUME NEW c \in checks, c.id = "graduation", c.status \in Definite,
               NEW r \in QualificationRules(form) \ c.rules
        PROVE  LET dates == OutcomesOn([decisions |-> decisions], r, GraduationField(form))
               IN DOMAIN dates # {} => Image(dates) # {"confirmed"}
    <3>1. Detailed /\ DemoReport = rf
      BY <2>2, <2>4, <2>5, <2>7
    <3>2. c = GraduationCheck(form, rf)
      BY <2>7, <3>1, AboutGraduation
    <3>3. OutcomesOn([decisions |-> decisions], r, GraduationField(form)) = OutcomesOn(rf, r, GraduationField(form))
      <4>1. rf.decisions = decisions
        BY <3>1 DEF DemoReport
      <4> HIDE DEF rf
      <4> QED
        BY <4>1 DEF OutcomesOn
    <3> QED
      BY <2>1, <2>3, <2>7, <3>1, <3>2, <3>3, OneRuleOfTheDate
  <2>8. ASSUME NEW r \in DOMAIN decisions, decisions[r].status = "confirmed"
        PROVE  RuleMatchesTarget(plan.rule[r], form)
    <3>1. AsksReport(form)
      BY <2>2, <2>8
    <3>2. Detailed /\ rf.decisions = decisions
      BY <2>2, <2>4, <3>1 DEF DemoReport
    <3>3. r \in DOMAIN plan.rule /\ decisions[r] = DecisionOf(form, r)
      BY <2>8, <3>2, ReportOfForm
    <3> QED
      BY <2>1, <2>3, <2>8, <3>2, <3>3, ConfirmedMatches
  <2>9. ASSUME NEW q \in base, q.category = "materials", q.status = "required"
        PROVE  \E i \in ComparisonItems(form, base) : i.category = "materials" /\ i.of = q.of /\ i.official = "required"
    <3>1. q \in MaterialRequirements
      BY <2>9 DEF ComparedInv, ShownHeld
    <3> QED
      BY <2>1, <2>9, <3>1, CommonMaterialsApply
  <2> HIDE DEF checks
  <2> QED
    BY <2>2, <2>6, <2>7, <2>8, <2>9 DEF ChecksStand
<1> QED
  BY <1>1, <1>2, <1>3, PTL DEF DecisionsSpec

=============================================================================
