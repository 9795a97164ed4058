------------------------ MODULE MCReferenceService ------------------------
(* Two releases of one slice, and files that reviewers may get wrong.      *)
EXTENDS ReferenceService
LOCAL INSTANCE SequencesExt
LOCAL INSTANCE TLC

\* Of(x), of a value that is computed once.
Once(x, Of(_)) == CHOOSE y \in {Of(v) : v \in {x}} : TRUE

MCTarget == [institution |-> "isct", organization |-> "org", level |-> "master", intake |-> "2027-04"]
Pages == [guide |-> 2, forms |-> 1]
Pdf(s) == IF s = "guide" THEN "guide.pdf" ELSE "forms.pdf"
MCPdfPages == [d \in {"guide.pdf", "forms.pdf", "extra.pdf", "scan"} |->
                 IF d = "guide.pdf" THEN 2 ELSE IF d = "scan" THEN 0 ELSE 1]
MCPdfAt == [guide |-> {"guide.pdf", "scan"}, forms |-> {"forms.pdf"}]

MCManifests == [m1 |-> [s \in {"guide", "forms", "extra"} |->
   [pdf |-> IF s = "extra" THEN "extra.pdf" ELSE Pdf(s), pages |-> IF s = "extra" THEN 1 ELSE Pages[s]]]]
MCContracts == [c1 |->
  [target |-> MCTarget, sourceSet |-> 1,
   members |-> [s \in {"guide", "forms", "extra"} |->
      [core |-> s # "extra", edition |-> s, pdf |-> MCManifests["m1"][s].pdf, pages |-> MCManifests["m1"][s].pages]]]]

SeedRecord(topic, source, page, revision, texts) ==
  [topic |-> topic, source |-> source, page |-> page, revision |-> revision, pdf |-> Pdf(source),
   anchor |-> "anchor", review |-> "review", required |-> SetToSeq(DOMAIN texts),
   fragments |-> [f \in DOMAIN texts |-> [role |-> "clause", text |-> texts[f]]]]
Link(a, b) == [from |-> a, kind |-> "explains", to |-> b]
Seed(revision, records, relations) ==
  [id |-> "seed", revision |-> revision, target |-> MCTarget, sourceSet |-> 1, manifest |-> "m1",
   contract |-> "c1", required |-> {"guide", "forms"}, reviews |-> {"review"},
   records |-> records, relations |-> relations,
   topics |-> [t \in {records[r].topic : r \in DOMAIN records} |->
                 SetToSeq({r \in DOMAIN records : records[r].topic = t})]]
\* s1 and s2 are releases of one seed; the others are wrong.
SeedRecords(s) ==
  LET revised == s \in {"s2", "crossing"}
      duty(text, revision) == [duty |-> SeedRecord("work", "guide", 1, revision, [a1 |-> text, a2 |-> "note"])]
      others == [form |-> SeedRecord("work", "forms", 1, 1, [b1 |-> "letter"]),
                 entry |-> SeedRecord("entry", "guide", 2, 1, [c1 |-> "on entry"])]
  IN IF s = "formless" THEN [duty |-> SeedRecord("work", "guide", 1, 1, [a1 |-> "old"])]
     ELSE duty(IF revised THEN "new" ELSE "old", IF revised THEN 2 ELSE 1) @@ others
MCSeeds == [s \in {"s1", "s2", "crossing", "formless"} |->
  Once(SeedRecords(s), LAMBDA records :
    Seed(IF s \in {"s2", "crossing"} THEN 2 ELSE 1, records,
         IF s = "formless" THEN {} ELSE {Link("duty", IF s = "crossing" THEN "entry" ELSE "form")}))]

Identity(s) == [document |-> s, institution |-> "isct", pdf |-> Pdf(s), edition |-> s,
                levels |-> {"master"}, intakes |-> {"2027-04"}]
MCConfigs == [g \in DOMAIN MCSeeds |->
  [id |-> "seed", revision |-> MCSeeds[g].revision, seed |-> g, target |-> MCTarget, sourceSet |-> 1,
   documents |-> [s \in {"guide", "forms"} |-> Identity(s)]]]
MCInput(s, pinned) ==
  [seed |-> s, manifest |-> "m1", contract |-> "c1", config |-> s,
   trust |-> [id |-> "seed", revision |-> MCSeeds[s].revision, seed |-> pinned, config |-> s]]
MCInputs == {MCInput(s, s) : s \in DOMAIN MCSeeds} \cup {MCInput("s1", "s2")}

-----------------------------------------------------------------------------
B(s) == Build(MCInput(s, s))
Bindings(s, files) ==
  [r \in DOMAIN Seeds[s].records |->
     LET record == Seeds[s].records[r]
     IN [revision |-> record.revision,
         facts |-> [k \in DOMAIN record.required |->
           [document |-> record.source, pdf |-> record.pdf, pages |-> <<record.page>>,
            kb |-> files[record.source], text |-> record.fragments[record.required[k]].text,
            fact |-> FactId(Seeds[s], record.source, r, record.required[k])]]]]

Part(field, operator, expected) == [field |-> field, operator |-> operator, expected |-> expected]
MCRule(id, material, mode, predicates, effect, basis, context) ==
  [id |-> id, topic |-> "work", material |-> material, mode |-> mode, predicates |-> predicates,
   effect |-> effect, basis |-> basis, context |-> context, stage |-> "application"]
BothRule == MCRule("both", "permission", "all",
  <<Part("employed", "equals", TRUE), Part("retain", "equals", TRUE)>>, "required", {"duty"}, <<"duty", "form">>)
EitherRule == MCRule("either", "leave", "any",
  <<Part("employed", "equals", FALSE), Part("retain", "not_equals", TRUE)>>, "not_required", {"duty"}, <<"duty", "entry">>)
NoWay == [BothRule EXCEPT !.predicates = <<Part("employed", "equals", TRUE), Part("employed", "not_equals", TRUE)>>]

MCPolicy(s, rules, files) ==
  [id |-> "policy", revision |-> MCSeeds[s].revision, target |-> MCTarget, seed |-> s, build |-> B(s),
   aliases |-> [organization |-> {"org", "the org"}], rules |-> rules, bindings |-> Bindings(s, files),
   manifest |-> files["candidate.json"], lineage |-> files["lineage.json"],
   documents |-> [d \in {"guide", "forms"} |-> [identity |-> Identity(d), kb |-> files[d]]]]
PolicySeed(q) == IF q = "q2" THEN "s2" ELSE "s1"
MCPolicies == [q \in {"q1", "q2", "q3"} |->
  Once(Generated[B(PolicySeed(q))], LAMBDA files :
    MCPolicy(PolicySeed(q), <<IF q = "q3" THEN NoWay ELSE BothRule, EitherRule>>, files))]

PlanTopic(rule) == [rule |-> rule.id, topic |-> rule.topic, material |-> rule.material,
                    effect |-> rule.effect, basis |-> rule.basis, context |-> rule.context]
MCPlan(s, q, rules, entryUse, files) ==
  [id |-> "plan", revision |-> MCSeeds[s].revision, target |-> MCTarget, sourceSet |-> 1,
   seed |-> s, policy |-> q, relations |-> Seeds[s].relations,
   candidate |-> [build |-> B(s), files |-> files],
   sources |-> [d \in {"guide", "forms"} |->
      [identity |-> Identity(d), kb |-> files[d], pages |-> Pages[d], role |-> d]],
   topics |-> [k \in DOMAIN rules |-> PlanTopic(rules[k])],
   reviews |-> [r \in DOMAIN Seeds[s].records |->
      LET record == Seeds[s].records[r]
      IN [source |-> record.source, role |-> record.source, target |-> MCTarget, page |-> record.page,
          anchor |-> record.anchor, revision |-> record.revision, facts |-> Bindings(s, files)[r].facts,
          use |-> IF r = "entry" THEN entryUse ELSE "basis",
          stage |-> IF r = "entry" THEN "enrollment_context_only" ELSE "application"]]]
EntryRule == [EitherRule EXCEPT !.basis = {"entry"}]
PlanRules ==
  [p1 |-> <<BothRule, EitherRule>>, p2 |-> <<BothRule, EitherRule>>, mixed |-> <<BothRule, EitherRule>>,
   swapped |-> <<EitherRule, BothRule>>, onEntry |-> <<BothRule, EntryRule>>, noWay |-> <<NoWay, EitherRule>>]
PlanSeed(p) == IF p \in {"p2", "mixed"} THEN "s2" ELSE "s1"
PlanFiles(p, generated) ==
  LET files == generated[B(PlanSeed(p))]
  IN IF p # "mixed" THEN files ELSE [files EXCEPT !["guide"] = generated[B("s1")]["guide"]]
MCPlans == Once(Generated, LAMBDA generated : [p \in DOMAIN PlanRules |->
  LET q == IF p = "noWay" THEN "q3" ELSE IF PlanSeed(p) = "s2" THEN "q2" ELSE "q1"
      plan == MCPlan(PlanSeed(p), q, PlanRules[p], IF p = "onEntry" THEN "basis" ELSE "context",
                     generated[B(PlanSeed(p))])
  IN [plan EXCEPT !.candidate.files = PlanFiles(p, generated)]])
MCPlanTrusts == [p \in DOMAIN PlanRules |-> [plan |-> p, id |-> "plan", revision |-> MCSeeds[PlanSeed(p)].revision]]
MCPolicyTrusts == [q \in {"q1", "q2", "q3"} |->
  [policy |-> q, id |-> "policy", revision |-> MCSeeds[PolicySeed(q)].revision]]

MCRelease(s, p, q) == [root |-> B(s), plan |-> p, trust |-> p, policy |-> q, policyTrust |-> q, seed |-> s]
MCReviewed == {MCRelease("s1", "p1", "q1"), MCRelease("s2", "p2", "q2")}
MCReleases == MCReviewed \cup {MCRelease("s1", "swapped", "q1"), MCRelease("s1", "onEntry", "q1"),
                               MCRelease("s1", "noWay", "q3"), MCRelease("s2", "mixed", "q2")}

Blank == [level |-> Absent, organization |-> Absent]
AskedOf(t, p, e) == [target |-> t, profile |-> p, employment |-> e]
MCSliceRequests ==
  {AskedOf(MCTarget, Blank, [employed |-> e[1], retain |-> e[2]]) :
     e \in {<<TRUE, TRUE>>, <<TRUE, Absent>>, <<FALSE, Absent>>, <<Absent, FALSE>>, <<Absent, Absent>>}}
  \cup {AskedOf(MCTarget, [Blank EXCEPT !.organization = o], [f \in EmploymentFacts |-> TRUE]) : o \in {"the org", "other"}}
  \cup {AskedOf([MCTarget EXCEPT !.intake = "2026-10"], Blank, [f \in EmploymentFacts |-> TRUE])}

\* Two publishers race for two candidates, by themselves; and the service starts
\* on any release, while the other candidate may be about to be put in place.
PublishersRace ==
  /\ ImportInit /\ SliceInit /\ disk = MCRelease("s1", "p1", "q1")
Finisher == CHOOSE p \in Publisher : TRUE
AboutToRename == [pc |-> "stage", build |-> B("s2"), staged |-> File(B("s2"))]
OldReleaseServed ==
  /\ published = [b \in Good |-> IF b = B("s1") THEN [f \in File(b) |-> b] ELSE Absent]
  /\ publishing = [p \in Publisher |-> IF p = Finisher THEN AboutToRename ELSE NotPublishing]
  /\ pdfs = [s \in DOMAIN PdfAt |-> Pdf(s)]
  /\ publishes = MaxPublishes /\ damages = 0 /\ damaged = {}
  /\ SliceInit
=============================================================================
