--------------------------- MODULE MaterialSlices ---------------------------
(***************************************************************************)
(* The reviewed material slices of the reference service.  A slice is a    *)
(* plan, written by reviewers, that says which records of a candidate bear *)
(* on which material, and a policy that says on which facts of employment  *)
(* each material depends (material_conditions.py, condition_core.py,       *)
(* material_slice_report.py).  The service reads all of it once, when it   *)
(* starts (reference_workspace.py), and answers from the bytes it has      *)
(* captured (reference_app.py).                                            *)
(*                                                                         *)
(* As in ReviewedImport a reviewed file has a name that is its digest.     *)
(***************************************************************************)
EXTENDS ReviewedImport

CONSTANTS
  Plans, Policies, PlanTrusts, PolicyTrusts,   \* [name -> content] of reviewed files
  SliceRequests, \* [target, profile, employment]
  Releases,      \* sets of files that reviewers put in place together
  MaxEdits,      \* bound: files of any kind replaced by hand beside the service
  MaxStarts      \* bound

-----------------------------------------------------------------------------
(* Conditions.                                                             *)

EmploymentFacts == {"employed", "retain"}

Compare(value, operator, expected) ==
  IF operator = "equals" THEN value = expected ELSE value # expected

\* Mutant: a condition of several parts holds once no part fails.
CombineOpen(mode, outcomes) ==
  IF mode = "all" THEN IF "not_matched" \in outcomes THEN "not_matched" ELSE "matched"
  ELSE IF "matched" \in outcomes THEN "matched"
       ELSE IF outcomes \subseteq {"not_matched"} THEN "not_matched" ELSE "needs_information"

\* combine, of the outcomes that occur
CombineOutcomes(mode, outcomes) ==
  LET decisive == IF mode = "all" THEN "not_matched" ELSE "matched"
      other == IF mode = "all" THEN "matched" ELSE "not_matched"
  IN IF decisive \in outcomes THEN decisive
     ELSE IF outcomes \subseteq {other} THEN other ELSE "needs_information"

\* ConditionRule.coherent_rule: in a rule of mode "all" each fact has a value
\* that meets all that is said of it.
RuleOk(rule) ==
  /\ IsInjective(rule.predicates) /\ IsInjective(rule.context)
  /\ rule.basis # {} /\ rule.basis \subseteq Range(rule.context)
  /\ rule.mode = "all" =>
       \A f \in {rule.predicates[k].field : k \in DOMAIN rule.predicates} : \E value \in BOOLEAN :
         \A k \in DOMAIN rule.predicates :
           LET p == rule.predicates[k] IN p.field = f => Compare(value, p.operator, p.expected)

\* MaterialConditionPolicy.policy_graph: the evidence a rule asks for is of
\* the documents the policy names, and the same in each rule that needs it.
PolicyOk(policy) ==
  /\ \A k \in DOMAIN policy.rules : RuleOk(policy.rules[k])
  /\ \A j, k \in DOMAIN policy.rules : j # k =>
       /\ policy.rules[j].id # policy.rules[k].id
       /\ <<policy.rules[j].topic, policy.rules[j].material>> # <<policy.rules[k].topic, policy.rules[k].material>>
  /\ \A s \in DOMAIN policy.documents : policy.documents[s].identity.institution = policy.target.institution
  /\ \A f \in DOMAIN policy.aliases : policy.target[f] \in policy.aliases[f]
  /\ \A r \in DOMAIN policy.bindings :
       LET binding == policy.bindings[r]
       IN /\ IsInjective(binding.facts)
          /\ \A k \in DOMAIN binding.facts :
               LET fact == binding.facts[k]  s == fact.document
               IN /\ s \in DOMAIN policy.documents
                  /\ fact.kb = policy.documents[s].kb /\ fact.pdf = policy.documents[s].identity.pdf
                  /\ fact.fact[1] = s /\ fact.fact[2] = r /\ fact.fact[3] = binding.revision

LoadPolicy(raw, trust) ==
  \E policy \in {Policies[raw]} :
    raw = trust.policy /\ PolicyOk(policy) /\ policy.id = trust.id /\ policy.revision = trust.revision

\* _profile_conflicts: what the applicant has entered of another target.
ProfileConflicts(request, policy) ==
  {f \in DOMAIN request.profile :
     LET told == request.profile[f]
     IN told # Absent /\ IF f \in DOMAIN policy.aliases THEN told \notin policy.aliases[f]
                       ELSE told # policy.target[f]}

Outcome(employment, predicate) ==
  LET value == employment[predicate.field]
  IN IF value = Absent THEN "needs_information"
     ELSE IF Compare(value, predicate.operator, predicate.expected) THEN "matched" ELSE "not_matched"

Entry(rule, employment) ==
  LET P == Range(rule.predicates)
  IN [rule |-> rule.id, topic |-> rule.topic, material |-> rule.material,
      status |-> CombineOutcomes(rule.mode, {Outcome(employment, p) : p \in P}),
      missing |-> {p.field : p \in {p \in P : Outcome(employment, p) = "needs_information"}}]

Evaluate(policy, request) ==
  LET conflicts == ProfileConflicts(request, policy)
      says(status, fields, entries) == [status |-> status, conflicts |-> fields, entries |-> entries]
  IN IF request.target # policy.target THEN says("not_covered", {}, <<>>)
     ELSE IF conflicts # {} THEN says("target_mismatch", conflicts, <<>>)
     ELSE says("evaluated", {}, [k \in DOMAIN policy.rules |-> Entry(policy.rules[k], request.employment)])

-----------------------------------------------------------------------------
(* The plan.                                                               *)

\* MaterialSlicePlan.graph: each record is reviewed for this target and bound
\* to a page of its source, no list is empty, and what is a basis was reviewed for
\* the application.
PlanOk(plan) ==
  LET reviews == plan.reviews
  IN /\ DOMAIN plan.topics # {}
     /\ DOMAIN reviews = UNION {Range(plan.topics[k].context) : k \in DOMAIN plan.topics}
     /\ \A j, k \in DOMAIN plan.topics : j # k => plan.topics[j].rule # plan.topics[k].rule
     /\ \A r \in DOMAIN reviews :
          LET row == reviews[r]  source == plan.sources[row.source]
          IN /\ row.source \in DOMAIN plan.sources /\ row.role = source.role
             /\ row.target = plan.target /\ row.page <= source.pages /\ DOMAIN row.facts # {}
             /\ \A k \in DOMAIN row.facts :
                  LET fact == row.facts[k]
                  IN /\ fact.document = source.identity.document /\ fact.kb = source.kb
                     /\ fact.pdf = source.identity.pdf /\ fact.pages = <<row.page>>
     /\ \A k \in DOMAIN plan.topics :
          LET topic == plan.topics[k]
          IN /\ IsInjective(topic.context)
             /\ topic.basis # {} /\ topic.basis \subseteq Range(topic.context)
             /\ \A r \in topic.basis : reviews[r].use = "basis" /\ reviews[r].stage = "application"
     /\ \A x \in plan.relations : {x.from, x.to} \subseteq DOMAIN reviews

\* Topic by topic the plan is about the rules of the policy, in their order,
\* and about the evidence the policy asks for.
TopicsFitRules(plan, policy) ==
  /\ DOMAIN plan.topics = DOMAIN policy.rules
  /\ \A k \in DOMAIN plan.topics :
       LET topic == plan.topics[k]  rule == policy.rules[k]
       IN /\ topic.rule = rule.id /\ topic.topic = rule.topic /\ topic.material = rule.material
          /\ topic.effect = rule.effect /\ topic.basis = rule.basis /\ topic.context = rule.context
          /\ \A r \in Range(rule.context) :
               /\ plan.reviews[r].revision = policy.bindings[r].revision
               /\ plan.reviews[r].facts = policy.bindings[r].facts

\* load_plan, of the names of the five files.
LoadPlan(c) ==
  \E trust \in {PlanTrusts[c.trust]}, plan \in {Plans[c.plan]}, policy \in {Policies[c.policy]}, b \in {Seeds[c.seed]} :
     /\ c.plan = trust.plan /\ PlanOk(plan) /\ plan.id = trust.id /\ plan.revision = trust.revision
     /\ DOMAIN plan.candidate.files = {"candidate.json", "lineage.json"} \cup DOMAIN plan.sources
     /\ LoadPolicy(c.policy, PolicyTrusts[c.policyTrust])
     /\ plan.policy = c.policy /\ plan.target = policy.target /\ plan.seed = c.seed
     /\ SeedOk(b) /\ b.target = plan.target /\ b.sourceSet = plan.sourceSet
     /\ Cardinality(DOMAIN b.records) = Cardinality(DOMAIN plan.reviews)
     /\ b.required = DOMAIN plan.sources
     /\ policy.seed = c.seed /\ policy.build = plan.candidate.build
     /\ policy.manifest = plan.candidate.files["candidate.json"]
     /\ DOMAIN policy.documents = DOMAIN plan.sources
     /\ TopicsFitRules(plan, policy)

-----------------------------------------------------------------------------
(* The evidence.                                                           *)

\* What verify_evidence_bytes requires of one record: seed, lineage, review
\* and KB say the same of it, fragment by fragment.
RecordVerified(plan, b, lineage, kbs, r) ==
  LET origin == b.records[r]  mapped == lineage.records[r]  review == plan.reviews[r]
  IN /\ origin.revision = review.revision /\ origin.source = review.source
     /\ origin.page = review.page /\ origin.anchor = review.anchor /\ origin.topic = mapped.topic
     /\ origin.review = mapped.review /\ mapped.revision = review.revision
     /\ mapped.source = review.source /\ mapped.page = review.page /\ mapped.anchor = review.anchor
     /\ mapped.pdf = plan.sources[review.source].identity.pdf
     /\ origin.required = mapped.required /\ DOMAIN origin.required = DOMAIN review.facts
     /\ Range(origin.required) = DOMAIN origin.fragments
     /\ DOMAIN origin.fragments = DOMAIN mapped.fragments
     /\ \A k \in DOMAIN origin.required :
          LET f == origin.required[k]  binding == review.facts[k]  mf == mapped.fragments[f]
              facts == kbs[review.source].facts
          IN /\ binding.fact \in DOMAIN facts
             /\ mf.role = origin.fragments[f].role
             /\ mf.fact = [document |-> binding.document, kb |-> binding.kb, fact |-> binding.fact]
             /\ LET fact == facts[binding.fact]
                IN /\ fact.text = origin.fragments[f].text /\ fact.text = binding.text
                   /\ fact.pages = binding.pages /\ fact.fragment = f
                   /\ fact.role = origin.fragments[f].role
                   /\ fact.record = r /\ fact.revision = origin.revision

\* Each fact is bound once, none is left out, and the relations are the seed's.
NothingOmitted(plan, b, lineage, kbs) ==
  /\ \A r, s \in DOMAIN plan.reviews : \A j \in DOMAIN plan.reviews[r].facts :
       \A k \in DOMAIN plan.reviews[s].facts :
         plan.reviews[r].facts[j].fact = plan.reviews[s].facts[k].fact => r = s /\ j = k
  /\ UNION {{plan.reviews[r].facts[k].fact : k \in DOMAIN plan.reviews[r].facts} : r \in DOMAIN plan.reviews}
       = UNION {DOMAIN kbs[s].facts : s \in DOMAIN kbs}
  /\ plan.relations = b.relations
  /\ plan.relations = {[from |-> x.from, kind |-> x.kind, to |-> x.to] : x \in lineage.relations}

\* verify_evidence_bytes: files is the candidate as read, captured the PDFs as read.
VerifyEvidence(plan, policy, b, files, captured) ==
  LET candidate == files["candidate.json"]  lineage == files["lineage.json"]
      kbs == [s \in DOMAIN plan.sources |-> files[s]]
  IN /\ files = plan.candidate.files
     /\ candidate.build = plan.candidate.build /\ candidate.build.seed = plan.seed
     /\ Configs[candidate.build.config].documents = [s \in DOMAIN plan.sources |-> plan.sources[s].identity]
     /\ candidate.lineage = lineage /\ lineage.build = candidate.build
     /\ lineage.target = plan.target /\ lineage.sourceSet = plan.sourceSet
     /\ policy.lineage = lineage
     /\ DOMAIN captured = DOMAIN plan.sources
     /\ DOMAIN candidate.documents = DOMAIN plan.sources
     /\ DOMAIN lineage.documents = DOMAIN plan.sources
     /\ \A s \in DOMAIN plan.sources :
          LET source == plan.sources[s]
          IN /\ captured[s] = source.identity.pdf /\ PdfPages[captured[s]] = source.pages
             /\ source.identity.institution = plan.target.institution /\ source.identity.document = s
             /\ plan.target.level \in source.identity.levels /\ plan.target.intake \in source.identity.intakes
             /\ candidate.documents[s] = kbs[s] /\ source.kb = kbs[s]
             /\ lineage.documents[s].kb = kbs[s] /\ lineage.documents[s].identity = source.identity
             /\ policy.documents[s].kb = kbs[s] /\ policy.documents[s].identity = source.identity
             /\ kbs[s].identity = source.identity
             /\ lineage.documents[s].count = Cardinality(DOMAIN kbs[s].facts)
     /\ DOMAIN b.records = DOMAIN plan.reviews /\ DOMAIN plan.reviews = DOMAIN lineage.records
     /\ \A r \in DOMAIN plan.reviews : RecordVerified(plan, b, lineage, kbs, r)
     /\ NothingOmitted(plan, b, lineage, kbs)

-----------------------------------------------------------------------------
(* What the service says.  A citation stands for its record and fact.      *)

TextOf(plan, files, fact) == files[fact.document].facts[fact.fact].text
RecordFacts(plan, files, r) ==
  {[record |-> r, fact |-> plan.reviews[r].facts[k].fact, stage |-> plan.reviews[r].stage,
    text |-> TextOf(plan, files, plan.reviews[r].facts[k])] : k \in DOMAIN plan.reviews[r].facts}

\* _presentation: topic by topic the records, what they are for, the relations
\* between them.
Presented(plan, files) ==
  [k \in DOMAIN plan.topics |->
     LET topic == plan.topics[k]
     IN [topic |-> topic.topic, material |-> topic.material,
         basis |-> UNION {RecordFacts(plan, files, r) : r \in topic.basis},
         context |-> UNION {RecordFacts(plan, files, r) : r \in Range(topic.context) \ topic.basis},
         relations |-> {x \in plan.relations : {x.from, x.to} \subseteq Range(topic.context)}]]

Disposition(status, effect) ==
  IF status = "matched" THEN IF effect = "required" THEN "submission_required" ELSE "submission_not_required"
  ELSE IF status = "not_matched" THEN "rule_not_applicable" ELSE "needs_information"

\* _assemble_report: topics, conditions and rules go together by position.
TopicResult(plan, files, topic, condition) ==
  [rule |-> topic.rule, material |-> topic.material, status |-> condition.status,
   disposition |-> Disposition(condition.status, topic.effect), missing |-> condition.missing,
   basis |-> UNION {RecordFacts(plan, files, r) : r \in topic.basis},
   context |-> UNION {RecordFacts(plan, files, r) : r \in Range(topic.context) \ topic.basis}]

\* _citation_inventory
Inventoried(plan, files) == UNION {RecordFacts(plan, files, r) : r \in DOMAIN plan.reviews}

\* What is answered when a check raises.
NoReport == [status |-> "refused", conflicts |-> {}, results |-> <<>>, inventory |-> {}]

\* assemble_report, of the captured bytes, all of whose checks are made again;
\* evidence is only looked at where there is a conclusion to support.
Assembled(plan, policy, c, request) ==
  LET preview == Evaluate(policy, request)
      says(results, inventory) ==
        [status |-> preview.status, conflicts |-> preview.conflicts, results |-> results, inventory |-> inventory]
  IN IF preview.status # "evaluated" THEN says(<<>>, {})
     ELSE IF ~VerifyEvidence(plan, policy, Seeds[c.seed], c.files, c.pdfs) THEN NoReport
     ELSE IF \E k \in DOMAIN plan.topics : plan.topics[k].rule # preview.entries[k].rule THEN NoReport
     ELSE says([k \in DOMAIN plan.topics |-> TopicResult(plan, c.files, plan.topics[k], preview.entries[k])],
               Inventoried(plan, c.files))
AssembleReport(c, request) ==
  IF LoadPlan(c) THEN Assembled(Plans[c.plan], Policies[c.policy], c, request) ELSE NoReport

\* load_report, of a report made elsewhere: it must be what would be made here.
LoadReport(supplied, c, request) == supplied # NoReport /\ supplied = AssembleReport(c, request)

-----------------------------------------------------------------------------
(* The service.                                                            *)

VARIABLES
  disk,      \* the files under the configured names; root: the candidate
  service,   \* "down", "reading", "loaded", "refused"
  captured,  \* [item -> bytes], as far as read; all of it once loaded
  todo,      \* items still to read, in order
  reporting, \* reference_report_lock: a report is being asked for
  reply,     \* the last report, with its request, until the next is asked for
  edits, starts,
  steady     \* history: nothing was replaced since the reading began

sliceVars == <<disk, service, captured, todo, reporting, reply, edits, starts, steady>>

Metadata == <<"root", "plan", "trust", "policy", "policyTrust", "seed">>

\* Reviewers release all the files together, and the predicates of a policy are
\* about the facts a request has fields for (its schema knows no others).
ASSUME SliceAssumption ==
  /\ \A r \in Releases :
       /\ DOMAIN r = Range(Metadata)
       /\ r.plan \in DOMAIN Plans /\ r.policy \in DOMAIN Policies /\ r.seed \in DOMAIN Seeds
  /\ \A n \in DOMAIN Policies : \A k \in DOMAIN Policies[n].rules :
    \A j \in DOMAIN Policies[n].rules[k].predicates :
      Policies[n].rules[k].predicates[j].field \in EmploymentFacts

SliceInit ==
  /\ disk \in Releases /\ service = "down" /\ captured = <<>> /\ todo = <<>>
  /\ reporting = FALSE /\ reply = Absent /\ edits = 0 /\ starts = 0 /\ steady = FALSE

StartService ==
  /\ service = "down" /\ starts < MaxStarts /\ starts' = starts + 1
  /\ service' = "reading" /\ captured' = <<>> /\ todo' = Metadata /\ steady' = TRUE
  /\ UNCHANGED <<disk, reporting, reply, edits, importVars>>

\* One file after another is read in one piece: a change between the two
\* looks at its state ends the start.
ReadMetadata ==
  /\ service = "reading" /\ todo # <<>>
  /\ captured' = [f \in DOMAIN captured \cup {Head(todo)} |->
                    IF f = Head(todo) THEN disk[f] ELSE captured[f]]
  /\ todo' = Tail(todo)
  /\ UNCHANGED <<disk, service, reporting, reply, edits, starts, steady, importVars>>

\* read_candidate_files: the tree has exactly the pinned files, each with the
\* pinned bytes, so that it does not matter when each of them is read.
CandidateReadable(plan, root) ==
  /\ published[root] # Absent /\ DOMAIN published[root] = DOMAIN plan.candidate.files
  /\ \A f \in DOMAIN published[root] : Generated[published[root][f]][f] = plan.candidate.files[f]
FilesOf(root) == [f \in DOMAIN published[root] |-> Generated[published[root][f]][f]]

\* The rest of load_reference_config: the five files agree, candidate and PDFs
\* are read and verified.  The snapshot is what has been read.
CapturedWith(files, found) == [f \in DOMAIN captured \cup {"files", "pdfs"} |->
  IF f = "files" THEN files ELSE IF f = "pdfs" THEN found ELSE captured[f]]

PdfsFound == Restrict(pdfs, DOMAIN Plans[captured.plan].sources)
SliceLoads ==
  /\ LoadPlan(captured) /\ CandidateReadable(Plans[captured.plan], captured.root)
  /\ VerifyEvidence(Plans[captured.plan], Policies[captured.policy], Seeds[captured.seed],
                    FilesOf(captured.root), PdfsFound)

LoadSlice ==
  /\ service = "reading" /\ todo = <<>> /\ SliceLoads
  /\ captured' = CapturedWith(FilesOf(captured.root), PdfsFound) /\ service' = "loaded"
  /\ UNCHANGED <<disk, todo, reporting, reply, edits, starts, steady, importVars>>

\* Anything else, or a file that was changing as it was read, leaves the
\* service without the slice.
LoadRefused ==
  /\ service = "reading" /\ (steady => todo = <<>> /\ ~SliceLoads)
  /\ service' = "refused" /\ captured' = <<>> /\ todo' = <<>>
  /\ UNCHANGED <<disk, reporting, reply, edits, starts, steady, importVars>>

\* reference_report: one at a time, from the lock through the upload, which may
\* take its time, to the answer.
BeginReport ==
  /\ service = "loaded" /\ ~reporting /\ reporting' = TRUE /\ reply' = Absent
  /\ UNCHANGED <<disk, service, captured, todo, edits, starts, steady, importVars>>

\* Mutant: the plan is read again for each report.
EndReportReread ==
  /\ reporting /\ reporting' = FALSE
  /\ reply' \in {[request |-> q, report |-> AssembleReport([captured EXCEPT !.plan = disk.plan, !.trust = disk.trust], q)] :
                 q \in SliceRequests}
  /\ UNCHANGED <<disk, service, captured, todo, edits, starts, steady, importVars>>

EndReport ==
  /\ reporting /\ reporting' = FALSE
  /\ reply' \in {[request |-> q, report |-> AssembleReport(captured, q)] : q \in SliceRequests}
  /\ UNCHANGED <<disk, service, captured, todo, edits, starts, steady, importVars>>

ReportAborted ==          \* no request in what was uploaded, or nobody waits
  /\ reporting /\ reporting' = FALSE
  /\ UNCHANGED <<disk, service, captured, todo, reply, edits, starts, steady, importVars>>

StopService ==
  /\ service \in {"loaded", "refused"} /\ ~reporting
  /\ service' = "down" /\ captured' = <<>> /\ reply' = Absent
  /\ UNCHANGED <<disk, todo, reporting, edits, starts, steady, importVars>>

\* Reviewers replace a file.
Edit(f) ==
  /\ edits + damages < MaxEdits /\ edits' = edits + 1
  /\ \E r \in Releases : r[f] # disk[f] /\ disk' = [disk EXCEPT ![f] = r[f]]
  /\ steady' = FALSE
  /\ UNCHANGED <<service, captured, todo, reporting, reply, starts, importVars>>

FilesMove ==
  /\ ImportNext /\ edits + damages' <= MaxEdits /\ steady' = (steady /\ UNCHANGED <<published, pdfs>>)
  /\ UNCHANGED <<disk, service, captured, todo, reporting, reply, edits, starts>>

SlicesNext ==
  \/ StartService \/ ReadMetadata \/ LoadSlice \/ LoadRefused \/ StopService
  \/ BeginReport \/ EndReport \/ ReportAborted
  \/ (\E f \in Range(Metadata) : Edit(f)) \/ FilesMove

-----------------------------------------------------------------------------
(* Properties.                                                             *)

\* What is said of a material on some facts of employment stays true whatever
\* the open ones turn out to be, and where nothing is said the facts that are
\* asked for are enough (combine 31-50, evaluate 361-405).
ConclusionsStand ==
  reply # Absent /\ reply.report.status = "evaluated" =>
    \E policy \in {Policies[captured.policy]} :
    LET told == reply.request.employment
        Final(e, fields) == \A f \in EmploymentFacts :
          IF told[f] # Absent THEN e[f] = told[f] ELSE f \in fields => e[f] # Absent
    IN \A k \in DOMAIN reply.report.results : \A e \in [EmploymentFacts -> BOOLEAN \cup {Absent}] :
         LET result == reply.report.results[k]  later == Entry(policy.rules[k], e).status
         IN IF result.status # "needs_information" THEN Final(e, {}) => later = result.status
            ELSE result.missing # {} /\ (Final(e, result.missing) => later # "needs_information")
=============================================================================
