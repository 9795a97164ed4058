-------------------------- MODULE ReferenceService --------------------------
(***************************************************************************)
(* The material slices as the pages meet them: what the routes of          *)
(* reference_app.py send of a captured slice, in the form in which         *)
(* BrowserPage receives and checks it.                                     *)
(***************************************************************************)
EXTENDS MaterialSlices, BrowserPage

CONSTANT Reviewed      \* releases that reviewers have put together rightly

\* The digest of all that has been read but for the two pins.
SnapshotId(c) == [plan |-> c.plan, policy |-> c.policy, seed |-> c.seed, files |-> c.files, pdfs |-> c.pdfs]

\* The PDFs a plan is about, by source.
PlannedPdfs(plan) == [s \in DOMAIN plan.sources |-> plan.sources[s].identity.pdf]

\* reference_evidence
EvidenceShown(topics) == [k \in DOMAIN topics |-> topics[k].basis \cup topics[k].context]
EvidenceAnswer(c, slice) ==
  [target |-> slice, snapshot |-> SnapshotId(c), topics |-> EvidenceShown(Presented(Plans[c.plan], c.files))]

\* reference_report, of an evaluated request
ReportAnswer(c, slice, made) ==
  [target |-> slice, snapshot |-> SnapshotId(c), inventory |-> made.inventory,
   topics |-> [k \in DOMAIN made.results |->
                 [basis |-> made.results[k].basis, context |-> made.results[k].context]]]

\* A release that was put together rightly names a candidate that verifies with
\* it; a presentation is generated of the snapshot it is kept under
\* (m19_configs.py 455-500); and no document has the name of a candidate's own
\* file, each being documents/<id>/document_kb.json.
ASSUME ReleasesAssumption ==
  /\ \A r \in Releases : r.root \in Good
  /\ \A r \in Reviewed :
       /\ r.root \in Good /\ LoadPlan(r) /\ Plans[r.plan].candidate.files = Generated[r.root]
       /\ VerifyEvidence(Plans[r.plan], Policies[r.policy], Seeds[r.seed], Generated[r.root],
                         PlannedPdfs(Plans[r.plan]))
  /\ \A p \in DOMAIN Plans, q \in DOMAIN Policies, s \in DOMAIN Seeds :
       \E id \in {[plan |-> p, policy |-> q, seed |-> s, files |-> Plans[p].candidate.files,
                   pdfs |-> PlannedPdfs(Plans[p])]} :
         id \in DOMAIN Presentation =>
           Presentation[id] = EvidenceShown(Presented(Plans[p], Plans[p].candidate.files))
  /\ \A s \in DOMAIN Seeds : Seeds[s].required \cap {"candidate.json", "lineage.json"} = {}

-----------------------------------------------------------------------------
\* What is sent of a slice is what was reviewed: each quotation is the seed's,
\* each basis of a conclusion was reviewed for the application, each conclusion
\* is that of the policy's rule for this very material; no report of a slice
\* that could be loaded is ever refused, whatever is replaced on disk
\* meanwhile, and the page that shows the evidence accepts every report; and
\* a release that was put together rightly can be loaded (load_plan 308-383,
\* verify_evidence_bytes 569-791, _assemble_report 888-997, reference_workspace
\* 239-304, unified-core.mjs 456-515, 604-650).
SlicesAreReviewed ==
  /\ reply # Absent =>
       \E evidence \in {EvidenceAnswer(captured, "slice")}, policy \in {Policies[captured.policy]} :
       LET made == reply.report
           scope == [target |-> "slice", snapshot |-> SnapshotId(captured)]
       IN /\ made.status # "refused"
          /\ made.status = "evaluated" =>
               /\ \A x \in (UNION Range(evidence.topics)) \cup made.inventory :
                    x.text = Seeds[captured.seed].records[x.record].fragments[x.fact[4]].text
               /\ \A k \in DOMAIN made.results :
                    LET result == made.results[k]
                    IN /\ \A x \in result.basis : x.stage = "application"
                       /\ \E j \in DOMAIN policy.rules :
                            LET rule == policy.rules[j]
                                status0 == Entry(rule, reply.request.employment).status
                            IN /\ rule.material = result.material
                               /\ result.disposition = Disposition(status0, rule.effect)
               /\ MapsSliceEvidence(scope, evidence)
               /\ SliceReportOk(scope, [snapshot |-> evidence.snapshot, topics |-> evidence.topics],
                                ReportAnswer(captured, "slice", made))
  /\ service = "refused" /\ steady /\ disk \in Reviewed =>
       \/ published[disk.root] = Absent \/ disk.root \in damaged
       \/ ~Audited(Seeds[disk.seed], Manifests[disk.root.manifest])
=============================================================================
