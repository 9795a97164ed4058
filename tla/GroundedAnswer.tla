--------------------------- MODULE GroundedAnswer ---------------------------
(***************************************************************************)
(* A question answered in words from reviewed rules (POST                  *)
(* /v1/grounded-answers; service/app.py, generation/grounded_rag.py and    *)
(* provider.py).  The document is searched and the report is built          *)
(* (ApplicantReport); the report is cut down to the findings whose evidence *)
(* was retrieved; a language model, which is not trusted and may draft      *)
(* anything, words them; what it drafted is checked against the findings   *)
(* and bound to the sources again.  The intent of the question (QueryIntent) *)
(* says which rules and which target it is about.                          *)
(***************************************************************************)
EXTENDS ApplicantReport, QueryIntent

CONSTANTS
  Catalog,     \* the reviewed names and aliases a question is read with
  TextOf,      \* [targets, colleges and categories -> texts]: what they are called
  SubjectsOf,  \* [categories -> sets of subjects]
  Family,      \* [subjects -> families]: a subject without its intake month
  Fragments,   \* [families -> sets of texts] that ask for a family by name
  NoFinding,   \* the finding of a claim about none
  UnknownRef   \* an evidence, finding or field that the server never named

\* A request has more fields here: the sets of facts a search may `retrieve`
\* (none: the request wants a report only), the text of the `question`, and
\* the `provider` of the generation.

\* What has one of these texts as its name.
Called(texts) == {x \in DOMAIN TextOf : TextOf[x] \in texts}

\* A report for a question is built from the intent of that question.
ASSUME QuestionAssumption ==
  /\ CatalogAccepted(Catalog)
  /\ LET asking == {r \in Requests : r.retrieves # {}}
     IN \A q \in {r.question : r \in asking} :
          LET i == ParseQueryIntent(q, Catalog)
          IN \A r \in asking : r.question = q =>
               r.query = [targets |-> Called(i.targets), colleges |-> Called(i.colleges),
                          categories |-> Called(i.categories)]

VARIABLES
  intent,      \* what the question was understood to ask for
  found,       \* [kb, facts]: what the search returned; facts are primary
  projection,  \* the cited answer cut down to what was found
  posed,       \* [findings, evidence]: the request for the model
  draft,       \* what the model made of it
  grounded     \* [claims, missing, review]: the answer

gvars == <<intent, found, projection, posed, draft, grounded>>
allVars == <<vars, gvars>>

Advance(next) ==
  /\ stage' = next
  /\ UNCHANGED <<refusal, request, kb, bundle, decisions, resolution, analysis,
                 trace, answer, report>>

Fail(reason) == Refuse(reason) /\ UNCHANGED gvars

Asked == request.retrieves # {}
CitedFacts(cites) == {c[2] : c \in cites}

-----------------------------------------------------------------------------
(* The search, of the KB file as it is by then, and the intent.            *)

RewriteDuringSearch ==
  /\ Asked /\ stage = "prepared" /\ found = <<>>
  /\ \E v \in Revisions \ {kb} : kb' = v
  /\ UNCHANGED <<stage, refusal, request, bundle, decisions, resolution, analysis,
                 trace, answer, report>>
  /\ UNCHANGED gvars

SearchDocument ==
  /\ Asked /\ stage = "prepared" /\ found = <<>>
  /\ IF kb # request.registered THEN Fail("unavailable")
     ELSE /\ \E facts \in request.retrieves : found' = [kb |-> kb, facts |-> facts]
          /\ UNCHANGED vars /\ UNCHANGED <<intent, projection, posed, draft, grounded>>

UnderstandQuestion ==
  /\ Asked /\ stage = "prepared" /\ found # <<>> /\ intent = <<>>
  /\ LET i == ParseQueryIntent(request.question, Catalog)
     IN IF ~IntentReconciles(i) THEN Fail("intent")
        ELSE IF QuestionRefused(i) THEN Fail("question")
        ELSE /\ intent' = i
             /\ UNCHANGED vars /\ UNCHANGED <<found, projection, posed, draft, grounded>>

ReportStep == Next /\ (Asked /\ stage = "prepared" => intent # <<>>) /\ UNCHANGED gvars

-----------------------------------------------------------------------------
(* The projection: of the subjects asked for, the findings all of whose    *)
(* citations were retrieved, by families; and what is said of them only.   *)

AskedSubjects == UNION {SubjectsOf[g] : g \in Called(intent.categories)}

Candidates(a) ==
  {r \in DOMAIN a.findings :
     /\ plan.subject[r] \in AskedSubjects
     /\ CitedFacts(a.findings[r]) \subseteq found.facts}

FamilyOf(r) == Family[plan.subject[r]]
NamedFamilies == {f \in DOMAIN Fragments : \E w \in Fragments[f] : Occurs(w, intent.query)}
FamiliesOf(rules, dispositions) ==
  {FamilyOf(r) : r \in {x \in rules : resolution[x].disposition \in dispositions}}

\* Mutant: of a family only the rules that are decided.
KeptDecided(a) ==
  {r \in Candidates(a) : FamilyOf(r) \in FamiliesOf(Candidates(a), {"active"})
                         /\ resolution[r].disposition # "pending"}

\* Families with an active rule and those named; pending ones if there are none.
Kept(a) ==
  LET of == Candidates(a)
      wanted == FamiliesOf(of, {"active"}) \cup {FamilyOf(r) : r \in {x \in of : FamilyOf(x) \in NamedFamilies}}
      selected == IF wanted # {} THEN wanted ELSE FamiliesOf(of, {"pending"})
  IN {r \in of : FamilyOf(r) \in selected}

Projected(a) ==
  LET kept == Kept(a)
      warnings == {p \in DOMAIN a.warnings : p \subseteq kept /\ CitedFacts(a.warnings[p]) \subseteq found.facts}
      missing == {x \in a.missing : x[1] \in kept}
      notices == {n \in a.notices : n.rules # {} /\ n.rules \subseteq kept}
  IN [findings |-> [r \in kept |-> a.findings[r]], warnings |-> [p \in warnings |-> a.warnings[p]],
      missing |-> missing, notices |-> notices, analysed |-> TRUE,
      status |-> DeriveReportStatus(resolution, kept, warnings, missing, notices)]

\* The projection is a cited answer of its own and is validated as one.
ProjectionReconciles(p) ==
  AnswerAccepted([r \in DOMAIN p.findings |-> resolution[r]],
                   [trace EXCEPT !.outcomes = [q \in DOMAIN p.warnings |-> @[q]]], p)

ProjectToRetrieval ==
  /\ Asked /\ stage = "reported"
  /\ IF \/ found.facts = {} \/ ~answer.analysed \/ Kept(answer) = {}
        \/ ~ProjectionReconciles(Projected(answer))
     THEN Fail("insufficient")
     ELSE /\ projection' = Projected(answer) /\ Advance("projected")
          /\ UNCHANGED <<intent, found, posed, draft, grounded>>

-----------------------------------------------------------------------------
(* The request for the model.  A finding is named by its rule, a warning   *)
(* by its two rules.                                                       *)

StatusForModel(r) == decisions[r].status

GenerationFindings(p) ==
  LET RuleOf(id) == CHOOSE r \in id : TRUE
  IN [id \in {{r} : r \in DOMAIN p.findings} \cup DOMAIN p.warnings |->
        IF id \in DOMAIN p.warnings
        THEN [status |-> "needs_review", evidence |-> CitedFacts(p.warnings[id]), missing |-> {}]
        ELSE [status |-> StatusForModel(RuleOf(id)), evidence |-> CitedFacts(p.findings[RuleOf(id)]),
              missing |-> {x[2] : x \in {y \in p.missing : y[1] = RuleOf(id)}}]]

FindingAccepted(f) == f.status = "needs_information" <=> f.missing # {}

FindingScopeMatchesTarget(scope) ==
  \/ scope.type = "global"
  \/ scope.type = "college" /\ profile.college \in scope.targets \cup Set(scope.parent)
  \/ /\ scope.type \notin {"global", "college"}
     /\ scope.targets = {} \/ profile.target \in scope.targets
     /\ scope.parent \in {NoName, profile.college}

\* Evidence and scope labels above 60,000 characters: how long they are is not
\* modelled, so any may be.
EvidenceTooLong == Asked /\ stage = "projected" /\ Fail("insufficient")

PrepareRequest ==
  /\ stage = "projected"
  /\ LET fs == GenerationFindings(projection)
     IN IF \/ found.kb # bundle.kb
           \/ \E id \in DOMAIN fs : ~FindingAccepted(fs[id]) \/ ~(fs[id].evidence \subseteq found.facts)
           \/ \E r \in DOMAIN projection.findings :
                decisions[r].status # "not_applicable" /\ ~FindingScopeMatchesTarget(plan.rule[r].scope)
        THEN Fail("mismatch")
        ELSE /\ posed' = [findings |-> fs, evidence |-> found.facts] /\ Advance("posed")
             /\ UNCHANGED <<intent, found, projection, draft, grounded>>

-----------------------------------------------------------------------------
(* Providers.  A claim is of a kind, about a finding, on evidence; `copy`  *)
(* tells equal claims apart.                                               *)

Claim(kind, finding, evidence, copy) ==
  [kind |-> kind, finding |-> finding, evidence |-> evidence, copy |-> copy]

RuleClaim(q, id) ==
  IF q.findings[id].evidence # {} THEN Claim("rule", id, q.findings[id].evidence, 1)
  ELSE Claim("disposition", id, {}, 1)

PendingFindings(q) ==
  {id \in DOMAIN q.findings :
     q.findings[id].status \in {"needs_information", "needs_review", "not_covered"}}
MissingFields(q) == UNION {q.findings[id].missing : id \in DOMAIN q.findings}

OfflineDraft(q) ==
  LET claims == {RuleClaim(q, id) : id \in DOMAIN q.findings}
  IN [claims |-> claims, missing |-> MissingFields(q), refused |-> FALSE,
      review |-> PendingFindings(q) # {} \/ claims = {}]

\* What a response of an online provider comes to.  The two adapters name the
\* same failures; only one of them tells apart why the client gave up.
AdapterOutcome(provider, response) ==
  IF response.error = "timeout" THEN "timeout"
  ELSE IF response.error # "none"
  THEN IF provider = "deepseek" THEN "unavailable"
       ELSE [length |-> "incomplete", filter |-> "refusal", invalid |-> "malformed",
             other |-> "unavailable"][response.error]
  ELSE IF response.refusal THEN "refusal"
  ELSE IF ~response.completed THEN "incomplete"
  ELSE IF ~response.valid THEN "malformed"
  ELSE "draft"

Responses ==
  [error : {"none", "timeout", "length", "filter", "invalid", "other"},
   refusal : BOOLEAN, completed : BOOLEAN, valid : BOOLEAN]

\* Drafts of a model: every finding worded, or all but one, or one worded
\* twice, as something else or on other evidence; a fact of its own; nothing.
DraftClaims(q) ==
  LET faithful == {RuleClaim(q, id) : id \in DOMAIN q.findings}
      Others(id) == {{}, {RuleClaim(q, id), [RuleClaim(q, id) EXCEPT !.copy = 2]},
                     {Claim("disposition", id, {}, 1)}, {Claim("rule", id, {UnknownRef}, 1)}}
                    \cup {{Claim("rule", id, {f}, 1)} : f \in q.evidence}
      Facts1 == {{f} : f \in q.evidence \cup {UnknownRef}} \cup {q.evidence}
  IN {faithful, {}}
     \cup (UNION {{(faithful \ {RuleClaim(q, id)}) \cup other : other \in Others(id)} : id \in DOMAIN q.findings})
     \cup {faithful \cup {Claim("official", NoFinding, evidence, 1)} : evidence \in Facts1}

Drafts(q) ==
  [claims : DraftClaims(q), missing : {MissingFields(q), {}, {UnknownRef}}, refused : {FALSE},
   review : BOOLEAN]
  \cup {[claims |-> {}, missing |-> {}, refused |-> TRUE, review |-> TRUE]}

Generate ==
  /\ stage = "posed"
  /\ IF request.provider = "offline"
     THEN draft' = OfflineDraft(posed) /\ Advance("drafted") /\ UNCHANGED <<intent, found, projection, posed, grounded>>
     ELSE \E response \in Responses :
            LET outcome == AdapterOutcome(request.provider, response)
            IN IF outcome # "draft" THEN Fail(outcome)
               ELSE /\ draft' \in Drafts(posed) /\ Advance("drafted")
                    /\ UNCHANGED <<intent, found, projection, posed, grounded>>

-----------------------------------------------------------------------------
(* The checks of a draft, in their order.                                  *)

DraftWellFormed(d) ==
  /\ d.claims = {} /\ ~d.refused => d.review
  /\ \A c \in d.claims : IF c.kind = "disposition" THEN c.evidence = {} ELSE c.evidence # {}

KnownReferences(q, d) ==
  \A c \in d.claims : /\ c.evidence \subseteq q.evidence
                      /\ c.finding \in DOMAIN q.findings \cup {NoFinding}

ClaimSupported(q, c) ==
  /\ c.kind = "official" => Cardinality(c.evidence) = 1
  /\ c.kind = "rule" => c.evidence = q.findings[c.finding].evidence
  /\ c.kind = "disposition" =>
       q.findings[c.finding].status # "confirmed" /\ q.findings[c.finding].evidence = {}

\* Mutant: a finding may be left out.
NoFindingTwice(q, d) ==
  \A c, e \in d.claims : c.kind # "official" /\ c.finding = e.finding => c = e

\* A draft that claims anything claims every finding, each once.
EachFindingOnce(q, d) ==
  d.claims = {} \/ \A id \in DOMAIN q.findings :
    Cardinality({c \in d.claims : c.kind # "official" /\ c.finding = id}) = 1

StateKept(q, d) ==
  /\ EachFindingOnce(q, d)
  /\ PendingFindings(q) # {} => d.review
  /\ UNION {q.findings[id].missing : id \in {x \in PendingFindings(q) :
              q.findings[x].status = "needs_information"}} \subseteq d.missing

GenerateChecked(q, d) ==
  IF ~DraftWellFormed(d) THEN "malformed"
  ELSE IF d.refused THEN "refusal"
  ELSE IF ~KnownReferences(q, d) THEN "citation"
  ELSE IF \E c \in d.claims : ~ClaimSupported(q, c) THEN "unsupported"
  ELSE IF ~StateKept(q, d) THEN "state"
  ELSE IF ~(d.missing \subseteq MissingFields(q)) THEN "citation"
  ELSE "accepted"

\* A generated answer never weakens the state of the projection.
StateOfAnswerKept(d) ==
  /\ d.missing = {x[2] : x \in projection.missing}
  /\ projection.status # "complete" => d.review

GroundClaim(c) ==
  [kind |-> c.kind, finding |-> c.finding,
   citations |-> IF c.kind = "rule" THEN posed.findings[c.finding].evidence ELSE c.evidence]

Ground ==
  /\ stage = "drafted"
  /\ IF GenerateChecked(posed, draft) # "accepted" THEN Fail(GenerateChecked(posed, draft))
     ELSE IF ~StateOfAnswerKept(draft) THEN Fail("state")
     ELSE /\ grounded' = [claims |-> {GroundClaim(c) : c \in draft.claims},
                          missing |-> draft.missing, review |-> draft.review]
          /\ Advance("grounded") /\ UNCHANGED <<intent, found, projection, posed, draft>>

\* The answer is shown with the records it cites, taken from the reviewed
\* evidence: a retrieved fact that no rule of the plan needs is not there.
Present ==
  /\ stage = "grounded"
  /\ IF ~(UNION {c.citations : c \in grounded.claims} \subseteq DOMAIN bundle.records) THEN Fail("presentation")
     ELSE Advance("presented") /\ UNCHANGED gvars

-----------------------------------------------------------------------------

GroundedInit ==
  /\ Init /\ intent = <<>> /\ found = <<>> /\ projection = <<>> /\ posed = <<>> /\ draft = <<>> /\ grounded = <<>>

GroundedNext ==
  \/ ReportStep \/ RewriteDuringSearch \/ SearchDocument \/ UnderstandQuestion
  \/ ProjectToRetrieval \/ EvidenceTooLong \/ PrepareRequest \/ Generate \/ Ground \/ Present

GroundedSpec == GroundedInit /\ [][GroundedNext]_allVars

-----------------------------------------------------------------------------
(* Properties.                                                             *)

\* Whatever the model drafts: an answer says of every finding that was kept, and
\* of every conflict between two of them, what was reviewed, once, on exactly
\* the evidence the report cites for it, all of it retrieved from the KB the
\* rules were decided on; it asks for what is missing, and does not pass for
\* settled while anything in it is not.  The only other answer is an empty one
\* that says it needs a review.  However names overlap in the question, a rule
\* of a department is confirmed only if the question plainly names no other one.
AnswerStaysReviewed ==
  grounded # <<>> =>
    LET About(rules) == {c \in grounded.claims : c.finding = rules}
        kept == DOMAIN projection.findings
    IN /\ IF grounded.claims = {} THEN grounded.review
          ELSE /\ \A r \in kept : {c.citations : c \in About({r})} = {CitedFacts(answer.findings[r])}
               /\ \A p \in DOMAIN answer.warnings : p \subseteq kept =>
                    {c.citations : c \in About(p)} = {CitedFacts(answer.warnings[p])}
       /\ \A c \in grounded.claims : /\ c.citations \subseteq found.facts
                                     /\ c.citations # {} => found.kb = bundle.kb
                                     /\ c.finding # NoFinding => c.finding \subseteq kept
       /\ \A r \in kept : resolution[r].disposition = "pending" =>
            /\ grounded.review
            /\ {x[2] : x \in {y \in answer.missing : y[1] = r}} \subseteq grounded.missing
       /\ (\E p \in DOMAIN answer.warnings : p \subseteq kept) => grounded.review
       /\ (\E r \in kept : plan.rule[r].scope.type \in {"department", "program"} /\ decisions[r].status = "confirmed")
            => Called(PlainlyNamed(request.question, Catalog)) \subseteq {profile.target}

\* The offline provider, which words every finding and invents nothing, is
\* refused for nothing but this: it asks for a review when a finding is open, and
\* the answer needs one also when no finding that is kept is open but the
\* question names another target or college than the applicant.
OfflineIsAccepted ==
  request.retrieves # {} /\ request.provider = "offline" =>
    /\ refusal \notin {"malformed", "refusal", "citation", "unsupported", "presentation"}
    /\ refusal = "state" =>
         /\ PendingFindings(posed) = {}
         /\ \E r \in DOMAIN projection.findings : "scope_input_conflict" \in decisions[r].diagnostics

\* What is cut out of an answer for a question is a cited answer by its own
\* contract: that it is none is not why a question is refused for its evidence.
ProjectionStands ==
  Asked /\ stage = "reported" /\ answer.analysed => ProjectionReconciles(Projected(answer))

\* No stage hands on what a later one refuses: neither the stages of the report,
\* nor the projection of a question and the checks of what is drafted from it.
\* What is read in a question is an intent of its own contract, but for years or
\* months of which strings and numbers do not put the same one first.
StagesReconcile ==
  /\ ReportStagesReconcile /\ ProjectionStands /\ OfflineIsAccepted
  /\ refusal = "intent" => SpelledOutOfOrder(ParseQueryIntent(request.question, Catalog))

\* An answer that passes for settled is settled: when a kept family was retrieved
\* as a whole, no fact the applicant may still tell changes which of its rules
\* are in force.
SettledAnswersAreFinal ==
  grounded # <<>> /\ ~grounded.review =>
    \A p \in Completions(profile) :
      LET res == Resolution(plan, DecisionsFor(p))
          kept == DOMAIN projection.findings
      IN \A r \in kept :
           (\A s \in DOMAIN resolution : FamilyOf(s) = FamilyOf(r) => s \in Candidates(answer))
             => res[r] = resolution[r]

\* docs/natural-language-grounded-rag-v1.md, "Server trust path": every exact
\* citation required by the reviewed answer must occur in the bounded retrieval
\* result; otherwise the endpoint refuses without calling the provider.  (Of the
\* subjects the question asks about, at least.)
EveryCitationRetrieved ==
  posed # <<>> =>
    \A r \in DOMAIN answer.findings :
      plan.subject[r] \in AskedSubjects => CitedFacts(answer.findings[r]) \subseteq found.facts

=============================================================================
